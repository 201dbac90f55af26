----------------------------- MODULE HsdProofs -----------------------------
(***************************************************************************)
(* What holds of Hsd.tla for any number of clients, sessions, chunks,      *)
(* spots and restarts.                                                     *)
(***************************************************************************)
EXTENDS Hsd, SequenceTheorems, TLAPS

USE DEF Threads

\* What a worker does, a broadcast that returns included.
WorkerMoves(w) == WorkerStep(w) \/ Told(w)

\* What changes nothing but whether the clients read.
Elsewhere == ClientStalls \/ ClientResumes \/ BootFails \/ UNCHANGED vars

-----------------------------------------------------------------------------
(* Lemmas about the operators.                                             *)

\* The newest of n numbered files is file n, and there is none of none.
LEMMA LastOfInterval ==
    ASSUME NEW n \in Nat
    PROVE  LastName(1..n) = n
<1>1. CASE n = 0
  BY <1>1 DEF LastName, Nothing
<1>2. CASE n # 0
  <2>1. 1..n # {}
    BY <1>2
  <2>2. n \in 1..n /\ \A m \in 1..n : m <= n
    BY <1>2
  <2>3. \A k \in 1..n : (\A m \in 1..n : m <= k) => k = n
    BY <2>2
  <2>. QED
    BY <2>1, <2>2, <2>3 DEF LastName
<1>. QED
  BY <1>1, <1>2

\* Changing one worker gives workers again, as many as before.
LEMMA WorkerChanged ==
    ASSUME workers \in Seq(Worker), NEW w \in DOMAIN workers, NEW r \in Worker,
           Becomes(w, r)
    PROVE  /\ workers' \in Seq(Worker)
           /\ Len(workers') = Len(workers)
           /\ \A v \in DOMAIN workers : workers'[v] = IF v = w THEN r ELSE workers[v]
<1>1. w \in 1..Len(workers)
  BY LenProperties
<1>. QED
  BY <1>1, ExceptSeq DEF Becomes

\* Telling a worker to stop leaves it a worker.
LEMMA WorkerStopped ==
    ASSUME NEW r \in Worker
    PROVE  [r EXCEPT !.stop = TRUE] \in Worker
BY DEF Worker

\* What the logs are once the one at _tsv_path has certain rows.
LEMMA LogsWithRows ==
    ASSUME TypeOK, NEW rows \in Seq(Nat \X Nat), logs' = WithRows(rows)
    PROVE  /\ DOMAIN logs' = DOMAIN logs \cup {tsvPath}
           /\ DOMAIN logs' \subseteq Nat
           /\ logs' \in [DOMAIN logs' -> Seq(Nat \X Nat)]
           /\ logs'[tsvPath] = rows
           /\ \A s \in DOMAIN logs : s # tsvPath => logs'[s] = logs[s]
BY DEF TypeOK, WithRows

\* The rows of a log, whether it is there or not.
LEMMA RowsType ==
    ASSUME TypeOK
    PROVE  \A s \in Nat : Rows(s) \in Seq(Nat \X Nat) /\ Len(Rows(s)) \in Nat
<1>1. ASSUME NEW s \in Nat
      PROVE  Rows(s) \in Seq(Nat \X Nat)
  BY EmptySeq DEF TypeOK, Rows
<1>. QED
  BY <1>1, LenProperties

-----------------------------------------------------------------------------
(* Types.                                                                  *)

LEMMA TypeInit == Init => TypeOK
<1>. SUFFICES ASSUME Init PROVE TypeOK
  OBVIOUS
<1>1. workers \in Seq(Worker) /\ Len(workers) = 0 /\ captured \in Seq(Nat)
  BY EmptySeq DEF Init
<1>2. logs \in [DOMAIN logs -> Seq(Nat \X Nat)] /\ DOMAIN logs \subseteq Nat
  BY DEF Init
<1>3. pc \in [Threads -> ThreadSteps]
  BY DEF Init, ThreadSteps
<1>4. decodeWorker \in 0..Len(workers)
  BY <1>1 DEF Init
<1>5. listening \in BOOLEAN /\ capturing \in BOOLEAN /\ config \in BOOLEAN \cup {Torn}
  BY DEF Init
<1>. QED
  BY <1>1, <1>2, <1>3, <1>4, <1>5 DEF Init, TypeOK

LEMMA TypeThreadStep ==
    ASSUME TypeOK, NEW t \in Threads, ThreadStep(t)
    PROVE  TypeOK'
<1>. USE DEF ThreadSteps, Critical, StartSteps, StopSteps, SaveSteps, Goto, Leave,
            volatile, files
<1>1. CASE StartRefused(t)
  BY <1>1 DEF TypeOK, StartRefused
<1>2. CASE BeginSession(t)
  BY <1>2, TornAssumption DEF TypeOK, BeginSession, NextLogSeq
<1>3. CASE NumberSession(t)
  BY <1>3 DEF TypeOK, NumberSession
<1>15. CASE ResetCount(t)
  BY <1>15 DEF TypeOK, ResetCount
<1>17. CASE SetPath(t)
  BY <1>17 DEF TypeOK, SetPath
<1>16. CASE OpenFails(t)
  BY <1>16 DEF TypeOK, OpenFails
<1>4. CASE OpenLog(t) \/ WriteFails(t)
  <2>1. <<>> \in Seq(Nat \X Nat)
    BY EmptySeq
  <2>2. logs' = logs \/ logs' = WithRows(<<>>)
    BY <1>4 DEF OpenLog, WriteFails
  <2>3. DOMAIN logs' \subseteq Nat /\ logs' \in [DOMAIN logs' -> Seq(Nat \X Nat)]
    BY <2>1, <2>2, LogsWithRows DEF TypeOK
  <2>. QED
    BY <1>4, <2>3 DEF TypeOK, OpenLog, WriteFails
<1>5. CASE StartDecode(t)
  <2>1. NewWorker \in Worker
    BY DEF NewWorker, Worker, WorkerSteps, Nothing
  <2>2. workers' \in Seq(Worker) /\ Len(workers') = Len(workers) + 1
    BY <1>5, <2>1, AppendProperties DEF TypeOK, StartDecode
  <2>. QED
    BY <1>5, <2>2, LenProperties DEF TypeOK, StartDecode
<1>6. CASE StartCapture(t)
  BY <1>6 DEF TypeOK, StartCapture
<1>7. CASE CaptureFails(t)
  BY <1>7 DEF TypeOK, CaptureFails
<1>8. CASE StopRefused(t)
  BY <1>8 DEF TypeOK, StopRefused
<1>9. CASE BeginStop(t)
  BY <1>9 DEF TypeOK, BeginStop
<1>10. CASE HaltCapture(t)
  BY <1>10 DEF TypeOK, HaltCapture
<1>11. CASE SetStopEvent(t)
  <2>1. CASE decodeWorker = 0
    BY <1>11, <2>1 DEF TypeOK, SetStopEvent
  <2>2. CASE decodeWorker # 0
    <3>1. decodeWorker \in 1..Len(workers)
      BY <2>2, LenProperties DEF TypeOK
    <3>2. [workers[decodeWorker] EXCEPT !.stop = TRUE] \in Worker
      BY <3>1, ElementOfSeq, WorkerStopped DEF TypeOK
    <3>3. workers' = [workers EXCEPT ![decodeWorker] =
                          [workers[decodeWorker] EXCEPT !.stop = TRUE]]
      BY <1>11, <2>2, <3>1 DEF SetStopEvent
    <3>4. workers' \in Seq(Worker) /\ Len(workers') = Len(workers)
      BY <3>1, <3>2, <3>3, ExceptSeq DEF TypeOK
    <3>. QED
      BY <1>11, <3>4 DEF TypeOK, SetStopEvent
  <2>. QED
    BY <2>1, <2>2
<1>12. CASE JoinReturns(t)
  <2>1. Len(workers) \in Nat
    BY LenProperties DEF TypeOK
  <2>2. EndSession(t)
    BY <1>12 DEF JoinReturns
  <2>3. decodeWorker' \in 0..Len(workers')
    BY <2>1, <2>2 DEF EndSession
  <2>. QED
    BY <2>2, <2>3 DEF TypeOK, EndSession
<1>13. CASE JoinTimesOut(t)
  <2>1. Len(workers) \in Nat
    BY LenProperties DEF TypeOK
  <2>2. EndSession(t)
    BY <1>13 DEF JoinTimesOut
  <2>3. decodeWorker' \in 0..Len(workers')
    BY <2>1, <2>2 DEF EndSession
  <2>. QED
    BY <2>2, <2>3 DEF TypeOK, EndSession
<1>14. CASE LoadRaises(t) \/ TruncateConfig(t) \/ Save(t)
  BY <1>14 DEF TypeOK, LoadRaises, TruncateConfig, Save
<1>. QED
  BY <1>1, <1>2, <1>3, <1>4, <1>5, <1>6, <1>7, <1>8, <1>9, <1>10, <1>11,
     <1>12, <1>13, <1>14, <1>15, <1>16, <1>17 DEF ThreadStep, Starting, Stopping, Saving

\* What a step of worker w that touches no shared state does to the types.
LEMMA TypeOwnStep ==
    ASSUME TypeOK, NEW w \in DOMAIN workers, NEW r \in Worker, Becomes(w, r),
           UNCHANGED <<pc, lock, volatile, files, starts, crashes, stalled>>
    PROVE  TypeOK'
<1>1. workers' \in Seq(Worker) /\ Len(workers') = Len(workers)
  BY WorkerChanged DEF TypeOK
<1>. QED
  BY <1>1 DEF TypeOK, volatile, files

LEMMA TypeWorkerStep ==
    ASSUME TypeOK, NEW w \in DOMAIN workers, WorkerMoves(w)
    PROVE  TypeOK'
<1>1. workers[w] \in Worker
  BY LenProperties, ElementOfSeq DEF TypeOK
<1>2. Chunks \subseteq Nat /\ Len(captured) \in Nat
  BY LenProperties DEF TypeOK, Chunks
<1>3. \A cand : AfterVisit(cand) \in WorkerSteps
  BY DEF AfterVisit, WorkerSteps
<1>4. CASE SeedWorker(w)
  <2>1. Seed(Chunks) \in Nat
    BY <1>2, LastOfInterval DEF Seed, Chunks
  <2>2. [workers[w] EXCEPT !.pc = "check", !.last = Seed(Chunks)] \in Worker
    BY <1>1, <2>1 DEF Worker, WorkerSteps
  <2>. QED
    BY <1>4, <2>2, TypeOwnStep DEF SeedWorker
<1>5. CASE CheckStop(w)
  <2>1. [workers[w] EXCEPT !.pc = IF StopSeen(w) THEN "exit" ELSE "glob"] \in Worker
    BY <1>1 DEF Worker, WorkerSteps
  <2>. QED
    BY <1>5, <2>1, TypeOwnStep DEF CheckStop
<1>6. CASE Glob(w)
  <2>. DEFINE cand == Candidates(Chunks, workers[w].last)
  <2>1. cand \in SUBSET Nat
    BY <1>2 DEF Candidates
  <2>2. [workers[w] EXCEPT !.cand = cand, !.pc = AfterVisit(cand)] \in Worker
    BY <1>1, <1>3, <2>1 DEF Worker
  <2>. QED
    BY <1>6, <2>2, TypeOwnStep DEF Glob
<1>7. CASE Decode(w)
  <2>1. PICK wav \in workers[w].cand, spots \in 0..MaxSpots :
            Becomes(w, [workers[w] EXCEPT !.pc = "deliver", !.wav = wav, !.left = spots])
    BY <1>7 DEF Decode
  <2>2. wav \in Nat /\ spots \in Nat
    BY <1>1, <2>1, BoundsAssumption DEF Worker
  <2>3. [workers[w] EXCEPT !.pc = "deliver", !.wav = wav, !.left = spots] \in Worker
    BY <1>1, <2>2 DEF Worker, WorkerSteps
  <2>. QED
    BY <1>7, <2>1, <2>3, TypeOwnStep DEF Decode
<1>8. CASE OnSpot(w)
  <2>1. [workers[w] EXCEPT !.left = @ - 1, !.pc = "tell"] \in Worker
    <3>1. workers[w].left - 1 \in Nat
      BY <1>1, <1>8 DEF OnSpot, Worker
    <3>. QED
      BY <1>1, <3>1 DEF Worker, WorkerSteps
  <2>2. workers' \in Seq(Worker) /\ Len(workers') = Len(workers)
    BY <1>8, <2>1, WorkerChanged DEF TypeOK, OnSpot
  <2>3. Row(w) \in Nat \X Nat
    BY <1>1 DEF Row, Worker
  <2>4. Append(Rows(tsvPath), Row(w)) \in Seq(Nat \X Nat)
    <3>1. Rows(tsvPath) \in Seq(Nat \X Nat)
      BY RowsType DEF TypeOK
    <3>. QED
      BY <2>3, <3>1, AppendProperties
  <2>5. DOMAIN logs' \subseteq Nat /\ logs' \in [DOMAIN logs' -> Seq(Nat \X Nat)]
    BY <1>8, <2>4, LogsWithRows DEF OnSpot
  <2>. QED
    BY <1>8, <2>2, <2>5 DEF TypeOK, OnSpot, Counted
<1>9. CASE OnSpotRaises(w)
  <2>1. [workers[w] EXCEPT !.pc = "exit"] \in Worker
    BY <1>1 DEF Worker, WorkerSteps
  <2>2. workers' \in Seq(Worker) /\ Len(workers') = Len(workers)
    BY <1>9, <2>1, WorkerChanged DEF TypeOK, OnSpotRaises
  <2>. QED
    BY <1>9, <2>2 DEF TypeOK, OnSpotRaises, Counted, files
<1>10. CASE Advance(w)
  <2>. DEFINE cand == workers[w].cand \ {workers[w].wav}
  <2>1. cand \in SUBSET Nat
    BY <1>1 DEF Worker
  <2>2. [workers[w] EXCEPT !.last = workers[w].wav, !.cand = cand,
                           !.pc = AfterVisit(cand)] \in Worker
    BY <1>1, <1>3, <2>1 DEF Worker
  <2>. QED
    BY <1>10, <2>2, TypeOwnStep DEF Advance
<1>11. CASE Told(w)
  <2>1. [workers[w] EXCEPT !.pc = "deliver"] \in Worker
    BY <1>1 DEF Worker, WorkerSteps
  <2>. QED
    BY <1>11, <2>1, TypeOwnStep DEF Told
<1>. QED
  BY <1>4, <1>5, <1>6, <1>7, <1>8, <1>9, <1>10, <1>11 DEF WorkerMoves, WorkerStep

LEMMA TypeStep ==
    ASSUME TypeOK, [Next]_vars
    PROVE  TypeOK'
<1>1. ASSUME NEW c \in Clients, RequestStart(c) \/ RequestStop(c)
      PROVE  TypeOK'
  <2>1. pc' \in [Threads -> ThreadSteps]
    BY <1>1 DEF TypeOK, RequestStart, RequestStop, Goto, ThreadSteps
  <2>2. starts' \in Nat
    BY <1>1 DEF TypeOK, RequestStart, RequestStop
  <2>3. UNCHANGED <<lock, volatile, workers, files, crashes, stalled>>
    BY <1>1 DEF RequestStart, RequestStop
  <2>. QED
    BY <2>1, <2>2, <2>3 DEF TypeOK, volatile, files
<1>2. ASSUME NEW t \in Threads, ThreadStep(t)
      PROVE  TypeOK'
  BY <1>2, TypeThreadStep
<1>3. ASSUME NEW w \in DOMAIN workers, WorkerMoves(w)
      PROVE  TypeOK'
  BY <1>3, TypeWorkerStep
<1>4. CASE ChunkLands
  <2>1. captured' \in Seq(Nat)
    BY <1>4, AppendProperties DEF TypeOK, ChunkLands
  <2>. QED
    BY <1>4, <2>1 DEF TypeOK, ChunkLands, volatile
<1>5. CASE Crash
  <2>1. workers' \in Seq(Worker) /\ Len(workers') = 0
    BY <1>5, EmptySeq DEF Crash
  <2>2. pc' \in [Threads -> ThreadSteps]
    BY <1>5 DEF Crash, ThreadSteps
  <2>3. decodeWorker' \in 0..Len(workers')
    BY <1>5, <2>1 DEF Crash
  <2>4. /\ listening' \in BOOLEAN /\ capturing' \in BOOLEAN /\ stalled' \in BOOLEAN
        /\ lock' \in Threads \cup {NoOne}
    BY <1>5 DEF Crash
  <2>. QED
    <3>1. UNCHANGED files /\ starts' = starts /\ crashes' = crashes + 1
      BY <1>5 DEF Crash
    <3>2. seq' = 0 /\ session' = 0 /\ tsvPath' = 0 /\ spotCount' = 0
      BY <1>5 DEF Crash
    <3>. QED
      BY <2>1, <2>2, <2>3, <2>4, <3>1, <3>2 DEF TypeOK, files
<1>6. CASE Boot
  <2>1. listening' \in BOOLEAN
    BY <1>6 DEF TypeOK, Boot, Loadable
  <2>2. pc' \in [Threads -> ThreadSteps]
    BY <1>6 DEF TypeOK, Boot, Goto, ThreadSteps
  <2>. QED
    BY <1>6, <2>1, <2>2 DEF TypeOK, Boot, files
<1>7. CASE Elsewhere
  BY <1>7 DEF TypeOK, Elsewhere, BootFails, ClientStalls, ClientResumes, vars,
              volatile, files
<1>. QED
  BY <1>1, <1>2, <1>3, <1>4, <1>5, <1>6, <1>7 DEF Next, Elsewhere, WorkerMoves

\* Every variable stays in its type: the type invariant that the runs check.
THEOREM TypeCorrect == Spec => []TypeOK
BY TypeInit, TypeStep, PTL DEF Spec

-----------------------------------------------------------------------------
(* Mutual exclusion.                                                       *)

\* A thread is inside a critical section exactly while it owns _state_lock.
LockOK == \A t \in Threads : pc[t] \in Critical <=> lock = t

LEMMA LockInit == Init => LockOK
BY ThreadsAssumption DEF Init, LockOK, Critical, StartSteps, StopSteps, SaveSteps

LEMMA LockStep ==
    ASSUME TypeOK, LockOK, [Next]_vars
    PROVE  LockOK'
<1>. USE ThreadsAssumption
     DEF LockOK, Critical, StartSteps, StopSteps, SaveSteps, Goto, Leave, volatile,
         files
<1>1. pc \in [Threads -> ThreadSteps]
  BY DEF TypeOK
<1>2. ASSUME NEW c \in Clients, RequestStart(c) \/ RequestStop(c)
      PROVE  LockOK'
  BY <1>1, <1>2 DEF RequestStart, RequestStop
<1>3. ASSUME NEW t \in Threads, Starting(t)
      PROVE  LockOK'
  BY <1>1, <1>3 DEF Starting, StartRefused, BeginSession, NumberSession, SetPath,
                    ResetCount, OpenLog, StartDecode, StartCapture, CaptureFails
<1>4. ASSUME NEW t \in Threads, Stopping(t)
      PROVE  LockOK'
  BY <1>1, <1>4 DEF Stopping, StopRefused, BeginStop, HaltCapture, SetStopEvent,
                    JoinReturns, JoinTimesOut, EndSession
<1>10. ASSUME NEW t \in Threads, Saving(t)
       PROVE  LockOK'
  BY <1>1, <1>10 DEF Saving, LoadRaises, TruncateConfig, Save, OpenFails, WriteFails
<1>5. ASSUME NEW w \in DOMAIN workers, WorkerMoves(w)
      PROVE  LockOK'
  BY <1>5 DEF WorkerMoves, WorkerStep, Told, SeedWorker, CheckStop, Glob, Decode,
              OnSpot, OnSpotRaises, Advance
<1>6. CASE ChunkLands
  BY <1>6 DEF ChunkLands
<1>7. CASE Crash
  BY <1>7 DEF Crash
<1>8. CASE Boot
  BY <1>1, <1>8 DEF Boot, Up
<1>9. CASE Elsewhere
  BY <1>9 DEF Elsewhere, BootFails, ClientStalls, ClientResumes, vars
<1>. QED
  BY <1>2, <1>3, <1>4, <1>5, <1>6, <1>7, <1>8, <1>9, <1>10
  DEF Next, Elsewhere, WorkerMoves, ThreadStep

\* No two threads are inside start_listening or stop_listening at a time.
THEOREM MutualExclusion ==
    Spec => [](\A t, u \in Threads : pc[t] \in Critical /\ pc[u] \in Critical => t = u)
<1>1. LockOK => \A t, u \in Threads : pc[t] \in Critical /\ pc[u] \in Critical => t = u
  BY DEF LockOK
<1>2. TypeOK /\ LockOK /\ [Next]_vars => TypeOK' /\ LockOK'
  BY TypeStep, LockStep
<1>. QED
  BY <1>1, <1>2, TypeInit, LockInit, PTL DEF Spec

-----------------------------------------------------------------------------
(* A daemon that does not run.                                             *)

\* Between a crash and the next start nothing of the process is left.
DownInv ==
    ~Up => /\ \A t \in Threads : pc[t] \in {"idle", "down"}
           /\ lock = NoOne /\ listening = FALSE /\ session = 0 /\ tsvPath = 0
           /\ spotCount = 0 /\ decodeWorker = 0 /\ capturing = FALSE
           /\ workers = <<>>

LEMMA DownInit == Init => DownInv
BY DEF Init, DownInv

\* So a thread that is in the middle of an operation is one of a process.
LEMMA ThreadsAreUp ==
    ASSUME TypeOK, DownInv, NEW t \in Threads, ThreadStep(t)
    PROVE  Up /\ Up'
<1>1. pc \in [Threads -> ThreadSteps]
  BY DEF TypeOK
<1>2. ASSUME Starting(t) \/ Stopping(t)
      PROVE  pc[t] \notin {"idle", "down"}
             /\ \E step \in ThreadSteps \ {"down"} : pc' = [pc EXCEPT ![t] = step]
  BY <1>2 DEF Starting, Stopping, StartRefused, BeginSession, NumberSession, SetPath,
       ResetCount, OpenLog, StartDecode, StartCapture, CaptureFails, StopRefused,
       BeginStop, HaltCapture, SetStopEvent, JoinReturns, JoinTimesOut, EndSession,
       Goto, Leave, ThreadSteps, Critical, StartSteps, StopSteps, SaveSteps
<1>3. ASSUME Saving(t)
      PROVE  pc[t] \notin {"idle", "down"}
             /\ \E step \in ThreadSteps \ {"down"} : pc' = [pc EXCEPT ![t] = step]
  BY <1>3 DEF Saving, LoadRaises, TruncateConfig, Save, OpenFails, WriteFails, Goto,
       Leave, ThreadSteps, Critical, SaveSteps
<1>. QED
  BY <1>1, <1>2, <1>3 DEF ThreadStep, DownInv, Up

LEMMA DownStep ==
    ASSUME TypeOK, DownInv, [Next]_vars
    PROVE  DownInv'
<1>. USE DEF volatile, files
<1>1. ASSUME NEW c \in Clients, RequestStart(c) \/ RequestStop(c)
      PROVE  DownInv'
  BY <1>1, ThreadsAssumption
  DEF TypeOK, DownInv, RequestStart, RequestStop, Goto, Up, Serving
<1>2. ASSUME NEW t \in Threads, ThreadStep(t)
      PROVE  DownInv'
  BY <1>2, ThreadsAreUp DEF DownInv
<1>3. ASSUME NEW w \in DOMAIN workers, WorkerMoves(w)
      PROVE  DownInv'
  <2>1. Up
    BY <1>3, EmptySeq DEF DownInv
  <2>2. pc' = pc
    BY <1>3 DEF WorkerMoves, WorkerStep, Told, SeedWorker, CheckStop, Glob, Decode,
                OnSpot, OnSpotRaises, Advance
  <2>. QED
    BY <2>1, <2>2 DEF DownInv, Up
<1>4. CASE ChunkLands
  BY <1>4 DEF DownInv, Up, ChunkLands
<1>5. CASE Crash
  BY <1>5 DEF DownInv, Crash
<1>6. CASE Boot
  BY <1>6 DEF TypeOK, DownInv, Boot, Goto, Up
<1>7. CASE Elsewhere
  BY <1>7 DEF DownInv, Elsewhere, BootFails, ClientStalls, ClientResumes, Up, vars
<1>. QED
  BY <1>1, <1>2, <1>3, <1>4, <1>5, <1>6, <1>7 DEF Next, Elsewhere, WorkerMoves

-----------------------------------------------------------------------------
(* The spot count and the log.                                             *)

\* The number of a session is not 0; _tsv_path and the count are those of the
\* session once they are set; nobody delivers spots before the first session;
\* and the count covers the rows of a session that is on, exactly those of any
\* session if nothing fails to be opened or written.
CountInv ==
    /\ \A t \in Threads :
           /\ pc[t] = "number" => seq # 0
           /\ pc[t] \in {"path", "count", "log", "decode"} => session # 0
           /\ pc[t] \in {"count", "log"} => tsvPath = session
           /\ pc[t] = "log" => spotCount = 0
           /\ pc[t] \in StartSteps => ~listening
    /\ workers # <<>> => session # 0
    /\ (listening \/ \E t \in Threads : pc[t] \in {"decode", "capture"}) /\ session # 0 =>
           tsvPath = session /\ Len(Rows(session)) <= spotCount
    /\ ~WriteMayFail /\ session # 0
       /\ (\A t \in Threads : pc[t] \notin {"path", "count", "log"}) =>
           /\ tsvPath = session
           /\ session \in DOMAIN logs /\ Len(logs[session]) = spotCount

LEMMA CountInit == Init => CountInv
BY DEF Init, CountInv, StartSteps

\* What the holder of the lock finds of the session, before and after.
LEMMA CountThreadStep ==
    ASSUME TypeOK, LockOK, CountInv, NEW t \in Threads, ThreadStep(t)
    PROVE  CountInv'
<1>. USE ThreadsAssumption
     DEF CountInv, LockOK, Critical, StartSteps, StopSteps, SaveSteps, Goto, Leave,
         volatile, files
<1>1. pc \in [Threads -> ThreadSteps]
  BY DEF TypeOK
<1>2. CASE StartRefused(t) \/ StopRefused(t) \/ BeginStop(t) \/ HaltCapture(t)
           \/ CaptureFails(t)
  BY <1>1, <1>2 DEF StartRefused, StopRefused, BeginStop, HaltCapture, CaptureFails,
                    Rows
<1>3. CASE JoinReturns(t) \/ JoinTimesOut(t)
  BY <1>1, <1>3 DEF JoinReturns, JoinTimesOut, EndSession, Rows
<1>11. CASE LoadRaises(t) \/ TruncateConfig(t) \/ Save(t)
  BY <1>1, <1>11 DEF LoadRaises, TruncateConfig, Save, Rows
<1>12. CASE OpenFails(t)
  BY <1>1, <1>12 DEF OpenFails, Rows
<1>13. CASE StartCapture(t)
  BY <1>1, <1>13 DEF StartCapture, Rows
<1>4. CASE BeginSession(t)
  <2>1. seq' # 0
    BY <1>4 DEF TypeOK, BeginSession, NextLogSeq
  <2>. QED
    BY <1>1, <1>4, <2>1 DEF BeginSession, Rows
<1>5. CASE NumberSession(t)
  BY <1>1, <1>5 DEF NumberSession
<1>10. CASE SetPath(t) \/ ResetCount(t)
  BY <1>1, <1>10 DEF SetPath, ResetCount
<1>6. ASSUME OpenLog(t) \/ WriteFails(t), pc[t] = "log"
      PROVE  CountInv'
  <2>1. session # 0 /\ spotCount = 0 /\ tsvPath = session
    BY <1>6
  <2>2. logs' = WithRows(<<>>)
    BY <1>6 DEF OpenLog, WriteFails
  <2>3. session \in DOMAIN logs' /\ Len(logs'[session]) = 0
    BY <2>1, <2>2, EmptySeq, LogsWithRows
  <2>. QED
    BY <1>1, <1>6, <2>1, <2>3 DEF OpenLog, WriteFails, Rows
<1>9. ASSUME WriteFails(t), pc[t] # "log"
      PROVE  CountInv'
  BY <1>1, <1>9 DEF WriteFails, Rows
<1>7. CASE StartDecode(t)
  BY <1>1, <1>7 DEF StartDecode, Rows
<1>8. CASE SetStopEvent(t)
  <2>1. workers = <<>> => workers' = <<>>
    BY <1>8, EmptySeq DEF TypeOK, SetStopEvent
  <2>. QED
    BY <1>1, <1>8, <2>1 DEF SetStopEvent, Rows
<1>. QED
  BY <1>2, <1>3, <1>4, <1>5, <1>6, <1>7, <1>8, <1>9, <1>10, <1>11, <1>12, <1>13
  DEF ThreadStep, Starting, Stopping, Saving, OpenLog

LEMMA CountWorkerStep ==
    ASSUME TypeOK, LockOK, CountInv, NEW w \in DOMAIN workers, WorkerMoves(w)
    PROVE  CountInv'
<1>. USE DEF volatile, files
<1>1. workers # <<>> /\ session # 0
  BY EmptySeq DEF CountInv
<1>2. CASE SeedWorker(w) \/ CheckStop(w) \/ Glob(w) \/ Decode(w) \/ Advance(w) \/ Told(w)
  <2>1. UNCHANGED <<pc, seq, session, tsvPath, spotCount, listening, logs>>
    BY <1>2 DEF SeedWorker, CheckStop, Glob, Decode, Advance, Told
  <2>. QED
    BY <1>1, <2>1 DEF CountInv, Rows
<1>3. ASSUME LockIsFree
      PROVE  \A t \in Threads : pc[t] \notin StartSteps
  BY <1>3, ThreadsAssumption DEF LockIsFree, LockOK, Critical
<1>4. CASE OnSpot(w)
  <2>. DEFINE old == Rows(tsvPath)
  <2>1. /\ listening => tsvPath = session /\ Len(old) <= spotCount
        /\ ~WriteMayFail => /\ tsvPath = session /\ session \in DOMAIN logs
                            /\ Len(logs[session]) = spotCount
    BY <1>1, <1>3, <1>4 DEF CountInv, OnSpot, StartSteps
  <2>2. Row(w) \in Nat \X Nat /\ old \in Seq(Nat \X Nat)
    <3>1. workers[w] \in Worker
      BY LenProperties, ElementOfSeq DEF TypeOK
    <3>. QED
      BY <3>1, RowsType DEF Row, Worker, TypeOK
  <2>3. Append(old, Row(w)) \in Seq(Nat \X Nat) /\ Len(Append(old, Row(w))) = Len(old) + 1
    BY <2>2, AppendProperties
  <2>4. tsvPath \in DOMAIN logs' /\ logs'[tsvPath] = Append(old, Row(w))
    BY <1>4, <2>3, LogsWithRows DEF OnSpot
  <2>5. Len(old) \in Nat /\ spotCount \in Nat
    BY <2>2, LenProperties DEF TypeOK
  <2>6. /\ session' = session /\ tsvPath' = tsvPath /\ spotCount' = spotCount + 1
        /\ UNCHANGED <<pc, seq, listening>>
        /\ \A t \in Threads : pc[t] \notin StartSteps
    BY <1>3, <1>4 DEF OnSpot, Counted
  <2>7. listening => Len(Rows(session)') <= spotCount'
    BY <2>1, <2>3, <2>4, <2>5, <2>6 DEF Rows
  <2>8. ~WriteMayFail => session \in DOMAIN logs' /\ Len(logs'[session]) = spotCount'
    BY <2>1, <2>3, <2>4, <2>5, <2>6 DEF Rows
  <2>. QED
    BY <1>1, <2>1, <2>6, <2>7, <2>8 DEF CountInv, StartSteps
<1>5. CASE OnSpotRaises(w)
  <2>1. listening => tsvPath = session /\ Len(Rows(session)) <= spotCount
    BY <1>1 DEF CountInv
  <2>2. Len(Rows(session)) \in Nat /\ spotCount \in Nat
    BY RowsType DEF TypeOK
  <2>3. WriteMayFail /\ \A t \in Threads : pc[t] \notin StartSteps
    BY <1>3, <1>5 DEF OnSpotRaises
  <2>. QED
    BY <1>1, <1>5, <2>1, <2>2, <2>3 DEF CountInv, StartSteps, OnSpotRaises, Counted,
                                        Rows
<1>. QED
  BY <1>2, <1>4, <1>5 DEF WorkerMoves, WorkerStep

LEMMA CountStep ==
    ASSUME TypeOK, LockOK, DownInv, CountInv, [Next]_vars
    PROVE  CountInv'
<1>. USE DEF volatile, files
<1>1. ASSUME NEW c \in Clients, RequestStart(c) \/ RequestStop(c)
      PROVE  CountInv'
  <2>1. UNCHANGED <<seq, session, tsvPath, spotCount, listening, logs, workers>>
    BY <1>1 DEF RequestStart, RequestStop
  <2>2. pc[c] = "idle" /\ pc'[c] \in {"start", "stop"}
        /\ \A t \in Threads : t # c => pc'[t] = pc[t]
    BY <1>1 DEF TypeOK, RequestStart, RequestStop, Goto
  <2>3. \A t \in Threads : \A step \in StartSteps : pc'[t] = step <=> pc[t] = step
    BY <2>2 DEF StartSteps
  <2>. QED
    BY <2>1, <2>3 DEF CountInv, Rows, StartSteps
<1>2. ASSUME NEW t \in Threads, ThreadStep(t)
      PROVE  CountInv'
  BY <1>2, CountThreadStep
<1>3. ASSUME NEW w \in DOMAIN workers, WorkerMoves(w)
      PROVE  CountInv'
  BY <1>3, CountWorkerStep
<1>4. CASE ChunkLands
  BY <1>4 DEF CountInv, Rows, ChunkLands
<1>5. CASE Crash
  BY <1>5 DEF CountInv, StartSteps, Rows, Crash
<1>6. CASE Boot
  <2>1. session = 0 /\ workers = <<>> /\ \A t \in Threads : pc'[t] \notin StartSteps
    BY <1>6 DEF TypeOK, DownInv, StartSteps, Boot, Goto
  <2>. QED
    BY <1>6, <2>1 DEF CountInv, StartSteps, Boot
<1>7. CASE Elsewhere
  BY <1>7 DEF CountInv, Rows, Elsewhere, BootFails, ClientStalls, ClientResumes, vars
<1>. QED
  BY <1>1, <1>2, <1>3, <1>4, <1>5, <1>6, <1>7 DEF Next, Elsewhere, WorkerMoves

LEMMA CountInvariant == Spec => [](TypeOK /\ LockOK /\ DownInv /\ CountInv)
<1>1. Init => TypeOK /\ LockOK /\ DownInv /\ CountInv
  BY TypeInit, LockInit, DownInit, CountInit
<1>2. TypeOK /\ LockOK /\ DownInv /\ CountInv /\ [Next]_vars
          => (TypeOK /\ LockOK /\ DownInv /\ CountInv)'
  BY TypeStep, LockStep, DownStep, CountStep
<1>. QED
  BY <1>1, <1>2, PTL DEF Spec

\* A free lock means that no session is being set up.
LEMMA FreeLockNotOpening ==
    ASSUME LockOK, lock = NoOne
    PROVE  \A t \in Threads : pc[t] \notin StartSteps
BY ThreadsAssumption DEF LockOK, Critical

\* Whatever fails, no row is in the log of a session that is on that was not
\* counted.
THEOREM CountCovers == Spec => []CountCoversLog
<1>1. CountInv => CountCoversLog
  BY DEF CountInv, CountCoversLog
<1>. QED
  BY <1>1, CountInvariant, PTL

\* As long as files can be opened and written, the count is the number of rows,
\* also while workers of earlier sessions are still delivering.
THEOREM CountMatches ==
    ASSUME ~WriteMayFail
    PROVE  Spec => []CountMatchesLog
<1>1. LockOK /\ CountInv => CountMatchesLog
  BY FreeLockNotOpening DEF CountInv, CountMatchesLog, StartSteps
<1>. QED
  BY <1>1, CountInvariant, PTL

-----------------------------------------------------------------------------
(* The workers.                                                            *)

\* Where _decode_worker is None, and that the worker stop_listening waits
\* for has been told to stop.  While there is no process nothing runs.
WorkerInv ==
    /\ OneUnstoppedWorker
    /\ lock = NoOne /\ ~listening => decodeWorker = 0
    /\ \A t \in Threads : pc[t] \in {"number", "path", "count", "log", "decode"} =>
           decodeWorker = 0
    /\ \A t \in Threads : pc[t] \in SaveSteps /\ ~listening => decodeWorker = 0
    /\ \A t \in Threads :
           pc[t] = "join" /\ decodeWorker # 0 => workers[decodeWorker].stop
    /\ ~Up => decodeWorker = 0 /\ \A t \in Threads : pc[t] \in {"idle", "down"}

LEMMA WorkerInit == Init => WorkerInv
BY EmptySeq DEF Init, WorkerInv, OneUnstoppedWorker, SaveSteps, Up

\* As long as no worker is created, stopped or let go of, and nobody moves
\* into a critical section, the workers stay accounted for.
LEMMA WorkerThreadStep ==
    ASSUME ~CaptureMayFail, TypeOK, LockOK, WorkerInv, NEW t \in Threads, ThreadStep(t)
    PROVE  WorkerInv'
<1>. USE ThreadsAssumption
     DEF WorkerInv, LockOK, Critical, StartSteps, StopSteps, SaveSteps, Goto, Leave,
         Up, volatile, files
<1>1. pc \in [Threads -> ThreadSteps]
  BY DEF TypeOK
<1>2. Up
  BY <1>1 DEF ThreadStep, Starting, Stopping, Saving, StartRefused, BeginSession,
              NumberSession, SetPath, ResetCount, OpenLog, StartDecode, StartCapture,
              CaptureFails, StopRefused, BeginStop, HaltCapture, SetStopEvent,
              JoinReturns, JoinTimesOut, Save, LoadRaises, TruncateConfig, OpenFails, WriteFails
<1>3. CASE StartRefused(t) \/ StopRefused(t) \/ BeginStop(t) \/ HaltCapture(t)
           \/ BeginSession(t)
  BY <1>1, <1>2, <1>3 DEF OneUnstoppedWorker, StartRefused, StopRefused, BeginStop,
                          HaltCapture, BeginSession
<1>4. CASE NumberSession(t) \/ SetPath(t) \/ ResetCount(t) \/ OpenLog(t)
  BY <1>1, <1>2, <1>4 DEF OneUnstoppedWorker, NumberSession, SetPath, ResetCount,
                          OpenLog
<1>5. CASE StartCapture(t)
  BY <1>1, <1>2, <1>5 DEF OneUnstoppedWorker, StartCapture
<1>9. CASE Saving(t)
  BY <1>1, <1>2, <1>9 DEF OneUnstoppedWorker, Saving, LoadRaises, TruncateConfig, Save,
                          OpenFails, WriteFails
<1>6. CASE StartDecode(t)
  <2>1. \A w \in DOMAIN workers : workers[w].stop
    BY <1>6, LenProperties DEF TypeOK, OneUnstoppedWorker, StartDecode
  <2>2. /\ DOMAIN workers' = 1..(Len(workers) + 1)
        /\ \A w \in DOMAIN workers : workers'[w] = workers[w]
        /\ DOMAIN workers = 1..Len(workers)
        /\ Len(workers) \in Nat
    <3>1. NewWorker \in Worker
      BY DEF NewWorker, Worker, WorkerSteps, Nothing
    <3>. QED
      BY <1>6, <3>1, AppendProperties, LenProperties DEF TypeOK, StartDecode
  <2>3. OneUnstoppedWorker'
    BY <1>6, <2>1, <2>2 DEF OneUnstoppedWorker, StartDecode
  <2>. QED
    BY <1>1, <1>2, <1>6, <2>3 DEF StartDecode
<1>7. CASE SetStopEvent(t)
  <2>1. CASE decodeWorker = 0
    BY <1>1, <1>2, <1>7, <2>1 DEF OneUnstoppedWorker, SetStopEvent
  <2>2. CASE decodeWorker # 0
    <3>1. /\ workers \in Seq(Worker)
          /\ decodeWorker \in DOMAIN workers
          /\ workers[decodeWorker] \in Worker
      BY <2>2, LenProperties, ElementOfSeq DEF TypeOK
    <3>2. Becomes(decodeWorker, [workers[decodeWorker] EXCEPT !.stop = TRUE])
      BY <1>7, <2>2, <3>1 DEF SetStopEvent, Becomes
    <3>3. /\ DOMAIN workers' = DOMAIN workers
          /\ \A w \in DOMAIN workers : w # decodeWorker => workers'[w] = workers[w]
          /\ workers'[decodeWorker] = [workers[decodeWorker] EXCEPT !.stop = TRUE]
      BY <3>1, <3>2, WorkerStopped, WorkerChanged, LenProperties
    <3>4. workers'[decodeWorker].stop
      BY <3>1, <3>3 DEF Worker
    <3>. QED
      BY <1>1, <1>2, <1>7, <3>3, <3>4 DEF OneUnstoppedWorker, SetStopEvent
  <2>. QED
    BY <2>1, <2>2
<1>8. CASE JoinReturns(t) \/ JoinTimesOut(t)
  <2>1. pc[t] = "join" /\ EndSession(t)
    BY <1>8 DEF JoinReturns, JoinTimesOut
  <2>2. \A w \in DOMAIN workers : workers[w].stop
    BY <2>1, LenProperties DEF TypeOK, OneUnstoppedWorker
  <2>. QED
    BY <1>1, <1>2, <2>1, <2>2 DEF OneUnstoppedWorker, EndSession
<1>. QED
  BY <1>3, <1>4, <1>5, <1>6, <1>7, <1>8, <1>9
  DEF ThreadStep, Starting, Stopping, CaptureFails

\* A worker's step neither sets nor clears a stop event.
LEMMA WorkerKeepsEvents ==
    ASSUME TypeOK, NEW w \in DOMAIN workers, WorkerMoves(w)
    PROVE  /\ DOMAIN workers' = DOMAIN workers
           /\ \A v \in DOMAIN workers : workers'[v].stop = workers[v].stop
<1>1. workers[w] \in Worker
  BY LenProperties, ElementOfSeq DEF TypeOK
<1>2. ASSUME NEW r, workers' = [workers EXCEPT ![w] = r], r.stop = workers[w].stop
      PROVE  /\ DOMAIN workers' = DOMAIN workers
             /\ \A v \in DOMAIN workers : workers'[v].stop = workers[v].stop
  BY <1>2
<1>. USE <1>1, <1>2 DEF Becomes, Worker
<1>3. CASE SeedWorker(w)
  BY <1>3 DEF SeedWorker
<1>4. CASE CheckStop(w)
  BY <1>4 DEF CheckStop
<1>5. CASE Glob(w)
  BY <1>5 DEF Glob
<1>6. CASE Decode(w)
  BY <1>6 DEF Decode
<1>7. CASE OnSpot(w)
  BY <1>7 DEF OnSpot
<1>8. CASE OnSpotRaises(w)
  BY <1>8 DEF OnSpotRaises
<1>9. CASE Advance(w)
  BY <1>9 DEF Advance
<1>10. CASE Told(w)
  BY <1>10 DEF Told
<1>. QED
  BY <1>3, <1>4, <1>5, <1>6, <1>7, <1>8, <1>9, <1>10 DEF WorkerMoves, WorkerStep

LEMMA WorkerInvStep ==
    ASSUME ~CaptureMayFail, TypeOK, LockOK, WorkerInv, [Next]_vars
    PROVE  WorkerInv'
<1>. USE DEF Up, volatile, files
<1>1. ASSUME NEW c \in Clients, RequestStart(c) \/ RequestStop(c)
      PROVE  WorkerInv'
  <2>1. Up /\ Up'
    BY <1>1, ThreadsAssumption DEF TypeOK, RequestStart, RequestStop, Serving, Goto
  <2>. QED
    BY <1>1, <2>1 DEF TypeOK, WorkerInv, OneUnstoppedWorker, SaveSteps, RequestStart,
                      RequestStop, Goto
<1>2. ASSUME NEW t \in Threads, ThreadStep(t)
      PROVE  WorkerInv'
  BY <1>2, WorkerThreadStep
<1>3. ASSUME NEW w \in DOMAIN workers, WorkerMoves(w)
      PROVE  WorkerInv'
  <2>1. /\ DOMAIN workers' = DOMAIN workers
        /\ \A v \in DOMAIN workers : workers'[v].stop = workers[v].stop
    BY <1>3, WorkerKeepsEvents
  <2>2. UNCHANGED <<pc, lock, listening, decodeWorker>>
    BY <1>3 DEF WorkerMoves, WorkerStep, Told, SeedWorker, CheckStop, Glob, Decode,
                OnSpot, OnSpotRaises, Advance
  <2>3. decodeWorker # 0 => decodeWorker \in DOMAIN workers
    BY LenProperties DEF TypeOK
  <2>. QED
    BY <2>1, <2>2, <2>3 DEF WorkerInv, OneUnstoppedWorker
<1>4. CASE ChunkLands
  BY <1>4 DEF WorkerInv, OneUnstoppedWorker, ChunkLands
<1>5. CASE Crash
  BY <1>5, EmptySeq DEF WorkerInv, OneUnstoppedWorker, SaveSteps, Crash
<1>6. CASE Boot
  <2>1. decodeWorker' = 0 /\ workers' = workers
    BY <1>6 DEF WorkerInv, Boot
  <2>2. pc'[Main] # "down" /\ \A t \in Threads : pc'[t] # "join"
    BY <1>6 DEF TypeOK, WorkerInv, Boot, Goto
  <2>. QED
    BY <1>6, <2>1, <2>2 DEF WorkerInv, OneUnstoppedWorker, Boot
<1>7. CASE Elsewhere
  BY <1>7 DEF WorkerInv, OneUnstoppedWorker, Elsewhere, BootFails, ClientStalls,
              ClientResumes, vars
<1>. QED
  BY <1>1, <1>2, <1>3, <1>4, <1>5, <1>6, <1>7 DEF Next, Elsewhere, WorkerMoves

\* If captures start, stop_listening reaches every worker there is to stop.
THEOREM OneWorker ==
    ASSUME ~CaptureMayFail
    PROVE  Spec => []OneUnstoppedWorker
<1>1. Init => TypeOK /\ LockOK /\ WorkerInv
  BY TypeInit, LockInit, WorkerInit
<1>2. TypeOK /\ LockOK /\ WorkerInv /\ [Next]_vars => (TypeOK /\ LockOK /\ WorkerInv)'
  BY TypeStep, LockStep, WorkerInvStep
<1>3. WorkerInv => OneUnstoppedWorker
  BY DEF WorkerInv
<1>. QED
  BY <1>1, <1>2, <1>3, PTL DEF Spec

-----------------------------------------------------------------------------
(* The logs.                                                               *)

\* The counter file holds the highest number ever given to a log, except
\* while the next number is being written, which is then higher than all.
FreshInv ==
    /\ counter = Torn => \E t \in Threads : pc[t] = "number"
    /\ counter # Torn => \A s \in DOMAIN logs : s <= counter
    /\ \A t \in Threads : pc[t] = "number" => \A s \in DOMAIN logs : s < seq
    /\ \A t \in Threads :
           /\ pc[t] \in {"path", "count", "log"} =>
                  counter = session /\ session \notin DOMAIN logs
           /\ pc[t] \in {"count", "log"} => tsvPath = session

LEMMA FreshInit == Init => FreshInv
BY TornAssumption DEF Init, FreshInv

LEMMA FreshThreadStep ==
    ASSUME ~WriteMayFail, TypeOK, LockOK, FreshInv, NEW t \in Threads, ThreadStep(t)
    PROVE  FreshInv'
<1>. USE ThreadsAssumption, TornAssumption
     DEF FreshInv, LockOK, Critical, StartSteps, StopSteps, SaveSteps, Goto, Leave,
         volatile, files
<1>1. pc \in [Threads -> ThreadSteps] /\ seq \in Nat /\ session \in Nat
      /\ tsvPath \in Nat /\ counter \in Nat \cup {Torn} /\ DOMAIN logs \subseteq Nat
  BY DEF TypeOK
<1>2. CASE StartRefused(t) \/ StopRefused(t) \/ BeginStop(t) \/ HaltCapture(t)
           \/ SetStopEvent(t)
  BY <1>1, <1>2 DEF StartRefused, StopRefused, BeginStop, HaltCapture, SetStopEvent
<1>3. CASE StartDecode(t) \/ StartCapture(t) \/ CaptureFails(t)
  BY <1>1, <1>3 DEF StartDecode, StartCapture, CaptureFails
<1>9. CASE LoadRaises(t) \/ TruncateConfig(t) \/ Save(t)
  BY <1>1, <1>9 DEF LoadRaises, TruncateConfig, Save
<1>4. CASE JoinReturns(t) \/ JoinTimesOut(t)
  BY <1>1, <1>4 DEF JoinReturns, JoinTimesOut, EndSession
<1>5. CASE BeginSession(t)
  <2>1. counter # Torn
    BY <1>5 DEF BeginSession
  <2>2. \A s \in DOMAIN logs : s < seq'
    BY <1>1, <1>5, <2>1 DEF BeginSession, NextLogSeq
  <2>. QED
    BY <1>1, <1>5, <2>2 DEF BeginSession
<1>6. CASE NumberSession(t)
  <2>1. (\A s \in DOMAIN logs : s <= seq) /\ seq \notin DOMAIN logs
    BY <1>1, <1>6 DEF NumberSession
  <2>2. \A u \in Threads : pc'[u] # "number"
    BY <1>1, <1>6 DEF NumberSession
  <2>. QED
    BY <1>1, <1>6, <2>1, <2>2 DEF NumberSession
<1>8. CASE SetPath(t) \/ ResetCount(t)
  BY <1>1, <1>8 DEF SetPath, ResetCount
<1>7. CASE OpenLog(t)
  <2>1. DOMAIN logs' = DOMAIN logs \cup {counter} /\ counter # Torn
    BY <1>1, <1>7 DEF OpenLog, WithRows
  <2>2. \A u \in Threads : pc'[u] \notin {"number", "path", "count", "log"}
    BY <1>1, <1>7 DEF OpenLog
  <2>. QED
    BY <1>1, <1>7, <2>1, <2>2 DEF OpenLog
<1>. QED
  BY <1>2, <1>3, <1>4, <1>5, <1>6, <1>7, <1>8, <1>9
  DEF ThreadStep, Starting, Stopping, Saving, OpenFails, WriteFails

LEMMA FreshStep ==
    ASSUME ~CrashMayTear, ~WriteMayFail, TypeOK, LockOK, CountInv, FreshInv, [Next]_vars
    PROVE  FreshInv'
<1>. USE DEF volatile, files
<1>1. ASSUME NEW c \in Clients, RequestStart(c) \/ RequestStop(c)
      PROVE  FreshInv'
  BY <1>1 DEF TypeOK, FreshInv, RequestStart, RequestStop, Goto
<1>2. ASSUME NEW t \in Threads, ThreadStep(t)
      PROVE  FreshInv'
  BY <1>2, FreshThreadStep
<1>3. ASSUME NEW w \in DOMAIN workers, WorkerMoves(w)
      PROVE  FreshInv'
  <2>1. UNCHANGED <<pc, counter, seq, session, tsvPath>>
    BY <1>3 DEF WorkerMoves, WorkerStep, Told, SeedWorker, CheckStop, Glob, Decode,
                OnSpot, OnSpotRaises, Advance
  <2>2. CASE OnSpot(w)
    <3>1. workers # <<>> /\ lock = NoOne
      BY <2>2, EmptySeq DEF OnSpot, LockIsFree
    <3>2. tsvPath \in DOMAIN logs
      BY <3>1, FreeLockNotOpening DEF CountInv, StartSteps
    <3>3. DOMAIN logs' = DOMAIN logs
      BY <2>2, <3>2 DEF OnSpot, WithRows
    <3>. QED
      BY <2>1, <3>3 DEF FreshInv
  <2>3. CASE logs' = logs
    BY <2>1, <2>3 DEF FreshInv
  <2>. QED
    BY <1>3, <2>2, <2>3 DEF WorkerMoves, WorkerStep, Told, SeedWorker, CheckStop,
                            Glob, Decode, OnSpotRaises, Advance
<1>4. CASE ChunkLands
  BY <1>4 DEF FreshInv, ChunkLands
<1>5. CASE Crash
  BY <1>5 DEF FreshInv, Crash
<1>6. CASE Boot
  BY <1>6 DEF TypeOK, FreshInv, Boot, Goto, Up
<1>7. CASE Elsewhere
  BY <1>7 DEF FreshInv, Elsewhere, BootFails, ClientStalls, ClientResumes, vars
<1>. QED
  BY <1>1, <1>2, <1>3, <1>4, <1>5, <1>6, <1>7 DEF Next, Elsewhere, WorkerMoves

\* The rows of every log stay, and stay what they are.
RowsStay == \A s \in DOMAIN logs :
                /\ s \in DOMAIN logs'
                /\ Len(logs[s]) <= Len(logs'[s])
                /\ \A i \in 1..Len(logs[s]) : logs'[s][i] = logs[s][i]

LEMMA RowsStayStep ==
    ASSUME ~WriteMayFail, TypeOK, FreshInv, [Next]_vars
    PROVE  RowsStay
<1>. USE DEF volatile, files
<1>1. \A s \in DOMAIN logs : logs[s] \in Seq(Nat \X Nat) /\ Len(logs[s]) \in Nat
  BY LenProperties DEF TypeOK
<1>2. CASE logs' = logs
  BY <1>1, <1>2 DEF RowsStay
<1>3. ASSUME NEW t \in Threads, OpenLog(t)
      PROVE  RowsStay
  <2>1. tsvPath \notin DOMAIN logs
    BY <1>3 DEF FreshInv, OpenLog
  <2>2. \A s \in DOMAIN logs : s \in DOMAIN logs' /\ logs'[s] = logs[s]
    BY <1>3, <2>1 DEF OpenLog, WithRows
  <2>. QED
    BY <1>1, <2>2 DEF RowsStay
<1>4. ASSUME NEW w \in DOMAIN workers, OnSpot(w)
      PROVE  RowsStay
  <2>1. Row(w) \in Nat \X Nat
    <3>1. workers[w] \in Worker
      BY LenProperties, ElementOfSeq DEF TypeOK
    <3>. QED
      BY <3>1 DEF Row, Worker
  <2>2. DOMAIN logs' = DOMAIN logs \cup {tsvPath}
    BY <1>4 DEF OnSpot, WithRows
  <2>3. \A s \in DOMAIN logs : s # tsvPath => logs'[s] = logs[s]
    BY <1>4 DEF OnSpot, WithRows
  <2>4. tsvPath \in DOMAIN logs => logs'[tsvPath] = Append(logs[tsvPath], Row(w))
    BY <1>4 DEF OnSpot, WithRows, Rows
  <2>5. ASSUME tsvPath \in DOMAIN logs
        PROVE  /\ Len(logs[tsvPath]) <= Len(logs'[tsvPath])
               /\ \A i \in 1..Len(logs[tsvPath]) : logs'[tsvPath][i] = logs[tsvPath][i]
    <3>1. logs[tsvPath] \in Seq(Nat \X Nat) /\ Len(logs[tsvPath]) \in Nat
      BY <1>1, <2>5
    <3>2. /\ Len(Append(logs[tsvPath], Row(w))) = Len(logs[tsvPath]) + 1
          /\ \A i \in 1..Len(logs[tsvPath]) :
                 Append(logs[tsvPath], Row(w))[i] = logs[tsvPath][i]
      BY <2>1, <3>1, AppendProperties
    <3>3. /\ Len(logs'[tsvPath]) = Len(logs[tsvPath]) + 1
          /\ \A i \in 1..Len(logs[tsvPath]) : logs'[tsvPath][i] = logs[tsvPath][i]
      BY <2>4, <2>5, <3>2
    <3>4. Len(logs[tsvPath]) <= Len(logs[tsvPath]) + 1
      BY <3>1
    <3>. QED
      BY <3>3, <3>4
  <2>6. ASSUME NEW s \in DOMAIN logs
        PROVE  /\ s \in DOMAIN logs' /\ Len(logs[s]) <= Len(logs'[s])
               /\ \A i \in 1..Len(logs[s]) : logs'[s][i] = logs[s][i]
    <3>1. CASE s = tsvPath
      BY <2>2, <2>5, <3>1
    <3>2. CASE s # tsvPath
      BY <1>1, <2>2, <2>3, <3>2
    <3>. QED
      BY <3>1, <3>2
  <2>. QED
    BY <2>6 DEF RowsStay
<1>5. \/ logs' = logs
      \/ \E t \in Threads : OpenLog(t)
      \/ \E w \in DOMAIN workers : OnSpot(w)
  <2>1. ASSUME NEW t \in Threads, ThreadStep(t)
        PROVE  logs' = logs \/ OpenLog(t)
    BY <2>1 DEF ThreadStep, Starting, Stopping, Saving, StartRefused, BeginSession,
                NumberSession, SetPath, ResetCount, StartDecode, StartCapture, CaptureFails,
                StopRefused, BeginStop, HaltCapture, SetStopEvent, JoinReturns,
                JoinTimesOut, EndSession, LoadRaises, TruncateConfig, Save,
                OpenFails, WriteFails
  <2>2. ASSUME NEW w \in DOMAIN workers, WorkerMoves(w)
        PROVE  logs' = logs \/ OnSpot(w)
    BY <2>2 DEF WorkerMoves, WorkerStep, Told, SeedWorker, CheckStop, Glob, Decode,
                OnSpotRaises, Advance
  <2>. QED
    BY <2>1, <2>2 DEF Next, Elsewhere, WorkerMoves, RequestStart, RequestStop,
                      ChunkLands, Crash, Boot, Elsewhere, BootFails, ClientStalls,
                      ClientResumes, vars
<1>. QED
  BY <1>2, <1>3, <1>4, <1>5

LEMMA FreshInvariant ==
    ASSUME ~CrashMayTear, ~WriteMayFail
    PROVE  Spec => [](TypeOK /\ LockOK /\ DownInv /\ CountInv /\ FreshInv)
<1>1. Init => TypeOK /\ LockOK /\ DownInv /\ CountInv /\ FreshInv
  BY TypeInit, LockInit, DownInit, CountInit, FreshInit
<1>2. TypeOK /\ LockOK /\ DownInv /\ CountInv /\ FreshInv /\ [Next]_vars
          => (TypeOK /\ LockOK /\ DownInv /\ CountInv /\ FreshInv)'
  BY TypeStep, LockStep, DownStep, CountStep, FreshStep
<1>. QED
  BY <1>1, <1>2, PTL DEF Spec

\* As long as neither a crash nor a full disk tears the counter file, a number
\* is never used twice.
THEOREM NumbersAreFresh ==
    ASSUME ~CrashMayTear, ~WriteMayFail
    PROVE  Spec => []FreshNumbers
<1>1. TypeOK /\ FreshInv => FreshNumbers
  BY DEF TypeOK, FreshInv, FreshNumbers
<1>. QED
  BY <1>1, FreshInvariant, PTL

\* As long as neither a crash nor a full disk tears the counter file, rows are
\* never lost or changed.
THEOREM AppendOnly ==
    ASSUME ~CrashMayTear, ~WriteMayFail
    PROVE  Spec => LogsAppendOnly
<1>1. TypeOK /\ FreshInv /\ [Next]_vars => [RowsStay]_vars
  BY RowsStayStep
<1>2. Spec => [][RowsStay]_vars
  BY <1>1, FreshInvariant, PTL DEF Spec
<1>. QED
  BY <1>2 DEF LogsAppendOnly, RowsStay

-----------------------------------------------------------------------------
(* config.json and the session.                                            *)

\* While a process runs, config.json is torn only while somebody is writing
\* it, and says otherwise what the global says, which is saved as soon as it
\* changes.
DiskInv ==
    /\ Up /\ config = Torn => \E t \in Threads : pc[t] = "write"
    /\ Up /\ config # Torn =>
           config = listening \/ \E t \in Threads : pc[t] = "save"

LEMMA DiskInit == Init => DiskInv
BY DEF Init, DiskInv, Up

LEMMA DiskThreadStep ==
    ASSUME ~WriteMayFail, TypeOK, LockOK, DownInv, DiskInv, NEW t \in Threads, ThreadStep(t)
    PROVE  DiskInv'
<1>. USE ThreadsAssumption, TornAssumption
     DEF DiskInv, LockOK, Critical, StartSteps, StopSteps, SaveSteps, Goto, Leave,
         Up, volatile, files
<1>1. pc \in [Threads -> ThreadSteps] /\ listening \in BOOLEAN
  BY DEF TypeOK
<1>2. pc[Main] # "down" /\ pc'[Main] # "down"
  BY ThreadsAreUp
<1>3. CASE StartRefused(t) \/ StopRefused(t) \/ BeginStop(t) \/ HaltCapture(t)
           \/ SetStopEvent(t) \/ BeginSession(t)
  BY <1>1, <1>2, <1>3 DEF StartRefused, StopRefused, BeginStop, HaltCapture,
                          SetStopEvent, BeginSession
<1>4. CASE NumberSession(t) \/ ResetCount(t) \/ OpenLog(t) \/ StartDecode(t)
           \/ CaptureFails(t)
  BY <1>1, <1>2, <1>4 DEF NumberSession, SetPath, ResetCount, OpenLog, StartDecode,
                          CaptureFails
<1>7. CASE SetPath(t)
  BY <1>1, <1>2, <1>7 DEF SetPath
<1>5. CASE StartCapture(t) \/ JoinReturns(t) \/ JoinTimesOut(t)
  BY <1>1, <1>2, <1>5 DEF StartCapture, JoinReturns, JoinTimesOut, EndSession
<1>6. CASE LoadRaises(t) \/ TruncateConfig(t) \/ Save(t)
  BY <1>1, <1>2, <1>6 DEF LoadRaises, TruncateConfig, Save
<1>. QED
  BY <1>3, <1>4, <1>5, <1>6, <1>7
  DEF ThreadStep, Starting, Stopping, Saving, OpenFails, WriteFails

LEMMA DiskStep ==
    ASSUME ~WriteMayFail, TypeOK, LockOK, DownInv, DiskInv, [Next]_vars
    PROVE  DiskInv'
<1>. USE DEF volatile, files
<1>1. ASSUME NEW c \in Clients, RequestStart(c) \/ RequestStop(c)
      PROVE  DiskInv'
  BY <1>1, ThreadsAssumption
  DEF TypeOK, DiskInv, RequestStart, RequestStop, Goto, Up, Serving
<1>2. ASSUME NEW t \in Threads, ThreadStep(t)
      PROVE  DiskInv'
  BY <1>2, DiskThreadStep
<1>3. ASSUME NEW w \in DOMAIN workers, WorkerMoves(w)
      PROVE  DiskInv'
  <2>1. UNCHANGED <<pc, config, listening>>
    BY <1>3 DEF WorkerMoves, WorkerStep, Told, SeedWorker, CheckStop, Glob, Decode,
                OnSpot, OnSpotRaises, Advance
  <2>. QED
    BY <2>1 DEF DiskInv, Up
<1>4. CASE ChunkLands
  BY <1>4 DEF DiskInv, Up, ChunkLands
<1>5. CASE Crash
  BY <1>5 DEF DiskInv, Up, Crash
<1>6. CASE Boot
  BY <1>6, TornAssumption DEF TypeOK, DiskInv, Boot, Loadable, Goto, Up
<1>7. CASE Elsewhere
  BY <1>7 DEF DiskInv, Elsewhere, BootFails, ClientStalls, ClientResumes, Up, vars
<1>. QED
  BY <1>1, <1>2, <1>3, <1>4, <1>5, <1>6, <1>7 DEF Next, Elsewhere, WorkerMoves

\* As long as files can be written, what config.json says is what the daemon
\* is doing whenever nobody is inside start_listening or stop_listening; a
\* start that fails or a crash, even in the middle of a write, is no exception.
THEOREM DiskIsCurrent ==
    ASSUME ~WriteMayFail
    PROVE  Spec => []DiskAgrees
<1>1. Init => TypeOK /\ LockOK /\ DownInv /\ DiskInv
  BY TypeInit, LockInit, DownInit, DiskInit
<1>2. TypeOK /\ LockOK /\ DownInv /\ DiskInv /\ [Next]_vars
          => (TypeOK /\ LockOK /\ DownInv /\ DiskInv)'
  BY TypeStep, LockStep, DownStep, DiskStep
<1>3. LockOK /\ DiskInv => DiskAgrees
  BY ThreadsAssumption DEF LockOK, Critical, SaveSteps, DiskInv, DiskAgrees
<1>. QED
  BY <1>1, <1>2, <1>3, PTL DEF Spec

\* The parts of a session are all there or none; "listening" alone may be set
\* in a process that resumed it and has not begun a session yet.
Together ==
    session # 0 => (listening <=> capturing) /\ (listening <=> decodeWorker # 0)

\* What a thread finds of the session at each step: nothing while it starts
\* one, all of it when it begins to stop one.
ActiveInv ==
    /\ session = 0 => ~capturing /\ decodeWorker = 0
    /\ lock = NoOne => Together
    /\ \A t \in Threads :
           /\ pc[t] \in {"number", "path", "count", "log", "decode"} =>
                  ~listening /\ ~capturing /\ decodeWorker = 0
           /\ pc[t] = "capture" => ~listening /\ ~capturing /\ decodeWorker # 0
           /\ pc[t] \in SaveSteps => Together
           /\ pc[t] = "halt" => Together /\ listening
           /\ pc[t] \in {"event", "join"} => ~capturing

LEMMA ActiveInit == Init => ActiveInv
BY DEF Init, ActiveInv, SaveSteps, Together

LEMMA ActiveThreadStep ==
    ASSUME ~CaptureMayFail, TypeOK, LockOK, CountInv, ActiveInv,
           NEW t \in Threads, ThreadStep(t)
    PROVE  ActiveInv'
<1>. USE ThreadsAssumption
     DEF ActiveInv, Together, LockOK, Critical, StartSteps, StopSteps, SaveSteps,
         Goto, Leave, volatile, files
<1>1. pc \in [Threads -> ThreadSteps] /\ listening \in BOOLEAN /\ capturing \in BOOLEAN
      /\ decodeWorker \in Nat /\ session \in Nat
  BY DEF TypeOK
<1>2. CASE StartRefused(t) \/ StopRefused(t) \/ BeginStop(t) \/ HaltCapture(t)
           \/ SetStopEvent(t)
  BY <1>1, <1>2 DEF StartRefused, StopRefused, BeginStop, HaltCapture, SetStopEvent
<1>3. CASE BeginSession(t) \/ SetPath(t) \/ ResetCount(t) \/ OpenLog(t)
  BY <1>1, <1>3 DEF BeginSession, SetPath, ResetCount, OpenLog
<1>4. CASE NumberSession(t)
  BY <1>1, <1>4 DEF NumberSession
<1>5. CASE StartDecode(t)
  <2>1. session # 0 /\ decodeWorker' # 0
    BY <1>5, LenProperties DEF TypeOK, CountInv, StartDecode
  <2>. QED
    BY <1>1, <1>5, <2>1 DEF StartDecode
<1>6. CASE StartCapture(t)
  BY <1>1, <1>6 DEF StartCapture
<1>7. CASE JoinReturns(t) \/ JoinTimesOut(t)
  BY <1>1, <1>7 DEF JoinReturns, JoinTimesOut, EndSession
<1>8. CASE LoadRaises(t) \/ TruncateConfig(t) \/ Save(t)
  BY <1>1, <1>8 DEF LoadRaises, TruncateConfig, Save
<1>9. CASE OpenFails(t) \/ WriteFails(t)
  BY <1>1, <1>9 DEF OpenFails, WriteFails
<1>. QED
  BY <1>2, <1>3, <1>4, <1>5, <1>6, <1>7, <1>8, <1>9
  DEF ThreadStep, Starting, Stopping, Saving, CaptureFails

LEMMA ActiveStep ==
    ASSUME ~CaptureMayFail, TypeOK, LockOK, CountInv, DownInv, ActiveInv, [Next]_vars
    PROVE  ActiveInv'
<1>. USE DEF volatile, files
<1>1. ASSUME NEW c \in Clients, RequestStart(c) \/ RequestStop(c)
      PROVE  ActiveInv'
  BY <1>1 DEF TypeOK, ActiveInv, SaveSteps, Together, RequestStart, RequestStop, Goto
<1>2. ASSUME NEW t \in Threads, ThreadStep(t)
      PROVE  ActiveInv'
  BY <1>2, ActiveThreadStep
<1>3. ASSUME NEW w \in DOMAIN workers, WorkerMoves(w)
      PROVE  ActiveInv'
  <2>1. UNCHANGED <<pc, lock, listening, capturing, session, decodeWorker>>
    BY <1>3 DEF WorkerMoves, WorkerStep, Told, SeedWorker, CheckStop, Glob, Decode,
                OnSpot, OnSpotRaises, Advance
  <2>. QED
    BY <2>1 DEF ActiveInv, SaveSteps, Together
<1>4. CASE ChunkLands
  BY <1>4 DEF ActiveInv, SaveSteps, Together, ChunkLands
<1>5. CASE Crash
  BY <1>5 DEF ActiveInv, SaveSteps, Together, Crash
<1>6. CASE Boot
  BY <1>6 DEF TypeOK, DownInv, ActiveInv, SaveSteps, Together, Boot, Goto
<1>7. CASE Elsewhere
  BY <1>7 DEF ActiveInv, SaveSteps, Together, Elsewhere, BootFails, ClientStalls,
              ClientResumes, vars
<1>. QED
  BY <1>1, <1>2, <1>3, <1>4, <1>5, <1>6, <1>7 DEF Next, Elsewhere, WorkerMoves

\* If captures start, then whatever else fails, whenever nobody is inside
\* start_listening or stop_listening a session that listens has a capture and
\* a decode worker and one that does not has neither.
THEOREM SessionsAreWhole ==
    ASSUME ~CaptureMayFail
    PROVE  Spec => []ActiveSession
<1>1. Init => TypeOK /\ LockOK /\ CountInv /\ DownInv /\ ActiveInv
  BY TypeInit, LockInit, CountInit, DownInit, ActiveInit
<1>2. TypeOK /\ LockOK /\ CountInv /\ DownInv /\ ActiveInv /\ [Next]_vars
          => (TypeOK /\ LockOK /\ CountInv /\ DownInv /\ ActiveInv)'
  BY TypeStep, LockStep, CountStep, DownStep, ActiveStep
<1>3. ActiveInv => ActiveSession
  BY DEF ActiveInv, Together, ActiveSession
<1>. QED
  BY <1>1, <1>2, <1>3, PTL DEF Spec

-----------------------------------------------------------------------------
(* Which chunks the workers look at.                                       *)

\* The files a worker would pick up if it looked at the directory now.
NextOwn(last) == Candidates(Chunks, last)
Own(w) == NextOwn(workers[w].last)

\* A worker visits files it has not passed yet, the next one first; one that
\* has yet to look at the directory, at first or again, is the session's own.
Visits(r) ==
    /\ r.cand \subseteq NextOwn(r.last)
    /\ r.pc = "seed" => r.cand = {}
    /\ r.pc \in {"deliver", "tell"} => ComesFirst(r.wav, r.cand)
ChunkInv ==
    \A w \in DOMAIN workers :
        /\ Visits(workers[w])
        /\ workers[w].pc \in {"seed", "glob"} => w = decodeWorker

\* What a worker told to stop has in its list is all it will get; but one that
\* has just seen that it was not will look at the directory once more.
Looks(r) == r.pc \notin {"seed", "exit"} /\ (~r.stop \/ r.pc = "glob")

\* The files a worker may still get to.
Ahead(r) ==
    IF r.pc = "exit" THEN {}
    ELSE r.cand \cup (IF Looks(r) THEN NextOwn(r.last) ELSE {})

\* A worker that has not been told to stop has passed what is not of the
\* session.
SessionInv ==
    \A w \in DOMAIN workers :
        ~workers[w].stop /\ workers[w].pc # "seed" =>
            \A n \in Own(w) : captured[n] = session

\* What a worker's step makes of it: the same worker, further on.  It never
\* gets files it would not have got before.
Advances(r, q) ==
    /\ q \in Worker /\ q.stop = r.stop
    /\ r.pc # "exit" /\ q.pc # "seed"
    /\ r.pc \notin {"glob", "seed"} => q.cand \subseteq r.cand
    /\ r.pc = "check" => q.pc \in {"glob", "exit"}
    /\ r.pc # "seed" => NextOwn(q.last) \subseteq NextOwn(r.last)
    /\ r.pc = "seed" => NextOwn(q.last) = {}
    /\ q.pc = "glob" => ~r.stop
    /\ Visits(q)

LEMMA WorkerAdvances ==
    ASSUME TypeOK, ChunkInv, NEW w \in DOMAIN workers, WorkerMoves(w)
    PROVE  \E q : Becomes(w, q) /\ Advances(workers[w], q)
<1>. DEFINE r == workers[w]
<1>1. r \in Worker /\ Visits(r)
  BY LenProperties, ElementOfSeq DEF TypeOK, ChunkInv
<1>2. Chunks \subseteq Nat /\ Len(captured) \in Nat
  BY LenProperties DEF TypeOK, Chunks
<1>. USE DEF Visits, NextOwn, Candidates, Advances
<1>. HIDE DEF r
<1>3. CASE SeedWorker(w)
  <2>. DEFINE q == [r EXCEPT !.pc = "check", !.last = Seed(Chunks)]
  <2>1. Seed(Chunks) = Len(captured)
    BY <1>2, LastOfInterval DEF Seed, Chunks
  <2>2. /\ q \in Worker /\ q.pc = "check" /\ q.stop = r.stop
        /\ q.cand = {} /\ q.last = Len(captured)
    BY <1>1, <1>2, <1>3, <2>1 DEF SeedWorker, Steps, Worker, WorkerSteps, r
  <2>3. r.pc = "seed"
    BY <1>3 DEF SeedWorker, Steps, r
  <2>4. \A n \in Chunks : ~(n > Len(captured))
    BY <1>2 DEF Chunks
  <2>5. Becomes(w, q)
    BY <1>3 DEF SeedWorker, r
  <2>. HIDE DEF q
  <2>. QED
    BY <2>2, <2>3, <2>4, <2>5 DEF r
<1>4. CASE CheckStop(w)
  <2>. DEFINE q == [r EXCEPT !.pc = IF StopSeen(w) THEN "exit" ELSE "glob"]
  <2>1. /\ q \in Worker /\ q.pc \in {"exit", "glob"} /\ q.stop = r.stop
        /\ q.cand = r.cand /\ q.last = r.last
        /\ q.pc = "glob" => ~r.stop
    BY <1>1 DEF Worker, WorkerSteps, StopSeen, r
  <2>2. Becomes(w, q) /\ r.pc = "check"
    BY <1>4 DEF CheckStop, Steps, r
  <2>. HIDE DEF q
  <2>. QED
    BY <1>1, <2>1, <2>2 DEF r
<1>5. CASE Glob(w)
  <2>. DEFINE cand == Candidates(Chunks, r.last)
              q == [r EXCEPT !.cand = cand, !.pc = AfterVisit(cand)]
  <2>1. cand \subseteq Nat
    BY <1>2
  <2>2. /\ q \in Worker /\ q.pc \in {"check", "sweep"} /\ q.stop = r.stop
        /\ q.cand = cand /\ q.last = r.last
    BY <1>1, <2>1 DEF Worker, WorkerSteps, AfterVisit
  <2>3. Becomes(w, q) /\ r.pc = "glob"
    BY <1>5 DEF Glob, Steps, r
  <2>. HIDE DEF q
  <2>. QED
    BY <2>2, <2>3 DEF r
<1>6. CASE Decode(w)
  <2>1. PICK wav \in r.cand, spots \in 0..MaxSpots :
            /\ ComesFirst(wav, r.cand)
            /\ Becomes(w, [r EXCEPT !.pc = "deliver", !.wav = wav, !.left = spots])
    BY <1>6 DEF Decode, r
  <2>. DEFINE q == [r EXCEPT !.pc = "deliver", !.wav = wav, !.left = spots]
  <2>2. wav \in Nat /\ spots \in Nat
    BY <1>1, <2>1, BoundsAssumption DEF Worker
  <2>3. /\ q \in Worker /\ q.pc = "deliver" /\ q.stop = r.stop
        /\ q.cand = r.cand /\ q.last = r.last /\ q.wav = wav
    BY <1>1, <2>2 DEF Worker, WorkerSteps
  <2>4. Becomes(w, q) /\ r.pc = "sweep"
    BY <1>6, <2>1 DEF Decode, Steps, r
  <2>. HIDE DEF q
  <2>. QED
    BY <1>1, <2>1, <2>3, <2>4 DEF r
<1>7. CASE OnSpot(w)
  <2>. DEFINE q == [r EXCEPT !.left = @ - 1, !.pc = "tell"]
  <2>1. /\ q \in Worker /\ q.pc = "tell" /\ q.stop = r.stop
        /\ q.cand = r.cand /\ q.last = r.last /\ q.wav = r.wav
    <3>1. r.left - 1 \in Nat
      BY <1>1, <1>7 DEF OnSpot, Worker, r
    <3>. QED
      BY <1>1, <3>1 DEF Worker, WorkerSteps
  <2>2. Becomes(w, q) /\ r.pc = "deliver"
    BY <1>7 DEF OnSpot, Steps, r
  <2>. HIDE DEF q
  <2>. QED
    BY <1>1, <2>1, <2>2 DEF r
<1>8. CASE OnSpotRaises(w)
  <2>. DEFINE q == [r EXCEPT !.pc = "exit"]
  <2>1. /\ q \in Worker /\ q.pc = "exit" /\ q.stop = r.stop
        /\ q.cand = r.cand /\ q.last = r.last /\ q.wav = r.wav
    BY <1>1 DEF Worker, WorkerSteps
  <2>2. Becomes(w, q) /\ r.pc = "deliver"
    BY <1>8 DEF OnSpotRaises, Steps, r
  <2>. HIDE DEF q
  <2>. QED
    BY <1>1, <2>1, <2>2 DEF r
<1>9. CASE Advance(w)
  <2>. DEFINE cand == r.cand \ {r.wav}
              q == [r EXCEPT !.last = r.wav, !.cand = cand, !.pc = AfterVisit(cand)]
  <2>1. Becomes(w, q) /\ r.pc = "deliver"
    BY <1>9 DEF Advance, Steps, r
  <2>2. /\ q \in Worker /\ q.pc \in {"check", "sweep"} /\ q.stop = r.stop
        /\ q.cand = cand /\ q.last = r.wav
    BY <1>1 DEF Worker, WorkerSteps, AfterVisit
  <2>3. r.wav \in r.cand /\ r.wav > r.last /\ \A n \in cand : n > r.wav
    BY <1>1, <1>2, <2>1 DEF ComesFirst, Worker
  <2>4. r.last \in Nat /\ r.wav \in Nat
    BY <1>1 DEF Worker
  <2>5. \A n \in Chunks : n > r.wav => n > r.last
    BY <1>2, <2>3, <2>4
  <2>. HIDE DEF q
  <2>. QED
    BY <1>1, <2>1, <2>2, <2>3, <2>5 DEF r
<1>10. CASE Told(w)
  <2>. DEFINE q == [r EXCEPT !.pc = "deliver"]
  <2>1. /\ q \in Worker /\ q.pc = "deliver" /\ q.stop = r.stop
        /\ q.cand = r.cand /\ q.last = r.last /\ q.wav = r.wav
    BY <1>1 DEF Worker, WorkerSteps
  <2>2. Becomes(w, q) /\ r.pc = "tell"
    BY <1>10 DEF Told, Steps, r
  <2>. HIDE DEF q
  <2>. QED
    BY <1>1, <2>1, <2>2 DEF r
<1>. QED
  BY <1>3, <1>4, <1>5, <1>6, <1>7, <1>8, <1>9, <1>10 DEF WorkerMoves, WorkerStep

\* A worker's step leaves the session and the directory alone.
LEMMA WorkerStepFrame ==
    ASSUME NEW w \in DOMAIN workers, WorkerMoves(w)
    PROVE  UNCHANGED <<pc, lock, listening, seq, session, tsvPath, decodeWorker,
                       capturing, config, counter, captured>>
BY DEF WorkerMoves, WorkerStep, Told, SeedWorker, CheckStop, Glob, Decode, OnSpot,
       OnSpotRaises, Advance, volatile, files

\* What the worker makes of itself is what is there afterwards.
LEMMA OthersStay ==
    ASSUME TypeOK, ChunkInv, NEW w \in DOMAIN workers, WorkerMoves(w)
    PROVE  /\ DOMAIN workers' = DOMAIN workers
           /\ Advances(workers[w], workers'[w])
           /\ \A v \in DOMAIN workers : v # w => workers'[v] = workers[v]
<1>1. PICK q : Becomes(w, q) /\ Advances(workers[w], q)
  BY WorkerAdvances
<1>2. q \in Worker
  BY <1>1 DEF Advances
<1>3. workers \in Seq(Worker)
  BY DEF TypeOK
<1>4. /\ workers' \in Seq(Worker) /\ Len(workers') = Len(workers)
      /\ \A v \in DOMAIN workers : workers'[v] = IF v = w THEN q ELSE workers[v]
  BY <1>1, <1>2, <1>3, WorkerChanged
<1>. QED
  BY <1>1, <1>3, <1>4, LenProperties

\* Telling a worker to stop changes nothing else about it.
LEMMA StopEventSet ==
    ASSUME TypeOK, NEW t, SetStopEvent(t)
    PROVE  /\ DOMAIN workers' = DOMAIN workers
           /\ \A w \in DOMAIN workers :
                  /\ w # decodeWorker => workers'[w] = workers[w]
                  /\ w = decodeWorker =>
                         workers'[w] = [workers[w] EXCEPT !.stop = TRUE]
<1>1. CASE decodeWorker = 0
  <2>1. \A w \in DOMAIN workers : w # decodeWorker
    BY <1>1, LenProperties DEF TypeOK
  <2>. QED
    BY <1>1, <2>1 DEF SetStopEvent
<1>2. CASE decodeWorker # 0
  <2>1. decodeWorker \in DOMAIN workers /\ workers[decodeWorker] \in Worker
        /\ workers \in Seq(Worker)
    BY <1>2, LenProperties, ElementOfSeq DEF TypeOK
  <2>2. Becomes(decodeWorker, [workers[decodeWorker] EXCEPT !.stop = TRUE])
    BY <1>2, <2>1 DEF SetStopEvent, Becomes
  <2>3. /\ workers' \in Seq(Worker) /\ Len(workers') = Len(workers)
        /\ \A v \in DOMAIN workers :
               workers'[v] = IF v = decodeWorker
                             THEN [workers[decodeWorker] EXCEPT !.stop = TRUE]
                             ELSE workers[v]
    BY <2>1, <2>2, WorkerStopped, WorkerChanged
  <2>. QED
    BY <2>1, <2>3, LenProperties
<1>. QED
  BY <1>1, <1>2

\* start_listening adds a worker to those there are.
LEMMA WorkerAdded ==
    ASSUME TypeOK, NEW t, StartDecode(t)
    PROVE  /\ DOMAIN workers' = DOMAIN workers \cup {decodeWorker'}
           /\ decodeWorker' \notin DOMAIN workers /\ decodeWorker' # 0
           /\ workers'[decodeWorker'] = NewWorker
           /\ \A w \in DOMAIN workers : workers'[w] = workers[w]
<1>1. NewWorker \in Worker
  BY DEF NewWorker, Worker, WorkerSteps, Nothing
<1>2. /\ DOMAIN workers' = 1..(Len(workers) + 1)
      /\ \A w \in DOMAIN workers : workers'[w] = workers[w]
      /\ workers'[Len(workers) + 1] = NewWorker
      /\ DOMAIN workers = 1..Len(workers)
      /\ Len(workers) \in Nat
  BY <1>1, AppendProperties, LenProperties DEF TypeOK, StartDecode
<1>3. decodeWorker' = Len(workers) + 1
  BY DEF StartDecode
<1>. QED
  BY <1>2, <1>3

\* The other operations do nothing to the workers and the directory.
LEMMA ThreadStepFrame ==
    ASSUME NEW t \in Threads, ThreadStep(t)
    PROVE  /\ captured' = captured
           /\ workers' = workers \/ StartDecode(t) \/ SetStopEvent(t)
           /\ decodeWorker' = decodeWorker \/ StartDecode(t)
              \/ JoinReturns(t) \/ JoinTimesOut(t)
           /\ session' = session \/ NumberSession(t)
           /\ StartDecode(t) => session' = session
           /\ SetStopEvent(t) => session' = session /\ decodeWorker' = decodeWorker
           /\ NumberSession(t) => decodeWorker' = decodeWorker /\ workers' = workers
           /\ JoinReturns(t) \/ JoinTimesOut(t) =>
                  workers' = workers /\ session' = session /\ decodeWorker' = 0
<1>. USE DEF volatile, files
<1>1. /\ StartDecode(t) => session' = session
      /\ SetStopEvent(t) => session' = session /\ decodeWorker' = decodeWorker
      /\ NumberSession(t) => decodeWorker' = decodeWorker /\ workers' = workers
      /\ JoinReturns(t) \/ JoinTimesOut(t) =>
             workers' = workers /\ session' = session /\ decodeWorker' = 0
  BY DEF StartDecode, SetStopEvent, NumberSession, SetPath, JoinReturns,
         JoinTimesOut, EndSession
<1>2. CASE StartRefused(t) \/ BeginSession(t) \/ SetPath(t) \/ ResetCount(t)
           \/ OpenLog(t) \/ StartCapture(t) \/ CaptureFails(t) \/ StopRefused(t)
           \/ BeginStop(t) \/ HaltCapture(t) \/ Saving(t)
  <2>1. UNCHANGED <<captured, workers, decodeWorker, session>>
    BY <1>2 DEF StartRefused, BeginSession, SetPath, ResetCount, OpenLog, StartCapture,
                CaptureFails, StopRefused, BeginStop, HaltCapture, Saving, LoadRaises,
                TruncateConfig, Save, OpenFails, WriteFails
  <2>. QED
    BY <1>1, <2>1
<1>3. CASE NumberSession(t) \/ StartDecode(t) \/ SetStopEvent(t)
           \/ JoinReturns(t) \/ JoinTimesOut(t)
  <2>1. captured' = captured
    BY <1>3 DEF NumberSession, SetPath, StartDecode, SetStopEvent, JoinReturns,
                JoinTimesOut, EndSession
  <2>. QED
    BY <1>1, <1>3, <2>1
<1>. QED
  BY <1>2, <1>3 DEF ThreadStep, Starting, Stopping

\* A file that lands is one that nobody has passed.
LEMMA ChunkAdded ==
    ASSUME TypeOK, ChunkLands
    PROVE  /\ Chunks' = Chunks \cup {Len(captured) + 1}
           /\ Len(captured) + 1 \notin Chunks
           /\ captured'[Len(captured) + 1] = session
           /\ \A n \in Chunks : captured'[n] = captured[n]
<1>1. /\ Len(captured') = Len(captured) + 1
      /\ captured'[Len(captured) + 1] = session
      /\ \A n \in 1..Len(captured) : captured'[n] = captured[n]
      /\ Len(captured) \in Nat
  BY AppendProperties, LenProperties DEF TypeOK, ChunkLands
<1>. QED
  BY <1>1 DEF Chunks

LEMMA ChunkInit == Init => ChunkInv /\ SessionInv
BY EmptySeq DEF Init, ChunkInv, SessionInv

LEMMA ChunkThreadStep ==
    ASSUME TypeOK, LockOK, WorkerInv, ChunkInv, SessionInv, NEW t \in Threads, ThreadStep(t)
    PROVE  ChunkInv' /\ SessionInv'
<1>. USE DEF Visits, Own, NextOwn, Candidates, Chunks
<1>1. captured' = captured
  BY ThreadStepFrame
<1>2. CASE StartDecode(t)
  <2>1. decodeWorker = 0 /\ session' = session
    BY <1>2, ThreadStepFrame DEF WorkerInv, StartDecode
  <2>2. \A w \in DOMAIN workers : workers[w].pc \notin {"seed", "glob"}
    BY <2>1, LenProperties DEF TypeOK, ChunkInv
  <2>3. /\ DOMAIN workers' = DOMAIN workers \cup {decodeWorker'}
        /\ workers'[decodeWorker'] = NewWorker
        /\ \A w \in DOMAIN workers : workers'[w] = workers[w]
    BY <1>2, WorkerAdded
  <2>4. NewWorker.pc = "seed" /\ NewWorker.cand = {}
    BY DEF NewWorker
  <2>. QED
    BY <1>1, <2>1, <2>2, <2>3, <2>4 DEF ChunkInv, SessionInv
<1>3. CASE SetStopEvent(t)
  <2>1. session' = session /\ decodeWorker' = decodeWorker
    BY <1>3, ThreadStepFrame
  <2>2. \A w \in DOMAIN workers : workers[w] \in Worker
    BY LenProperties, ElementOfSeq DEF TypeOK
  <2>3. /\ DOMAIN workers' = DOMAIN workers
        /\ \A w \in DOMAIN workers :
               /\ workers'[w].stop \/ workers'[w] = workers[w]
               /\ workers'[w].pc = workers[w].pc /\ workers'[w].cand = workers[w].cand
               /\ workers'[w].last = workers[w].last /\ workers'[w].wav = workers[w].wav
    BY <1>3, <2>2, StopEventSet DEF Worker
  <2>. QED
    BY <1>1, <2>1, <2>3 DEF ChunkInv, SessionInv
<1>4. CASE NumberSession(t)
  <2>1. decodeWorker = 0
    BY <1>4 DEF WorkerInv, NumberSession
  <2>2. \A w \in DOMAIN workers : workers[w].stop
    BY <2>1, LenProperties DEF TypeOK, WorkerInv, OneUnstoppedWorker
  <2>3. workers' = workers /\ decodeWorker' = decodeWorker
    BY <1>4, ThreadStepFrame
  <2>. QED
    BY <1>1, <2>2, <2>3 DEF ChunkInv, SessionInv
<1>5. CASE JoinReturns(t) \/ JoinTimesOut(t)
  <2>1. workers' = workers /\ session' = session /\ decodeWorker' = 0
    BY <1>5, ThreadStepFrame
  <2>2. decodeWorker # 0 => workers[decodeWorker].pc \in {"exit", "sweep", "deliver", "tell"}
    BY <1>5 DEF JoinReturns, JoinTimesOut, MayTimeOut
  <2>3. \A w \in DOMAIN workers : workers[w].pc \notin {"seed", "glob"}
    BY <2>2, LenProperties DEF TypeOK, ChunkInv
  <2>. QED
    BY <1>1, <2>1, <2>3 DEF ChunkInv, SessionInv
<1>6. CASE UNCHANGED <<workers, decodeWorker, session>>
  BY <1>1, <1>6 DEF ChunkInv, SessionInv
<1>. QED
  BY <1>2, <1>3, <1>4, <1>5, <1>6, ThreadStepFrame

LEMMA ChunkStep ==
    ASSUME TypeOK, LockOK, WorkerInv, ChunkInv, SessionInv, [Next]_vars
    PROVE  ChunkInv' /\ SessionInv'
<1>. USE DEF Visits, Own, NextOwn, Candidates
<1>1. ASSUME NEW t \in Threads, ThreadStep(t)
      PROVE  ChunkInv' /\ SessionInv'
  BY <1>1, ChunkThreadStep
<1>2. ASSUME NEW w \in DOMAIN workers, WorkerMoves(w)
      PROVE  ChunkInv' /\ SessionInv'
  <2>1. /\ DOMAIN workers' = DOMAIN workers
        /\ Advances(workers[w], workers'[w])
        /\ \A v \in DOMAIN workers : v # w => workers'[v] = workers[v]
    BY <1>2, OthersStay
  <2>2. UNCHANGED <<session, decodeWorker, captured>> /\ Chunks' = Chunks
    BY <1>2, WorkerStepFrame DEF Chunks
  <2>3. ~workers[w].stop => w = decodeWorker
    BY DEF WorkerInv, OneUnstoppedWorker
  <2>4. ChunkInv'
    BY <2>1, <2>2, <2>3 DEF ChunkInv, Advances
  <2>5. SessionInv'
    BY <2>1, <2>2 DEF SessionInv, Advances
  <2>. QED
    BY <2>4, <2>5
<1>3. CASE ChunkLands
  <2>1. /\ Chunks' = Chunks \cup {Len(captured) + 1}
        /\ captured'[Len(captured) + 1] = session
        /\ \A n \in Chunks : captured'[n] = captured[n]
    BY <1>3, ChunkAdded
  <2>2. UNCHANGED <<workers, decodeWorker, session>>
    BY <1>3 DEF ChunkLands, volatile
  <2>. QED
    BY <2>1, <2>2 DEF ChunkInv, SessionInv
<1>4. CASE Crash
  BY <1>4, EmptySeq DEF Crash, ChunkInv, SessionInv
<1>5. CASE UNCHANGED <<workers, decodeWorker, session, captured>>
  BY <1>5 DEF ChunkInv, SessionInv, Chunks
<1>. QED
  BY <1>1, <1>2, <1>3, <1>4, <1>5
  DEF Next, Elsewhere, WorkerMoves, RequestStart, RequestStop, Boot, Elsewhere,
      BootFails, ClientStalls, ClientResumes, vars, volatile, files

LEMMA ChunkInvariant ==
    ASSUME ~CaptureMayFail
    PROVE  Spec => [](TypeOK /\ LockOK /\ WorkerInv /\ ChunkInv /\ SessionInv)
<1>1. Init => TypeOK /\ LockOK /\ WorkerInv /\ ChunkInv /\ SessionInv
  BY TypeInit, LockInit, WorkerInit, ChunkInit
<1>2. TypeOK /\ LockOK /\ WorkerInv /\ ChunkInv /\ SessionInv /\ [Next]_vars
          => (TypeOK /\ LockOK /\ WorkerInv /\ ChunkInv /\ SessionInv)'
  BY TypeStep, LockStep, WorkerInvStep, ChunkStep
<1>. QED
  BY <1>1, <1>2, PTL DEF Spec

\* If captures start, the session's worker decodes nothing that an earlier
\* session, or an earlier process, has left in the directory.
THEOREM OwnChunksOnly ==
    ASSUME ~CaptureMayFail
    PROVE  Spec => []OnlyThisSessionsChunks
<1>1. ChunkInv /\ SessionInv => OnlyThisSessionsChunks
  BY DEF ChunkInv, SessionInv, Visits, Own, OnlyThisSessionsChunks
<1>. QED
  BY <1>1, ChunkInvariant, PTL

-----------------------------------------------------------------------------
(* What is written to the logs.                                            *)

\* The k-th spot of chunk n is in a log.
Written(n, k) == \E s \in DOMAIN logs : \E i \in 1..Len(logs[s]) : logs[s][i] = <<n, k>>

\* Every row is of a chunk there is; of the chunks a worker may still get to,
\* only the one in its hands has rows, the spots it has delivered; and no two
\* workers get to the same chunk.
OnceInv ==
    /\ \A n, k \in Nat : Written(n, k) => n \in Chunks
    /\ \A w \in DOMAIN workers : \A n, k \in Nat :
           Written(n, k) /\ n \in Ahead(workers[w]) =>
               /\ workers[w].pc \in {"deliver", "tell"}
               /\ n = workers[w].wav /\ k > workers[w].left
    /\ \A v, w \in DOMAIN workers :
           v # w => Ahead(workers[v]) \cap Ahead(workers[w]) = {}
    /\ EachSpotLoggedOnce

LEMMA OnceInit == Init => OnceInv
BY EmptySeq DEF Init, OnceInv, Written, EachSpotLoggedOnce

\* Only the worker stop_listening would stop looks at the directory again.
LEMMA OneLooks ==
    ASSUME TypeOK, WorkerInv, ChunkInv, NEW w \in DOMAIN workers, Looks(workers[w])
    PROVE  w = decodeWorker
BY DEF WorkerInv, OneUnstoppedWorker, ChunkInv, Looks

\* A worker that goes on has no more ahead of it than before.
LEMMA AheadShrinks ==
    ASSUME NEW r, NEW q, Visits(r), Advances(r, q)
    PROVE  Ahead(q) \subseteq Ahead(r)
<1>1. q.cand \subseteq NextOwn(q.last) /\ r.pc # "exit" /\ q.stop = r.stop
  BY DEF Advances, Visits
<1>2. CASE Looks(r)
  <2>1. NextOwn(q.last) \subseteq NextOwn(r.last)
    BY <1>2 DEF Advances, Looks
  <2>. QED
    BY <1>1, <1>2, <2>1 DEF Ahead
<1>3. CASE r.pc = "seed"
  BY <1>1, <1>3 DEF Advances, Ahead
<1>4. CASE ~Looks(r) /\ r.pc # "seed"
  <2>1. r.stop /\ r.pc # "glob"
    BY <1>1, <1>4 DEF Looks
  <2>2. q.cand \subseteq r.cand /\ ~Looks(q)
    BY <1>1, <1>4, <2>1 DEF Advances, Looks
  <2>. QED
    BY <1>1, <2>2 DEF Ahead
<1>. QED
  BY <1>2, <1>3, <1>4

\* When a worker is done with a chunk, that is not ahead of it any more.
LEMMA ChunkDone ==
    ASSUME TypeOK, ChunkInv, NEW w \in DOMAIN workers, WorkerMoves(w), ~OnSpot(w),
           workers[w].pc = "deliver"
    PROVE  workers[w].wav \notin Ahead(workers'[w])
<1>. DEFINE r == workers[w]
<1>1. r \in Worker /\ workers \in Seq(Worker)
  BY LenProperties, ElementOfSeq DEF TypeOK
<1>2. OnSpotRaises(w) \/ Advance(w)
  BY DEF WorkerMoves, WorkerStep, Told, SeedWorker, CheckStop, Glob, Decode, Steps
<1>3. CASE OnSpotRaises(w)
  <2>. DEFINE q == [r EXCEPT !.pc = "exit"]
  <2>1. q \in Worker /\ q.pc = "exit"
    BY <1>1 DEF Worker, WorkerSteps
  <2>2. Becomes(w, q)
    BY <1>3 DEF OnSpotRaises
  <2>. HIDE DEF q
  <2>3. workers'[w] = q
    BY <1>1, <2>1, <2>2, WorkerChanged
  <2>. QED
    BY <2>1, <2>3 DEF Ahead
<1>4. CASE Advance(w)
  <2>. DEFINE cand == r.cand \ {r.wav}
              q == [r EXCEPT !.last = r.wav, !.cand = cand, !.pc = AfterVisit(cand)]
  <2>1. q \in Worker /\ q.last = r.wav /\ q.cand = cand
    BY <1>1 DEF Worker, WorkerSteps, AfterVisit
  <2>2. Becomes(w, q)
    BY <1>4 DEF Advance
  <2>3. r.wav \in Nat
    BY <1>1 DEF Worker
  <2>. HIDE DEF q
  <2>4. workers'[w] = q
    BY <1>1, <2>1, <2>2, WorkerChanged
  <2>5. r.wav \notin NextOwn(q.last)
    BY <2>1, <2>3 DEF NextOwn, Candidates
  <2>. QED
    BY <2>1, <2>4, <2>5 DEF Ahead
<1>. QED
  BY <1>2, <1>3, <1>4

\* A worker that has sent a spot goes on with the chunk in its hands.
LEMMA ToldKeeps ==
    ASSUME TypeOK, NEW w \in DOMAIN workers, WorkerMoves(w), workers[w].pc = "tell"
    PROVE  /\ workers'[w].pc = "deliver" /\ workers'[w].wav = workers[w].wav
           /\ workers'[w].left = workers[w].left
<1>. DEFINE r == workers[w]  q == [r EXCEPT !.pc = "deliver"]
<1>1. r \in Worker /\ workers \in Seq(Worker)
  BY LenProperties, ElementOfSeq DEF TypeOK
<1>2. q \in Worker /\ q.pc = "deliver" /\ q.wav = r.wav /\ q.left = r.left
  BY <1>1 DEF Worker, WorkerSteps
<1>3. Becomes(w, q)
  BY DEF WorkerMoves, WorkerStep, SeedWorker, CheckStop, Glob, Decode, OnSpot,
         OnSpotRaises, Advance, Told, Steps
<1>. HIDE DEF q
<1>. QED
  BY <1>1, <1>2, <1>3, WorkerChanged

\* Logs of which every row was there before hold no row they did not hold.
RowsRemain ==
    \A s \in DOMAIN logs' : \A i \in 1..Len(logs'[s]) :
        s \in DOMAIN logs /\ i \in 1..Len(logs[s]) /\ logs'[s][i] = logs[s][i]

LEMMA NothingWritten ==
    ASSUME RowsRemain
    PROVE  /\ \A n, k : Written(n, k)' => Written(n, k)
           /\ EachSpotLoggedOnce => EachSpotLoggedOnce'
<1>1. \A n, k : Written(n, k)' => Written(n, k)
  BY DEF RowsRemain, Written
<1>2. EachSpotLoggedOnce => EachSpotLoggedOnce'
  BY DEF RowsRemain, EachSpotLoggedOnce
<1>. QED
  BY <1>1, <1>2

\* No operation of the clients' threads writes a row.
LEMMA ThreadsWriteNothing ==
    ASSUME TypeOK, NEW t \in Threads, ThreadStep(t)
    PROVE  RowsRemain
<1>. USE DEF volatile, files
<1>1. CASE logs' = logs
  BY <1>1 DEF RowsRemain
<1>2. CASE logs' = WithRows(<<>>)
  <2>1. /\ DOMAIN logs' = DOMAIN logs \cup {tsvPath}
        /\ Len(logs'[tsvPath]) = 0
        /\ \A s \in DOMAIN logs : s # tsvPath => logs'[s] = logs[s]
    BY <1>2, EmptySeq, LogsWithRows
  <2>. QED
    BY <2>1 DEF RowsRemain
<1>3. logs' = logs \/ logs' = WithRows(<<>>)
  <2>1. Starting(t) => logs' = logs \/ logs' = WithRows(<<>>)
    BY DEF Starting, StartRefused, BeginSession, NumberSession, SetPath, ResetCount,
           OpenLog, StartDecode, StartCapture, CaptureFails
  <2>2. Stopping(t) => logs' = logs
    BY DEF Stopping, StopRefused, BeginStop, HaltCapture, SetStopEvent, JoinReturns,
           JoinTimesOut, EndSession
  <2>3. Saving(t) => logs' = logs \/ logs' = WithRows(<<>>)
    BY DEF Saving, LoadRaises, TruncateConfig, Save, OpenFails, WriteFails
  <2>. QED
    BY <2>1, <2>2, <2>3 DEF ThreadStep
<1>. QED
  BY <1>1, <1>2, <1>3

\* What a thread's operation does to a worker leaves it no more to get to.
LEMMA OnceThreadStep ==
    ASSUME TypeOK, ChunkInv, OnceInv, NEW t \in Threads, ThreadStep(t)
    PROVE  OnceInv'
<1>1. /\ \A n, k : Written(n, k)' => Written(n, k)
      /\ EachSpotLoggedOnce'
  BY ThreadsWriteNothing, NothingWritten DEF OnceInv
<1>2. captured' = captured /\ Chunks' = Chunks
  BY ThreadStepFrame DEF Chunks
<1>3. \A r : Ahead(r)' = Ahead(r)
  BY <1>2 DEF Ahead, Looks, NextOwn
<1>4. CASE workers' = workers
  BY <1>1, <1>2, <1>4 DEF OnceInv, Ahead, Looks, NextOwn
<1>5. CASE StartDecode(t)
  <2>1. /\ DOMAIN workers' = DOMAIN workers \cup {decodeWorker'}
        /\ workers'[decodeWorker'] = NewWorker
        /\ \A w \in DOMAIN workers : workers'[w] = workers[w]
    BY <1>5, WorkerAdded
  <2>2. Ahead(NewWorker) = {}
    BY DEF NewWorker, Ahead, Looks
  <2>3. \A w \in DOMAIN workers' :
            \/ w \in DOMAIN workers /\ workers'[w] = workers[w]
            \/ Ahead(workers'[w]) = {}
    BY <2>1, <2>2
  <2>4. \A n, k \in Nat : Written(n, k)' => n \in Chunks'
    BY <1>1, <1>2 DEF OnceInv
  <2>5. ASSUME NEW w \in DOMAIN workers', NEW n \in Nat, NEW k \in Nat,
               Written(n, k)', n \in Ahead(workers'[w])
        PROVE  /\ workers'[w].pc \in {"deliver", "tell"}
               /\ n = workers'[w].wav /\ k > workers'[w].left
    BY <1>1, <2>3, <2>5 DEF OnceInv
  <2>6. ASSUME NEW v \in DOMAIN workers', NEW w \in DOMAIN workers', v # w
        PROVE  Ahead(workers'[v]) \cap Ahead(workers'[w]) = {}
    BY <2>3, <2>6 DEF OnceInv
  <2>7. \A w \in DOMAIN workers' : Ahead(workers[w])' = Ahead(workers'[w])
    BY <1>2 DEF Ahead, Looks, NextOwn
  <2>. QED
    BY <1>1, <2>4, <2>5, <2>6, <2>7 DEF OnceInv
<1>6. CASE SetStopEvent(t)
  <2>1. \A w \in DOMAIN workers : workers[w] \in Worker
    BY LenProperties, ElementOfSeq DEF TypeOK
  <2>2. /\ DOMAIN workers' = DOMAIN workers
        /\ \A w \in DOMAIN workers :
               /\ workers'[w].stop \/ workers'[w] = workers[w]
               /\ workers'[w].pc = workers[w].pc /\ workers'[w].cand = workers[w].cand
               /\ workers'[w].last = workers[w].last /\ workers'[w].wav = workers[w].wav
               /\ workers'[w].left = workers[w].left
    BY <1>6, <2>1, StopEventSet DEF Worker
  <2>3. \A w \in DOMAIN workers : Ahead(workers'[w]) \subseteq Ahead(workers[w])
    BY <2>2 DEF Ahead, Looks
  <2>. QED
    BY <1>1, <1>2, <2>2, <2>3 DEF OnceInv, Ahead, Looks, NextOwn
<1>. QED
  BY <1>4, <1>5, <1>6, ThreadStepFrame

\* _on_spot writes the row of the spot, after those the log had.
LEMMA RowWritten ==
    ASSUME TypeOK, NEW w \in DOMAIN workers, OnSpot(w)
    PROVE  \A s \in DOMAIN logs' : \A i \in 1..Len(logs'[s]) :
               \/ /\ s = tsvPath /\ i = Len(Rows(tsvPath)) + 1
                  /\ logs'[s][i] = Row(w)
               \/ /\ s \in DOMAIN logs /\ i \in 1..Len(logs[s])
                  /\ logs'[s][i] = logs[s][i]
<1>1. Row(w) \in Nat \X Nat
  <2>1. workers[w] \in Worker
    BY LenProperties, ElementOfSeq DEF TypeOK
  <2>. QED
    BY <2>1 DEF Row, Worker
<1>2. Rows(tsvPath) \in Seq(Nat \X Nat) /\ Len(Rows(tsvPath)) \in Nat
  BY RowsType DEF TypeOK
<1>3. /\ Append(Rows(tsvPath), Row(w)) \in Seq(Nat \X Nat)
      /\ Len(Append(Rows(tsvPath), Row(w))) = Len(Rows(tsvPath)) + 1
      /\ \A i \in 1..Len(Rows(tsvPath)) :
             Append(Rows(tsvPath), Row(w))[i] = Rows(tsvPath)[i]
      /\ Append(Rows(tsvPath), Row(w))[Len(Rows(tsvPath)) + 1] = Row(w)
  BY <1>1, <1>2, AppendProperties
<1>4. /\ DOMAIN logs' = DOMAIN logs \cup {tsvPath}
      /\ logs'[tsvPath] = Append(Rows(tsvPath), Row(w))
      /\ \A s \in DOMAIN logs : s # tsvPath => logs'[s] = logs[s]
  BY <1>3, LogsWithRows DEF OnSpot
<1>5. tsvPath \notin DOMAIN logs => Len(Rows(tsvPath)) = 0
  BY EmptySeq DEF Rows
<1>6. tsvPath \in DOMAIN logs => Rows(tsvPath) = logs[tsvPath]
  BY DEF Rows
<1>7. ASSUME NEW i \in 1..Len(logs'[tsvPath]), i # Len(Rows(tsvPath)) + 1
      PROVE  tsvPath \in DOMAIN logs /\ i \in 1..Len(logs[tsvPath])
             /\ logs'[tsvPath][i] = logs[tsvPath][i]
  <2>1. i \in 1..Len(Rows(tsvPath))
    BY <1>2, <1>3, <1>4, <1>7
  <2>2. tsvPath \in DOMAIN logs
    BY <1>5, <2>1
  <2>. QED
    BY <1>3, <1>4, <1>6, <2>1, <2>2
<1>. QED
  BY <1>3, <1>4, <1>7

\* The row was in no log before, and nobody else will write it.
LEMMA OnceOnSpot ==
    ASSUME TypeOK, ChunkInv, OnceInv, NEW w \in DOMAIN workers, OnSpot(w)
    PROVE  OnceInv'
<1>. DEFINE r == workers[w]  wav == r.wav  left == r.left
<1>1. r \in Worker /\ workers \in Seq(Worker) /\ wav \in Nat /\ left \in Nat
  <2>1. r \in Worker /\ workers \in Seq(Worker)
    BY LenProperties, ElementOfSeq DEF TypeOK
  <2>. QED
    BY <2>1 DEF Worker
<1>2. r.pc = "deliver" /\ Row(w) = <<wav, left>> /\ captured' = captured
      /\ Chunks' = Chunks
  BY WorkerStepFrame DEF OnSpot, Steps, Row, Chunks
<1>3. wav \in r.cand /\ wav \in Ahead(r) /\ wav \in Chunks
  BY <1>2 DEF ChunkInv, Visits, ComesFirst, NextOwn, Candidates, Ahead
<1>4. \A k \in Nat : Written(wav, k) => k > left
  BY <1>1, <1>3 DEF OnceInv
<1>5. /\ DOMAIN workers' = DOMAIN workers
      /\ \A v \in DOMAIN workers : v # w => workers'[v] = workers[v]
      /\ workers'[w] = [r EXCEPT !.left = @ - 1, !.pc = "tell"]
  <2>. DEFINE q == [r EXCEPT !.left = @ - 1, !.pc = "tell"]
  <2>1. q \in Worker
    <3>1. left - 1 \in Nat
      BY <1>1 DEF OnSpot
    <3>. QED
      BY <1>1, <3>1 DEF Worker, WorkerSteps
  <2>2. Becomes(w, q)
    BY DEF OnSpot
  <2>. HIDE DEF q
  <2>3. /\ workers' \in Seq(Worker) /\ Len(workers') = Len(workers)
        /\ \A v \in DOMAIN workers : workers'[v] = IF v = w THEN q ELSE workers[v]
    BY <1>1, <2>1, <2>2, WorkerChanged
  <2>. QED
    BY <1>1, <2>3, LenProperties DEF q
<1>6. /\ workers'[w].pc = "tell" /\ workers'[w].wav = wav
      /\ workers'[w].left = left - 1 /\ workers'[w].cand = r.cand
      /\ workers'[w].last = r.last /\ workers'[w].stop = r.stop
  BY <1>1, <1>2, <1>5 DEF Worker
<1>7. \A v \in DOMAIN workers : Ahead(workers[v])' = Ahead(workers[v])
  BY <1>2, <1>5, <1>6 DEF Ahead, Looks, NextOwn
<1>8. \A s \in DOMAIN logs' : \A i \in 1..Len(logs'[s]) :
          \/ s = tsvPath /\ i = Len(Rows(tsvPath)) + 1 /\ logs'[s][i] = <<wav, left>>
          \/ s \in DOMAIN logs /\ i \in 1..Len(logs[s]) /\ logs'[s][i] = logs[s][i]
  BY <1>2, RowWritten
<1>9. \A n, k : Written(n, k)' => Written(n, k) \/ (n = wav /\ k = left)
  BY <1>8 DEF Written
<1>10. ~Written(wav, left)
  BY <1>1, <1>4
<1>. HIDE DEF r, wav, left
<1>11. EachSpotLoggedOnce'
  <2>1. SUFFICES ASSUME NEW s1 \in DOMAIN logs', NEW s2 \in DOMAIN logs',
                        NEW i \in 1..Len(logs'[s1]), NEW j \in 1..Len(logs'[s2]),
                        logs'[s1][i] = logs'[s2][j]
                 PROVE  s1 = s2 /\ i = j
    BY DEF EachSpotLoggedOnce
  <2>2. \A s \in DOMAIN logs : \A m \in 1..Len(logs[s]) : logs[s][m] # <<wav, left>>
    BY <1>10 DEF Written
  <2>3. CASE logs'[s1][i] = <<wav, left>>
    <3>1. ASSUME NEW s \in DOMAIN logs', NEW m \in 1..Len(logs'[s]),
                 logs'[s][m] = <<wav, left>>
          PROVE  s = tsvPath /\ m = Len(Rows(tsvPath)) + 1
      BY <1>8, <2>2, <3>1
    <3>2. s1 = tsvPath /\ i = Len(Rows(tsvPath)) + 1
      BY <2>3, <3>1
    <3>3. s2 = tsvPath /\ j = Len(Rows(tsvPath)) + 1
      BY <2>1, <2>3, <3>1
    <3>. QED
      BY <3>2, <3>3
  <2>4. CASE logs'[s1][i] # <<wav, left>>
    <3>1. /\ s1 \in DOMAIN logs /\ i \in 1..Len(logs[s1]) /\ logs'[s1][i] = logs[s1][i]
          /\ s2 \in DOMAIN logs /\ j \in 1..Len(logs[s2]) /\ logs'[s2][j] = logs[s2][j]
      BY <1>8, <2>1, <2>4
    <3>2. logs[s1][i] = logs[s2][j]
      BY <2>1, <3>1
    <3>3. EachSpotLoggedOnce
      BY DEF OnceInv
    <3>. QED
      BY <3>1, <3>2, <3>3, Zenon DEF EachSpotLoggedOnce
  <2>. QED
    BY <2>3, <2>4
<1>12. \A n, k \in Nat : Written(n, k)' => n \in Chunks'
  BY <1>2, <1>3, <1>9 DEF OnceInv
<1>13. ASSUME NEW v \in DOMAIN workers, NEW n \in Nat, NEW k \in Nat,
              Written(n, k)', n \in Ahead(workers[v])
       PROVE  /\ workers'[v].pc \in {"deliver", "tell"}
              /\ n = workers'[v].wav /\ k > workers'[v].left
  <2>1. CASE v = w
    <3>1. n = wav /\ (k > left \/ k = left)
      BY <1>9, <1>13, <2>1 DEF OnceInv, r, wav, left
    <3>. QED
      BY <1>1, <1>6, <2>1, <3>1
  <2>2. CASE v # w
    <3>1. n # wav
      BY <1>3, <1>13, <2>2 DEF OnceInv, r
    <3>. QED
      BY <1>5, <1>9, <1>13, <2>2, <3>1 DEF OnceInv
  <2>. QED
    BY <2>1, <2>2
<1>14. \A u, v \in DOMAIN workers :
           u # v => Ahead(workers[u])' \cap Ahead(workers[v])' = {}
  BY <1>7 DEF OnceInv
<1>. QED
  BY <1>5, <1>7, <1>11, <1>12, <1>13, <1>14 DEF OnceInv

LEMMA OnceStep ==
    ASSUME TypeOK, WorkerInv, ChunkInv, OnceInv, [Next]_vars
    PROVE  OnceInv'
<1>1. ASSUME NEW t \in Threads, ThreadStep(t)
      PROVE  OnceInv'
  BY <1>1, OnceThreadStep
<1>2. ASSUME NEW w \in DOMAIN workers, WorkerMoves(w), ~OnSpot(w)
      PROVE  OnceInv'
  <2>1. /\ DOMAIN workers' = DOMAIN workers
        /\ Advances(workers[w], workers'[w])
        /\ \A v \in DOMAIN workers : v # w => workers'[v] = workers[v]
    BY <1>2, OthersStay
  <2>2. Chunks' = Chunks
    BY <1>2, WorkerStepFrame DEF Chunks
  <2>3. logs' = logs
    BY <1>2 DEF WorkerMoves, WorkerStep, Told, SeedWorker, CheckStop, Glob, Decode,
                OnSpotRaises, Advance, files
  <2>4. \A v \in DOMAIN workers : Ahead(workers[v])' = Ahead(workers'[v])
    BY <2>2 DEF Ahead, Looks, NextOwn
  <2>5. \A v \in DOMAIN workers : Ahead(workers'[v]) \subseteq Ahead(workers[v])
    BY <2>1, AheadShrinks DEF ChunkInv
  <2>6. \/ workers[w].pc = "deliver" /\ workers[w].wav \notin Ahead(workers'[w])
        \/ workers[w].pc \notin {"deliver", "tell"}
        \/ /\ workers'[w].pc = "deliver" /\ workers'[w].wav = workers[w].wav
           /\ workers'[w].left = workers[w].left
    BY <1>2, ChunkDone, ToldKeeps
  <2>7. \A n, k : Written(n, k)' = Written(n, k)
    BY <2>3 DEF Written
  <2>8. EachSpotLoggedOnce'
    BY <2>3 DEF OnceInv, EachSpotLoggedOnce
  <2>9. ASSUME NEW v \in DOMAIN workers, NEW n \in Nat, NEW k \in Nat,
               Written(n, k), n \in Ahead(workers'[v])
        PROVE  /\ workers'[v].pc \in {"deliver", "tell"}
               /\ n = workers'[v].wav /\ k > workers'[v].left
    <3>1. /\ workers[v].pc \in {"deliver", "tell"}
          /\ n = workers[v].wav /\ k > workers[v].left
      BY <2>5, <2>9 DEF OnceInv
    <3>. QED
      BY <2>1, <2>6, <2>9, <3>1
  <2>. QED
    BY <2>1, <2>2, <2>4, <2>5, <2>7, <2>8, <2>9 DEF OnceInv
<1>3. ASSUME NEW w \in DOMAIN workers, OnSpot(w)
      PROVE  OnceInv'
  BY <1>3, OnceOnSpot
<1>4. CASE ChunkLands
  <2>. DEFINE new == Len(captured) + 1
  <2>1. Chunks' = Chunks \cup {new} /\ new \notin Chunks
    BY <1>4, ChunkAdded
  <2>2. UNCHANGED <<workers, logs>>
    BY <1>4 DEF ChunkLands
  <2>3. \A w \in DOMAIN workers : Ahead(workers[w]) \subseteq Chunks
    BY DEF ChunkInv, Visits, NextOwn, Candidates, Ahead
  <2>. HIDE DEF new
  <2>4. \A w \in DOMAIN workers :
            /\ Ahead(workers[w])' \subseteq Ahead(workers[w]) \cup {new}
            /\ ~Looks(workers[w]) => Ahead(workers[w])' = Ahead(workers[w])
    BY <2>1, <2>2 DEF Ahead, Looks, NextOwn, Candidates
  <2>5. \A n, k : Written(n, k)' = Written(n, k)
    BY <2>2 DEF Written
  <2>6. \A n, k \in Nat : Written(n, k) => n # new
    BY <2>1 DEF OnceInv
  <2>7. \A v, w \in DOMAIN workers : v # w => ~Looks(workers[v]) \/ ~Looks(workers[w])
    BY OneLooks
  <2>8. ASSUME NEW v \in DOMAIN workers, NEW w \in DOMAIN workers, v # w
        PROVE  Ahead(workers[v])' \cap Ahead(workers[w])' = {}
    BY <2>1, <2>3, <2>4, <2>7, <2>8 DEF OnceInv
  <2>9. EachSpotLoggedOnce'
    BY <2>2 DEF OnceInv, EachSpotLoggedOnce
  <2>. QED
    BY <2>1, <2>2, <2>4, <2>5, <2>6, <2>8, <2>9 DEF OnceInv
<1>5. CASE Crash
  <2>1. UNCHANGED <<logs, captured>> /\ DOMAIN workers' = {}
    BY <1>5, EmptySeq DEF Crash, files
  <2>. QED
    BY <2>1 DEF OnceInv, Written, Chunks, EachSpotLoggedOnce
<1>6. CASE UNCHANGED <<workers, logs, captured>>
  <2>1. \A w \in DOMAIN workers : Ahead(workers[w])' = Ahead(workers[w])
    BY <1>6 DEF Ahead, Looks, NextOwn, Chunks
  <2>2. (\A n, k : Written(n, k)' = Written(n, k)) /\ EachSpotLoggedOnce'
    BY <1>6 DEF OnceInv, Written, EachSpotLoggedOnce
  <2>3. Chunks' = Chunks
    BY <1>6 DEF Chunks
  <2>. QED
    BY <1>6, <2>1, <2>2, <2>3 DEF OnceInv
<1>. QED
  BY <1>1, <1>2, <1>3, <1>4, <1>5, <1>6
  DEF Next, Elsewhere, WorkerMoves, RequestStart, RequestStop, Boot, Elsewhere,
      BootFails, ClientStalls, ClientResumes, vars, volatile, files

\* If captures start, no spot is written twice: two workers of which one has
\* timed out, a crash, a write that fails or a number used again do not make
\* it appear in another log, or in the same one, once more.
THEOREM SpotsAreLoggedOnce ==
    ASSUME ~CaptureMayFail
    PROVE  Spec => []EachSpotLoggedOnce
<1>1. Init => TypeOK /\ LockOK /\ WorkerInv /\ ChunkInv /\ SessionInv /\ OnceInv
  BY TypeInit, LockInit, WorkerInit, ChunkInit, OnceInit
<1>2. TypeOK /\ LockOK /\ WorkerInv /\ ChunkInv /\ SessionInv /\ OnceInv /\ [Next]_vars
          => (TypeOK /\ LockOK /\ WorkerInv /\ ChunkInv /\ SessionInv /\ OnceInv)'
  BY TypeStep, LockStep, WorkerInvStep, ChunkStep, OnceStep
<1>3. OnceInv => EachSpotLoggedOnce
  BY DEF OnceInv
<1>. QED
  BY <1>1, <1>2, <1>3, PTL DEF Spec

-----------------------------------------------------------------------------
(* What the other parts of the daemon rely on: the session of Session.tla. *)

\* The holder of the lock as Session.tla tells it, and the threads that run.
Stage == IF lock = NoOne THEN "free" ELSE Phase(pc[lock])
Running == {w \in DOMAIN workers : workers[w].pc # "exit"}

\* The number of the session is one the counter file has given out, and lower
\* than the next; a torn file is met by a process without a session only.
GrowInv ==
    /\ counter # Torn => session <= counter
    /\ counter = Torn => session = 0 \/ \E t \in Threads : pc[t] = "number"
    /\ \A t \in Threads : pc[t] = "number" => session < seq

\* The worker of the session has been told to stop only while it is joined.
StopInv ==
    decodeWorker # 0 /\ workers[decodeWorker].stop =>
        \E t \in Threads : pc[t] = "join"

LEMMA GrowInit == Init => GrowInv /\ StopInv
BY TornAssumption DEF Init, GrowInv, StopInv

LEMMA GrowThreadStep ==
    ASSUME ~WriteMayFail, TypeOK, LockOK, GrowInv, StopInv, NEW t \in Threads, ThreadStep(t)
    PROVE  GrowInv' /\ StopInv'
<1>. USE ThreadsAssumption, TornAssumption
     DEF LockOK, Critical, StartSteps, StopSteps, SaveSteps, Goto, Leave, volatile,
         files
<1>1. pc \in [Threads -> ThreadSteps] /\ seq \in Nat /\ session \in Nat
      /\ counter \in Nat \cup {Torn}
  BY DEF TypeOK
<1>2. lock = NoOne \/ lock = t
  BY <1>1 DEF ThreadStep, Starting, Stopping, Saving, StartRefused, BeginSession,
              NumberSession, SetPath, ResetCount, OpenLog, StartDecode, StartCapture,
              CaptureFails, StopRefused, BeginStop, HaltCapture, SetStopEvent,
              JoinReturns, JoinTimesOut, LoadRaises, TruncateConfig, Save,
              OpenFails, WriteFails
<1>3. pc[t] # "join" => decodeWorker = 0 \/ ~workers[decodeWorker].stop
  BY <1>1, <1>2 DEF StopInv
<1>4. CASE StartRefused(t) \/ StopRefused(t) \/ BeginStop(t) \/ HaltCapture(t)
           \/ SetPath(t) \/ ResetCount(t) \/ OpenLog(t)
  <2>1. UNCHANGED <<counter, session, seq, workers, decodeWorker>> /\ pc[t] # "join"
        /\ \A u \in Threads : pc'[u] = "number" <=> pc[u] = "number"
    BY <1>1, <1>4 DEF StartRefused, StopRefused, BeginStop, HaltCapture, SetPath,
                      ResetCount, OpenLog
  <2>. QED
    BY <1>3, <2>1 DEF GrowInv, StopInv
<1>5. CASE StartCapture(t) \/ CaptureFails(t) \/ LoadRaises(t) \/ TruncateConfig(t)
           \/ Save(t)
  <2>1. UNCHANGED <<counter, session, seq, workers, decodeWorker>> /\ pc[t] # "join"
        /\ \A u \in Threads : pc'[u] = "number" <=> pc[u] = "number"
    BY <1>1, <1>5 DEF StartCapture, CaptureFails, LoadRaises, TruncateConfig, Save
  <2>. QED
    BY <1>3, <2>1 DEF GrowInv, StopInv
<1>6. CASE BeginSession(t)
  <2>1. session < seq'
    BY <1>1, <1>6 DEF GrowInv, BeginSession, NextLogSeq
  <2>2. StopInv'
    BY <1>3, <1>6 DEF StopInv, BeginSession
  <2>3. pc'[t] = "number" /\ counter' = Torn /\ session' = session
    BY <1>1, <1>6 DEF BeginSession
  <2>. QED
    BY <1>1, <1>6, <2>1, <2>2, <2>3 DEF GrowInv, BeginSession
<1>7. CASE NumberSession(t)
  <2>1. \A u \in Threads : pc'[u] # "number"
    BY <1>1, <1>7 DEF NumberSession
  <2>2. StopInv'
    BY <1>3, <1>7 DEF StopInv, NumberSession
  <2>. QED
    BY <1>1, <1>7, <2>1, <2>2 DEF GrowInv, NumberSession
<1>8. CASE StartDecode(t)
  <2>1. workers'[decodeWorker'] = NewWorker
    BY <1>8, WorkerAdded
  <2>2. StopInv'
    BY <2>1 DEF StopInv, NewWorker
  <2>3. UNCHANGED <<counter, session, seq>>
        /\ \A u \in Threads : pc'[u] = "number" <=> pc[u] = "number"
    BY <1>1, <1>8 DEF StartDecode
  <2>. QED
    BY <2>2, <2>3 DEF GrowInv
<1>9. CASE SetStopEvent(t)
  <2>1. pc'[t] = "join"
    BY <1>1, <1>9 DEF SetStopEvent
  <2>2. UNCHANGED <<counter, session, seq>>
        /\ \A u \in Threads : pc'[u] = "number" <=> pc[u] = "number"
    BY <1>1, <1>9 DEF SetStopEvent
  <2>. QED
    BY <2>1, <2>2 DEF GrowInv, StopInv
<1>10. CASE JoinReturns(t) \/ JoinTimesOut(t)
  <2>1. decodeWorker' = 0
    BY <1>10 DEF JoinReturns, JoinTimesOut, EndSession
  <2>2. UNCHANGED <<counter, session, seq>>
        /\ \A u \in Threads : pc'[u] = "number" <=> pc[u] = "number"
    BY <1>1, <1>10 DEF JoinReturns, JoinTimesOut, EndSession
  <2>. QED
    BY <2>1, <2>2 DEF GrowInv, StopInv
<1>. QED
  BY <1>4, <1>5, <1>6, <1>7, <1>8, <1>9, <1>10
  DEF ThreadStep, Starting, Stopping, Saving, OpenFails, WriteFails

LEMMA GrowStep ==
    ASSUME ~WriteMayFail, TypeOK, LockOK, DownInv, GrowInv, StopInv, [Next]_vars
    PROVE  GrowInv' /\ StopInv'
<1>. USE DEF volatile, files
<1>1. ASSUME NEW c \in Clients, RequestStart(c) \/ RequestStop(c)
      PROVE  GrowInv' /\ StopInv'
  <2>1. \A t \in Threads : \A step \in {"number", "join"} : pc'[t] = step <=> pc[t] = step
    BY <1>1 DEF TypeOK, RequestStart, RequestStop, Goto
  <2>2. UNCHANGED <<counter, session, seq, workers, decodeWorker>>
    BY <1>1 DEF RequestStart, RequestStop
  <2>. QED
    BY <2>1, <2>2 DEF GrowInv, StopInv
<1>2. ASSUME NEW t \in Threads, ThreadStep(t)
      PROVE  GrowInv' /\ StopInv'
  BY <1>2, GrowThreadStep
<1>3. ASSUME NEW w \in DOMAIN workers, WorkerMoves(w)
      PROVE  GrowInv' /\ StopInv'
  <2>1. UNCHANGED <<pc, seq, session, decodeWorker, counter>>
    BY <1>3, WorkerStepFrame
  <2>2. \A v \in DOMAIN workers : workers'[v].stop = workers[v].stop
    BY <1>3, WorkerKeepsEvents
  <2>3. decodeWorker # 0 => decodeWorker \in DOMAIN workers
    BY LenProperties DEF TypeOK
  <2>. QED
    BY <2>1, <2>2, <2>3 DEF GrowInv, StopInv
<1>4. CASE ChunkLands
  BY <1>4 DEF GrowInv, StopInv, ChunkLands
<1>5. CASE Crash
  <2>1. counter \in Nat \cup {Torn} /\ counter' = counter /\ session' = 0
        /\ decodeWorker' = 0 /\ \A t \in Threads : pc'[t] # "number"
    BY <1>5 DEF TypeOK, Crash
  <2>. QED
    BY <2>1 DEF GrowInv, StopInv
<1>6. CASE Boot
  <2>1. UNCHANGED <<counter, session, seq>> /\ decodeWorker' = 0 /\ session = 0
        /\ counter \in Nat \cup {Torn} /\ \A t \in Threads : pc'[t] # "number"
    BY <1>6 DEF TypeOK, DownInv, Boot, Goto
  <2>. QED
    BY <2>1 DEF GrowInv, StopInv
<1>7. CASE Elsewhere
  BY <1>7 DEF GrowInv, StopInv, Elsewhere, BootFails, ClientStalls, ClientResumes, vars
<1>. QED
  BY <1>1, <1>2, <1>3, <1>4, <1>5, <1>6, <1>7 DEF Next, Elsewhere, WorkerMoves

\* How Session.tla tells the steps of start_listening and stop_listening.
LEMMA Stages ==
    /\ Phase("number") = "number" /\ Phase("count") = "count"
    /\ Phase("path") = "count"
    /\ Phase("capture") = "capture" /\ Phase("save") = "save" /\ Phase("write") = "save"
    /\ Phase("log") = "worker" /\ Phase("decode") = "worker"
    /\ Phase("halt") = "join" /\ Phase("event") = "join" /\ Phase("join") = "join"
BY DEF Phase, StopSteps

\* A worker that ends has been told to, as long as rows can be written.
LEMMA RunningWorkers ==
    ASSUME ~WriteMayFail, TypeOK, NEW w \in DOMAIN workers, WorkerMoves(w)
    PROVE  /\ w \in Running
           /\ \/ Running' = Running
              \/ CheckStop(w) /\ workers[w].stop /\ Running' = Running \ {w}
<1>1. w \in Running
  BY DEF Running, WorkerMoves, WorkerStep, SeedWorker, CheckStop, Glob, Decode, OnSpot,
         OnSpotRaises, Advance, Told, Steps
<1>2. ASSUME NEW r, workers' = [workers EXCEPT ![w] = r], r.pc # "exit"
      PROVE  Running' = Running
  BY <1>1, <1>2 DEF Running
<1>3. ASSUME NEW r, workers' = [workers EXCEPT ![w] = r], r.pc = "exit"
      PROVE  Running' = Running \ {w}
  BY <1>1, <1>3 DEF Running
<1>4. workers[w] \in Worker
  BY LenProperties, ElementOfSeq DEF TypeOK
<1>. USE DEF Becomes, Worker, AfterVisit
<1>5. CASE SeedWorker(w)
  <2>. DEFINE r == [workers[w] EXCEPT !.pc = "check", !.last = Seed(Chunks)]
  <2>1. workers' = [workers EXCEPT ![w] = r]
    BY <1>5 DEF SeedWorker
  <2>2. r.pc # "exit"
    BY <1>4
  <2>. HIDE DEF r
  <2>. QED
    BY <1>1, <1>2, <2>1, <2>2
<1>6. CASE Glob(w)
  <2>. DEFINE r == [workers[w] EXCEPT
                        !.cand = Candidates(Chunks, workers[w].last),
                        !.pc = AfterVisit(Candidates(Chunks, workers[w].last))]
  <2>1. workers' = [workers EXCEPT ![w] = r]
    BY <1>6 DEF Glob
  <2>2. r.pc # "exit"
    BY <1>4
  <2>. HIDE DEF r
  <2>. QED
    BY <1>1, <1>2, <2>1, <2>2
<1>7. CASE Decode(w)
  <2>1. PICK wav \in workers[w].cand, spots \in 0..MaxSpots :
            workers' = [workers EXCEPT ![w] = [workers[w] EXCEPT
                            !.pc = "deliver", !.wav = wav, !.left = spots]]
    BY <1>7 DEF Decode
  <2>. DEFINE r == [workers[w] EXCEPT !.pc = "deliver", !.wav = wav, !.left = spots]
  <2>2. workers' = [workers EXCEPT ![w] = r] /\ r.pc # "exit"
    BY <1>4, <2>1
  <2>. HIDE DEF r
  <2>. QED
    BY <1>1, <1>2, <2>2
<1>8. CASE Advance(w)
  <2>. DEFINE r == [workers[w] EXCEPT
                        !.last = workers[w].wav, !.cand = @ \ {workers[w].wav},
                        !.pc = AfterVisit(workers[w].cand \ {workers[w].wav})]
  <2>1. workers' = [workers EXCEPT ![w] = r]
    BY <1>8 DEF Advance
  <2>2. r.pc # "exit"
    BY <1>4
  <2>. HIDE DEF r
  <2>. QED
    BY <1>1, <1>2, <2>1, <2>2
<1>9. CASE OnSpot(w)
  <2>. DEFINE r == [workers[w] EXCEPT !.left = @ - 1, !.pc = "tell"]
  <2>1. workers' = [workers EXCEPT ![w] = r]
    BY <1>9 DEF OnSpot
  <2>2. r.pc # "exit"
    BY <1>4, <1>9 DEF OnSpot, Steps
  <2>. HIDE DEF r
  <2>. QED
    BY <1>1, <1>2, <2>1, <2>2
<1>10. CASE CheckStop(w)
  <2>. DEFINE r == [workers[w] EXCEPT !.pc = IF StopSeen(w) THEN "exit" ELSE "glob"]
  <2>1. workers' = [workers EXCEPT ![w] = r]
    BY <1>10 DEF CheckStop
  <2>2. r.pc = IF workers[w].stop THEN "exit" ELSE "glob"
    BY <1>4 DEF StopSeen
  <2>. HIDE DEF r
  <2>. QED
    BY <1>1, <1>2, <1>3, <1>10, <2>1, <2>2
<1>11. CASE Told(w)
  <2>. DEFINE r == [workers[w] EXCEPT !.pc = "deliver"]
  <2>1. workers' = [workers EXCEPT ![w] = r]
    BY <1>11 DEF Told
  <2>2. r.pc # "exit"
    BY <1>4
  <2>. HIDE DEF r
  <2>. QED
    BY <1>1, <1>2, <2>1, <2>2
<1>. QED
  BY <1>5, <1>6, <1>7, <1>8, <1>9, <1>10, <1>11
  DEF WorkerMoves, WorkerStep, OnSpotRaises

LEMMA SessionBegins == Init => Promised!SessionInit
<1>. SUFFICES ASSUME Init PROVE Promised!SessionInit
  OBVIOUS
<1>1. Running = {}
  BY EmptySeq DEF Init, Running
<1>. QED
  BY <1>1 DEF Init, Running, Promised!SessionInit, Promised!Fresh

\* Each operation of a thread that clients can see the effect of is the
\* operation of that kind in Session.tla.
LEMMA SessionThreadStep ==
    ASSUME ~WriteMayFail, TypeOK, LockOK, DownInv, GrowInv, NEW t \in Threads,
           ThreadStep(t)
    PROVE  Promised!SessionStep(t) \/ UNCHANGED Promised!sessionVars
<1>. USE ThreadsAssumption, Stages DEF Goto, Leave, volatile, files
<1>1. /\ pc \in [Threads -> ThreadSteps] /\ seq \in Nat /\ session \in Nat
      /\ listening \in BOOLEAN
  BY DEF TypeOK
<1>2. pc[t] \in Critical <=> lock = t
  BY DEF LockOK
<1>3. Up /\ t # NoOne
  BY ThreadsAreUp
<1>4. ASSUME lock = t
      PROVE  Stage = Phase(pc[t])
  BY <1>3, <1>4 DEF Stage
<1>5. ASSUME lock' = t
      PROVE  Stage' = Phase(pc'[t])
  BY <1>3, <1>5 DEF Stage
<1>6. ASSUME lock' = NoOne
      PROVE  Stage' = "free"
  BY <1>6 DEF Stage
<1>7. workers' = workers => Running' = Running
  BY DEF Running
<1>. USE DEF Critical, StartSteps, StopSteps, SaveSteps
<1>. HIDE DEF Stage, Running
<1>8. CASE StartRefused(t) \/ StopRefused(t)
  <2>1. lock' = lock /\ lock = NoOne /\ workers' = workers
        /\ UNCHANGED <<listening, session, spotCount, decodeWorker>>
    BY <1>8 DEF StartRefused, StopRefused
  <2>2. Stage = "free"
    BY <2>1 DEF Stage
  <2>. QED
    BY <1>6, <1>7, <2>1, <2>2 DEF Stage, Running, Promised!sessionVars
<1>9. CASE BeginSession(t)
  <2>1. lock = NoOne /\ lock' = t /\ pc'[t] = "number" /\ workers' = workers /\ ~listening
        /\ UNCHANGED <<listening, session, spotCount, decodeWorker>>
    BY <1>1, <1>9 DEF BeginSession
  <2>. QED
    BY <1>5, <1>7, <2>1
    DEF Stage, Running, Promised!SessionStep, Promised!BeginStart, Promised!Enter
<1>10. CASE NumberSession(t)
  <2>1. lock = t /\ lock' = t /\ pc[t] = "number" /\ pc'[t] = "path"
        /\ workers' = workers /\ session' = seq
        /\ UNCHANGED <<listening, spotCount, decodeWorker>>
    BY <1>1, <1>2, <1>10 DEF NumberSession
  <2>2. session' > session /\ session' \in Nat
    BY <1>1, <2>1 DEF GrowInv
  <2>. QED
    BY <1>4, <1>5, <1>7, <2>1, <2>2
    DEF Stage, Running, Promised!SessionStep, Promised!NumberIt, Promised!Step
<1>21. CASE SetPath(t)
  <2>1. lock = t /\ lock' = t /\ pc[t] = "path" /\ pc'[t] = "count" /\ workers' = workers
        /\ UNCHANGED <<listening, session, spotCount, decodeWorker>>
    BY <1>1, <1>2, <1>21 DEF SetPath
  <2>. QED
    BY <1>4, <1>5, <1>7, <2>1 DEF Stage, Running, Promised!sessionVars
<1>11. CASE ResetCount(t)
  <2>1. lock = t /\ lock' = t /\ pc[t] = "count" /\ pc'[t] = "log"
        /\ workers' = workers /\ spotCount' = 0
        /\ UNCHANGED <<listening, session, decodeWorker>>
    BY <1>1, <1>2, <1>11 DEF ResetCount
  <2>. QED
    BY <1>4, <1>5, <1>7, <2>1
    DEF Stage, Running, Promised!SessionStep, Promised!ResetCount, Promised!Step
<1>12. CASE OpenLog(t)
  <2>1. lock = t /\ lock' = t /\ pc[t] = "log" /\ pc'[t] = "decode" /\ workers' = workers
        /\ UNCHANGED <<listening, session, spotCount, decodeWorker>>
    BY <1>1, <1>2, <1>12 DEF OpenLog
  <2>. QED
    BY <1>4, <1>5, <1>7, <2>1 DEF Stage, Running, Promised!sessionVars
<1>13. CASE StartDecode(t)
  <2>1. lock = t /\ lock' = t /\ pc[t] = "decode" /\ pc'[t] = "capture"
        /\ UNCHANGED <<listening, session, spotCount>>
    BY <1>1, <1>2, <1>13 DEF StartDecode
  <2>2. /\ DOMAIN workers' = DOMAIN workers \cup {decodeWorker'}
        /\ decodeWorker' \notin DOMAIN workers /\ decodeWorker' # 0
        /\ workers'[decodeWorker'] = NewWorker
        /\ \A w \in DOMAIN workers : workers'[w] = workers[w]
    BY <1>13, WorkerAdded
  <2>3. Running' = Running \cup {decodeWorker'} /\ decodeWorker' \notin Running
    BY <2>2 DEF Running, NewWorker
  <2>4. decodeWorker' \in Nat
    BY <1>13, LenProperties DEF TypeOK, StartDecode
  <2>. QED
    BY <1>4, <1>5, <2>1, <2>2, <2>3, <2>4
    DEF Stage, Running, Promised!SessionStep, Promised!StartWorker, Promised!Step
<1>14. CASE StartCapture(t)
  <2>1. lock = t /\ lock' = t /\ pc[t] = "capture" /\ pc'[t] = "save"
        /\ workers' = workers /\ listening' = TRUE
        /\ UNCHANGED <<session, spotCount, decodeWorker>>
    BY <1>1, <1>2, <1>14 DEF StartCapture
  <2>. QED
    BY <1>4, <1>5, <1>7, <2>1
    DEF Stage, Running, Promised!SessionStep, Promised!BeginListening, Promised!Step
<1>15. CASE CaptureFails(t)
  <2>1. lock = t /\ lock' = NoOne /\ pc[t] = "capture" /\ workers' = workers
        /\ UNCHANGED <<listening, session, spotCount, decodeWorker>>
    BY <1>2, <1>15 DEF CaptureFails
  <2>. QED
    BY <1>4, <1>6, <1>7, <2>1
    DEF Stage, Running, Promised!SessionStep, Promised!GiveUp, Promised!Release,
        Promised!Setup
<1>16. CASE LoadRaises(t) \/ Save(t)
  <2>1. lock = t /\ lock' = NoOne /\ pc[t] \in {"save", "write"} /\ workers' = workers
        /\ UNCHANGED <<listening, session, spotCount, decodeWorker>>
    BY <1>2, <1>16 DEF LoadRaises, Save
  <2>. QED
    BY <1>4, <1>6, <1>7, <2>1
    DEF Stage, Running, Promised!SessionStep, Promised!Saved, Promised!Release
<1>22. CASE TruncateConfig(t)
  <2>1. lock = t /\ lock' = t /\ pc[t] = "save" /\ pc'[t] = "write" /\ workers' = workers
        /\ UNCHANGED <<listening, session, spotCount, decodeWorker>>
    BY <1>1, <1>2, <1>22 DEF TruncateConfig
  <2>. QED
    BY <1>4, <1>5, <1>7, <2>1 DEF Stage, Running, Promised!sessionVars
<1>17. CASE BeginStop(t)
  <2>1. lock = NoOne /\ lock' = t /\ pc'[t] = "halt" /\ workers' = workers /\ listening
        /\ UNCHANGED <<listening, session, spotCount, decodeWorker>>
    BY <1>1, <1>17 DEF BeginStop
  <2>. QED
    BY <1>5, <1>7, <2>1
    DEF Stage, Running, Promised!SessionStep, Promised!BeginStop, Promised!Enter
<1>18. CASE HaltCapture(t)
  <2>1. lock = t /\ lock' = t /\ pc[t] = "halt" /\ pc'[t] = "event" /\ workers' = workers
        /\ UNCHANGED <<listening, session, spotCount, decodeWorker>>
    BY <1>1, <1>2, <1>18 DEF HaltCapture
  <2>. QED
    BY <1>4, <1>5, <1>7, <2>1 DEF Stage, Running, Promised!sessionVars
<1>19. CASE SetStopEvent(t)
  <2>1. lock = t /\ lock' = t /\ pc[t] = "event" /\ pc'[t] = "join"
        /\ UNCHANGED <<listening, session, spotCount, decodeWorker>>
    BY <1>1, <1>2, <1>19 DEF SetStopEvent
  <2>2. \A w \in DOMAIN workers : workers[w] \in Worker
    BY LenProperties, ElementOfSeq DEF TypeOK
  <2>3. DOMAIN workers' = DOMAIN workers
        /\ \A w \in DOMAIN workers : workers'[w].pc = workers[w].pc
    BY <1>19, <2>2, StopEventSet DEF Worker
  <2>4. Running' = Running
    BY <2>3 DEF Running
  <2>. QED
    BY <1>4, <1>5, <2>1, <2>4 DEF Stage, Running, Promised!sessionVars
<1>20. CASE JoinReturns(t) \/ JoinTimesOut(t)
  <2>1. lock = t /\ lock' = t /\ pc[t] = "join" /\ pc'[t] = "save"
        /\ workers' = workers /\ listening' = FALSE /\ decodeWorker' = 0
        /\ UNCHANGED <<session, spotCount>>
    BY <1>1, <1>2, <1>20 DEF JoinReturns, JoinTimesOut, EndSession
  <2>. QED
    BY <1>4, <1>5, <1>7, <2>1
    DEF Stage, Running, Promised!SessionStep, Promised!EndListening, Promised!Step
<1>. QED
  BY <1>8, <1>9, <1>10, <1>11, <1>12, <1>13, <1>14, <1>15, <1>16, <1>17, <1>18,
     <1>19, <1>20, <1>21, <1>22
  DEF ThreadStep, Starting, Stopping, Saving, OpenFails, WriteFails

LEMMA SessionStepLemma ==
    ASSUME ~WriteMayFail, TypeOK, LockOK, DownInv, GrowInv, StopInv, [Next]_vars
    PROVE  [Promised!SessionNext]_(Promised!sessionVars)
<1>. USE DEF volatile, files
<1>1. ASSUME NEW c \in Clients, RequestStart(c) \/ RequestStop(c)
      PROVE  UNCHANGED Promised!sessionVars
  <2>1. pc[c] = "idle" /\ \A t \in Threads : t # c => pc'[t] = pc[t]
    BY <1>1 DEF TypeOK, RequestStart, RequestStop, Goto
  <2>2. lock # NoOne => lock \in Threads /\ lock # c
    BY <2>1 DEF TypeOK, LockOK, Critical, StartSteps, StopSteps, SaveSteps
  <2>3. UNCHANGED <<lock, listening, session, spotCount, decodeWorker, workers>>
    BY <1>1 DEF RequestStart, RequestStop
  <2>4. lock # NoOne => pc'[lock] = pc[lock]
    BY <2>1, <2>2
  <2>. QED
    BY <2>3, <2>4 DEF Promised!sessionVars
<1>2. ASSUME NEW t \in Threads, ThreadStep(t)
      PROVE  Promised!SessionNext \/ UNCHANGED Promised!sessionVars
  BY <1>2, SessionThreadStep DEF Promised!SessionNext
<1>3. ASSUME NEW w \in DOMAIN workers, WorkerMoves(w)
      PROVE  Promised!SessionNext \/ UNCHANGED Promised!sessionVars
  <2>1. UNCHANGED <<pc, lock, listening, session, decodeWorker>>
    BY <1>3, WorkerStepFrame
  <2>2. w \in Running
    BY <1>3, RunningWorkers
  <2>3. CASE OnSpot(w)
    <3>1. Running' = Running
      <4>1. ~CheckStop(w)
        BY <2>3 DEF OnSpot, CheckStop, Steps
      <4>. QED
        BY <1>3, <4>1, RunningWorkers
    <3>2. lock = NoOne /\ spotCount' = spotCount + 1
      BY <2>3 DEF OnSpot, LockIsFree, Counted
    <3>3. Promised!CountSpot(w)
      BY <2>1, <3>1, <3>2 DEF Running, Promised!CountSpot
    <3>. QED
      BY <2>2, <3>3 DEF Running, Promised!SessionNext
  <2>4. CASE ~OnSpot(w)
    <3>1. spotCount' = spotCount
      BY <1>3, <2>4 DEF WorkerMoves, WorkerStep, Told, SeedWorker, CheckStop, Glob,
                        Decode, OnSpotRaises, Advance
    <3>2. CASE Running' = Running
      BY <2>1, <3>1, <3>2 DEF Running, Promised!sessionVars
    <3>3. CASE workers[w].stop /\ Running' = Running \ {w}
      <4>1. w # decodeWorker \/ Stage = "join"
        <5>1. SUFFICES ASSUME w = decodeWorker PROVE Stage = "join"
          OBVIOUS
        <5>2. w # 0
          BY LenProperties DEF TypeOK
        <5>3. PICK t \in Threads : pc[t] = "join"
          BY <3>3, <5>1, <5>2 DEF StopInv
        <5>4. lock = t /\ t # NoOne
          BY <5>3, ThreadsAssumption DEF LockOK, Critical, StopSteps
        <5>. QED
          BY <5>3, <5>4, Stages DEF Stage
      <4>2. Promised!Exit(w)
        BY <2>1, <3>1, <3>3, <4>1 DEF Stage, Running, Promised!Exit
      <4>. QED
        BY <2>2, <4>2 DEF Running, Promised!SessionNext
    <3>. QED
      BY <1>3, <3>2, <3>3, RunningWorkers
  <2>. QED
    BY <2>3, <2>4
<1>4. CASE ChunkLands \/ Elsewhere
  <2>1. UNCHANGED <<pc, lock, listening, session, spotCount, decodeWorker, workers>>
    BY <1>4 DEF ChunkLands, Elsewhere, BootFails, ClientStalls, ClientResumes, vars
  <2>. QED
    BY <2>1 DEF Promised!sessionVars
<1>5. CASE Crash
  <2>1. Running' = {}
    BY <1>5, EmptySeq DEF Crash, Running
  <2>2. Promised!Die
    BY <1>5, <2>1 DEF Crash, Running, Promised!Die, Promised!Fresh
  <2>. QED
    BY <2>2 DEF Promised!SessionNext
<1>6. CASE Boot
  <2>1. /\ lock = NoOne /\ listening = FALSE /\ session = 0 /\ spotCount = 0
        /\ decodeWorker = 0 /\ workers = <<>>
        /\ UNCHANGED <<lock, session, spotCount, decodeWorker, workers>>
    BY <1>6 DEF DownInv, Boot
  <2>2. listening' \in BOOLEAN
    BY <1>6 DEF TypeOK, Boot, Loadable
  <2>3. Running = {} /\ Running' = Running
    BY <2>1, EmptySeq DEF Running
  <2>4. CASE listening' = TRUE
    <3>1. Promised!Resume
      BY <2>1, <2>3, <2>4 DEF Running, Promised!Resume, Promised!Fresh
    <3>. QED
      BY <3>1 DEF Promised!SessionNext
  <2>5. CASE listening' = FALSE
    BY <2>1, <2>3, <2>5 DEF Running, Promised!sessionVars
  <2>. QED
    BY <2>2, <2>4, <2>5
<1>. QED
  BY <1>1, <1>2, <1>3, <1>4, <1>5, <1>6 DEF Next, Elsewhere, WorkerMoves

\* As long as files can be written, the daemon keeps what Session.tla promises
\* to clients and workers, whatever fails to start and whenever it crashes.
THEOREM Refinement ==
    ASSUME ~WriteMayFail
    PROVE  Spec => SessionSpec
<1>. DEFINE SessionIInv == TypeOK /\ LockOK /\ DownInv /\ GrowInv /\ StopInv
<1>1. Init => SessionIInv /\ Promised!SessionInit
  BY TypeInit, LockInit, DownInit, GrowInit, SessionBegins
<1>2. SessionIInv /\ [Next]_vars => SessionIInv'
  BY TypeStep, LockStep, DownStep, GrowStep
<1>3. SessionIInv /\ [Next]_vars => [Promised!SessionNext]_(Promised!sessionVars)
  BY SessionStepLemma
<1>. QED
  BY <1>1, <1>2, <1>3, PTL DEF Spec, SessionSpec, Promised!SessionSpec
=============================================================================
