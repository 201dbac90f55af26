------------------------------ MODULE Session ------------------------------
(***************************************************************************)
(* What start_listening, stop_listening and _on_spot promise to the rest   *)
(* of the daemon: the globals a client can be told about and the order in  *)
(* which they change, without the files and the capture behind them.       *)
(* Hsd.tla is shown to implement it; Ipc.tla builds the clients on it.     *)
(***************************************************************************)
EXTENDS Naturals

CONSTANTS
    Threads,   \* whoever calls start_listening and stop_listening
    NoOne,     \* the owner of a free lock
    Workers,   \* names of decode workers
    NoWorker,  \* _decode_worker when it is None
    Numbers    \* the numbers sessions may get

ASSUME NobodyAssumption ==
    NoOne \notin Threads /\ NoWorker \notin Workers /\ Numbers \subseteq Nat

VARIABLES
    lock,      \* who holds _state_lock
    phase,     \* what its holder does next
    listening, \* config["listening"]
    session,   \* the number in _session_seq; 0: none yet
    spotCount, \* _spot_count
    worker,    \* _decode_worker
    running    \* the workers whose threads run

sessionVars == <<lock, phase, listening, session, spotCount, worker, running>>

Setup == {"number", "count", "worker", "capture"}
Phases == {"free", "join", "save"} \cup Setup

\* The state of a process that has just begun.
Fresh ==
    /\ lock = NoOne
    /\ phase = "free"
    /\ session = 0
    /\ spotCount = 0
    /\ worker = NoWorker
    /\ running = {}

SessionInit == Fresh /\ listening = FALSE

\* A thread goes from one phase to the next.
Enter(t, p) == lock = NoOne /\ lock' = t /\ phase' = p
Step(t, p, q) == lock = t /\ phase = p /\ phase' = q /\ UNCHANGED lock
Release(t) == lock = t /\ lock' = NoOne /\ phase' = "free"

-----------------------------------------------------------------------------
(* Faults: plausible slips in the operations below, one per definition.    *)

\* config["listening"] is set first, to keep others from starting.
BeginStartEagerly(t) ==
    /\ ~listening
    /\ Enter(t, "number")
    /\ listening' = TRUE
    /\ UNCHANGED <<session, spotCount, worker, running>>

\* start() is called on the worker of the last session, not on the new one.
RestartOldWorker(t) ==
    /\ Step(t, "worker", "capture")
    /\ worker' \in Workers \ running
    /\ running' = running \cup {worker}
    /\ UNCHANGED <<listening, session, spotCount>>

-----------------------------------------------------------------------------
(* start_listening.                                                        *)

BeginStart(t) ==
    /\ ~listening
    /\ Enter(t, "number")
    /\ UNCHANGED <<listening, session, spotCount, worker, running>>

\* Numbers grow for the life of a process.
NumberIt(t) ==
    /\ Step(t, "number", "count")
    /\ session' \in Numbers
    /\ session' > session
    /\ UNCHANGED <<listening, spotCount, worker, running>>

ResetCount(t) ==
    /\ Step(t, "count", "worker")
    /\ spotCount' = 0
    /\ UNCHANGED <<listening, session, worker, running>>

StartWorker(t) ==
    /\ Step(t, "worker", "capture")
    /\ worker' \in Workers \ running
    /\ running' = running \cup {worker'}
    /\ UNCHANGED <<listening, session, spotCount>>

BeginListening(t) ==
    /\ Step(t, "capture", "save")
    /\ listening' = TRUE
    /\ UNCHANGED <<session, spotCount, worker, running>>

\* A step raises: the lock is released and nothing is undone.
GiveUp(t) ==
    /\ phase \in Setup
    /\ Release(t)
    /\ UNCHANGED <<listening, session, spotCount, worker, running>>

\* The end of both operations.
Saved(t) ==
    /\ phase = "save"
    /\ Release(t)
    /\ UNCHANGED <<listening, session, spotCount, worker, running>>

-----------------------------------------------------------------------------
(* stop_listening.                                                         *)

BeginStop(t) ==
    /\ listening
    /\ Enter(t, "join")
    /\ UNCHANGED <<listening, session, spotCount, worker, running>>

\* The join returned or timed out: the worker may still run.
EndListening(t) ==
    /\ Step(t, "join", "save")
    /\ listening' = FALSE
    /\ worker' = NoWorker
    /\ UNCHANGED <<session, spotCount, running>>

-----------------------------------------------------------------------------
(* The workers and the process.                                            *)

\* _on_spot, under the lock.
CountSpot(w) ==
    /\ lock = NoOne
    /\ spotCount' = spotCount + 1
    /\ UNCHANGED <<lock, phase, listening, session, worker, running>>

\* A thread ends, which the worker of a session does not before it is told.
Exit(w) ==
    /\ w # worker \/ phase = "join"
    /\ running' = running \ {w}
    /\ UNCHANGED <<lock, phase, listening, session, spotCount, worker>>

\* A crash, after which there is no process, and its next start, which takes
\* over what config.json says.
Die == Fresh' /\ listening' = FALSE
Resume == Fresh /\ listening' = TRUE
          /\ UNCHANGED <<lock, phase, session, spotCount, worker, running>>

SessionStep(t) ==
    \/ BeginStart(t) \/ NumberIt(t) \/ ResetCount(t) \/ StartWorker(t)
    \/ BeginListening(t) \/ GiveUp(t) \/ Saved(t)
    \/ BeginStop(t) \/ EndListening(t)

SessionNext ==
    \/ \E t \in Threads : SessionStep(t)
    \/ \E w \in running : CountSpot(w) \/ Exit(w)
    \/ Die
    \/ Resume

SessionSpec == SessionInit /\ [][SessionNext]_sessionVars
=============================================================================
