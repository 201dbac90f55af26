---------------------------- MODULE DecodeWorker ----------------------------
(***************************************************************************)
(* DecodeWorker (src/src/decode_worker.py): the thread that polls the      *)
(* chunk directory, and its environment, the capture thread that writes    *)
(* the WAV files of one session one after the other under their final      *)
(* names.  The directory is all the two share, so the worker can meet any  *)
(* file in any state the writer leaves it in.                              *)
(***************************************************************************)
EXTENDS Naturals, Sequences, WatchDir, DecodeChunk

CONSTANTS
    MaxName,      \* bound: the last name a chunk can have
    Outputs,      \* what a decoder may print for a chunk
    Asked         \* the (decoder, mode) pairs config.json may ask for

ASSUME BoundsAssumption == MaxName \in Nat
ASSUME OutputsAssumption == Outputs \subseteq Seq(Lines)

Names == 1..MaxName

VARIABLES
    dir,         \* what each name stands for in the chunk directory
    writing,     \* the file the capture thread has open; Nothing: none
    label,       \* the name of the chunk it writes next
    pc,          \* where the worker's thread is
    stopEvent,   \* _stop_event
    config,      \* decoder and mode
    last,        \* _last_processed
    cand,        \* the candidates the sweep has not come to yet
    wav,         \* wav_path
    left,        \* the spots of that chunk not delivered yet, by their lines
    skipped,     \* history: the names that were there at the first look
    decoded,     \* history: the chunks handed to the decoder, whether their
                 \* file was complete then, and what the decoder printed
    given        \* history: the spots the callback was given

capture == <<dir, writing, label>>
local == <<last, cand, wav, left>>
history == <<skipped, decoded, given>>
vars == <<capture, pc, stopEvent, config, local, history>>

FileStates == {"absent", "partial", "complete"}
WorkerSteps == {"seed", "check", "glob", "sweep", "deliver", "exit"}

\* The files glob("*.wav") lists, finished or not.
Present == {n \in Names : dir[n] # "absent"}

\* A session starts with files of earlier ones in the directory, and captures
\* from some boundary on.  A clock that has stepped back, or that had the
\* wrong year during an earlier session, puts that boundary anywhere.
Init ==
    /\ dir \in [Names -> {"absent", "complete"}]
    /\ label \in Names
    /\ writing = Nothing
    /\ pc = "seed"
    /\ stopEvent = FALSE
    /\ config \in Asked
    /\ last = Nothing
    /\ cand = {}
    /\ wav = Nothing
    /\ left = {}
    /\ skipped = {}
    /\ decoded = <<>>
    /\ given = <<>>

-----------------------------------------------------------------------------
(* Faults: plausible slips in the operations below.                        *)

\* The loop does not look at _stop_event again.
IgnoresStop == FALSE

\* _last_processed is taken from a new look at the directory.
ProcessedNewest(n) == LastName(Present)

-----------------------------------------------------------------------------
(* The capture thread: wave.open on the final name, then the frames, then  *)
(* the header's length.  A name met again is overwritten.                  *)

BeginWrite ==
    /\ writing = Nothing /\ label <= MaxName
    /\ writing' = label
    /\ dir' = [dir EXCEPT ![label] = "partial"]
    /\ UNCHANGED <<label, pc, stopEvent, config, local, history>>

EndWrite ==
    /\ writing # Nothing
    /\ dir' = [dir EXCEPT ![writing] = "complete"]
    /\ writing' = Nothing
    /\ label' = label + 1
    /\ UNCHANGED <<pc, stopEvent, config, local, history>>

-----------------------------------------------------------------------------
(* The worker.                                                             *)

\* stop() sets the event.
SetStopEvent ==
    /\ ~stopEvent
    /\ stopEvent' = TRUE
    /\ UNCHANGED <<capture, pc, config, local, history>>

\* The look at the directory before the loop.
SeedLast ==
    /\ pc = "seed"
    /\ last' = Seed(Present)
    /\ skipped' = Present
    /\ pc' = "check"
    /\ UNCHANGED <<capture, stopEvent, config, cand, wav, left, decoded, given>>

\* while not self._stop_event.is_set()
StopSeen == stopEvent

CheckStop ==
    /\ pc = "check"
    /\ pc' = IF StopSeen THEN "exit" ELSE "glob"
    /\ UNCHANGED <<capture, stopEvent, config, local, history>>

\* Where a sweep goes on: to the next candidate, or through the wait to the
\* next look at the event.
AfterVisit(rest) == IF rest = {} THEN "check" ELSE "sweep"

Glob ==
    /\ pc = "glob"
    /\ cand' = Candidates(Present, last)
    /\ pc' = AfterVisit(cand')
    /\ UNCHANGED <<capture, stopEvent, config, last, wav, left, history>>

\* decode_chunk on the next candidate: whatever the decoder prints, which is
\* nothing if it cannot be run or cannot read the file as it is.  An exception
\* is caught, and the chunk has no spots.
Decode ==
    /\ pc = "sweep"
    /\ \E n \in cand, out \in Outputs :
           /\ ComesFirst(n, cand)
           /\ wav' = n
           /\ left' = IF Raises(config, out) THEN {} ELSE Spots(config, out)
           /\ decoded' = Append(decoded, [name |-> n, out |-> out,
                                         whole |-> dir[n] = "complete"])
    /\ pc' = "deliver"
    /\ UNCHANGED <<capture, stopEvent, config, last, cand, skipped, given>>

\* The spots go to the callback in the order of the lines.
Deliver ==
    /\ pc = "deliver"
    /\ \E i \in left :
           /\ ComesFirst(i, left)
           /\ left' = left \ {i}
           /\ given' = Append(given, [chunk |-> wav, line |-> i,
                                     time |-> SpotTime(config, wav)])
    /\ UNCHANGED <<capture, pc, stopEvent, config, last, cand, wav, skipped, decoded>>

\* The callback raises; nothing catches it, and the thread ends.
DeliverRaises ==
    /\ pc = "deliver" /\ left # {}
    /\ pc' = "exit"
    /\ UNCHANGED <<capture, stopEvent, config, local, history>>

\* self._last_processed = wav_path.name
Processed(n) == n

Advance ==
    /\ pc = "deliver" /\ left = {}
    /\ last' = Processed(wav)
    /\ cand' = cand \ {wav}
    /\ pc' = AfterVisit(cand')
    /\ UNCHANGED <<capture, stopEvent, config, wav, left, history>>

-----------------------------------------------------------------------------

WorkerStep ==
    \/ SeedLast \/ CheckStop \/ Glob \/ Decode \/ Deliver \/ DeliverRaises \/ Advance

Next == BeginWrite \/ EndWrite \/ SetStopEvent \/ WorkerStep

Spec == Init /\ [][Next]_vars

\* A file that was opened gets written, the worker's thread runs, the decoder
\* it starts ends, and the callback returns (hsd's may not, while it sends to a
\* client that does not read).  Nothing makes a chunk begin or stop() be called.
FairSpec == Spec /\ WF_vars(EndWrite) /\ WF_vars(WorkerStep)

-----------------------------------------------------------------------------
(* Properties.                                                             *)

Decoded == {decoded[i].name : i \in 1..Len(decoded)}

\* The type of the state.
TypeOK ==
    /\ dir \in [Names -> FileStates]
    /\ writing \in Nat
    /\ label \in Nat
    /\ pc \in WorkerSteps
    /\ stopEvent \in BOOLEAN
    /\ last \in Nat
    /\ cand \in SUBSET Nat
    /\ wav \in Nat
    /\ left \in SUBSET Nat
    /\ config \in Asked
    /\ skipped \in SUBSET Nat
    /\ decoded \in Seq([name : Nat, out : Outputs, whole : BOOLEAN])
    /\ given \in Seq([chunk : Names, line : Nat, time : Names])

\* Chunks go to the decoder in the order of their names, so that none goes
\* twice, wherever the clock puts them.
DecodedInOrder ==
    \A i, j \in 1..Len(decoded) : i < j => decoded[i].name < decoded[j].name

\* What was in the directory when the session started is never decoded, nor
\* is anything that sorts before it.
BacklogSkipped == \A n \in Decoded : \A m \in skipped : m < n

\* The callback is given spots in the order of their times, which are those of
\* the chunks they were heard in whatever the decoder prints, and none twice.
SpotsInOrder ==
    /\ \A i \in 1..Len(given) : given[i].time = given[i].chunk
    /\ \A i, j \in 1..Len(given) : i < j =>
           \/ given[i].time < given[j].time
           \/ given[i].time = given[j].time /\ given[i].line < given[j].line

\* Every line that is a spot has been given to the callback once the worker
\* has gone on: other lines, other chunks and a stop in the meantime cost it
\* nothing, save for a garbled line among jt9's or decode_ft8's, which costs
\* the whole chunk.
GoneOn(i) == i < Len(decoded) \/ pc \in {"check", "glob", "sweep"}
Given(n) == {given[j].line : j \in {j \in 1..Len(given) : given[j].chunk = n}}

NoSpotLost ==
    \A i \in 1..Len(decoded) :
        LET out == decoded[i].out
        IN GoneOn(i) /\ config \in Configs =>
               \/ Given(decoded[i].name) = {k \in DOMAIN out : out[k] = "heard"}
               \/ /\ Binary(config) # "wsprd"
                  /\ \E k \in DOMAIN out : out[k] = "garbled"
                  /\ Given(decoded[i].name) = {}

\* Told to stop, the thread ends, if decoder and callback return.
StopEnds == stopEvent ~> pc = "exit"

\* A file that arrives after the first look, and is named after everything
\* that was there then, is decoded, unless the worker is told to stop or its
\* callback has raised: if decoder and callback return.
NewFileDecoded ==
    \A n \in Names :
        writing = n /\ pc # "seed" /\ (\A m \in skipped : m < n)
            ~> n \in Decoded \/ stopEvent \/ pc = "exit"

\* The worker implements the feed.
Cursor == IF wav # Nothing THEN wav ELSE last
Feed == INSTANCE ChunkFeed
            WITH files <- Present, on <- pc # "seed", cursor <- Cursor,
                 taken <- [i \in 1..Len(decoded) |-> decoded[i].name]
FeedSpec == Feed!Spec

\* No sweep passes over a file: of those that follow what was there at the
\* first look, all up to the one in hand have been decoded.
NonePassedOver == Feed!NoneMissed

-----------------------------------------------------------------------------
(* What the documentation says and the code does not keep.                 *)

\* A chunk's file is complete when the decoder reads it.
WholeWhenDecoded == \A i \in 1..Len(decoded) : decoded[i].whole
=============================================================================
