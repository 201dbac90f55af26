----------------------------- MODULE ChunkAlign -----------------------------
(***************************************************************************)
(* The arithmetic that ties a byte stream to UTC: next_boundary,           *)
(* chunk_filename and the set-up of align_chunks in                        *)
(* src/src/capture_worker.py, and chunk_start, which reads a file name     *)
(* back, in src/src/decode_worker.py.                                      *)
(*                                                                         *)
(* An instant is a number of ticks (the code's: microseconds) since the    *)
(* top of some hour; a file name is the second it spells out, which is     *)
(* how names sort within a century.  The code's float arithmetic is taken  *)
(* to be exact.                                                            *)
(***************************************************************************)
EXTENDS Integers

CONSTANTS
    TicksPerSecond,    \* the resolution of datetime
    Hour,              \* ticks in an hour
    Cycle,             \* CYCLE_SECONDS[mode], in ticks
    SampleRate         \* samples per second of the capture

SAMPLE_WIDTH_BYTES == 2

BytesPerSecond == SampleRate * SAMPLE_WIDTH_BYTES

ASSUME RatesAssumption ==
    /\ TicksPerSecond \in Nat \ {0} /\ Hour \in Nat \ {0} /\ Cycle \in Nat \ {0}
    /\ SampleRate \in Nat \ {0}

\* The comment of next_boundary: 15, 7.5 and 120 all divide 3600.
ASSUME GridAssumption == \E k \in 1..Hour : Hour = k * Cycle

\* A cycle is a whole number of half seconds, hence of bytes, and no shorter
\* than a second.
ASSUME CycleAssumption ==
    /\ (Cycle * BytesPerSecond) % TicksPerSecond = 0
    /\ TicksPerSecond <= Cycle

-----------------------------------------------------------------------------
(* Faults: plausible slips in the definitions below.                       *)

\* int() without the round().
Truncated(num, den) == num \div den

\* chunk_start stays where it is.
SameStart(start) == start

-----------------------------------------------------------------------------

\* after.replace(minute=0, second=0, microsecond=0)
TopOfHour(t) == t - (t % Hour)

next_boundary(t) ==
    LET n == ((t - TopOfHour(t)) \div Cycle) + 1
    IN  TopOfHour(t) + n * Cycle

\* int(round(num / den)): a tie goes to the even neighbour.
Rounded(num, den) ==
    LET q == num \div den
        r == num % den
    IN  IF 2 * r < den \/ (2 * r = den /\ q % 2 = 0) THEN q ELSE q + 1

chunk_bytes == Rounded(Cycle * BytesPerSecond, TicksPerSecond)

\* The boundary lies after t, which makes the code's max(0, ...) idle.
warmup_bytes(t) == Rounded((next_boundary(t) - t) * BytesPerSecond, TicksPerSecond)

\* chunk_start + timedelta(seconds=cycle_seconds)
NextStart(start) == start + Cycle

\* strftime("%y%m%d_%H%M%S.wav")
chunk_filename(start) == start \div TicksPerSecond

chunk_start(name) == name * TicksPerSecond
=============================================================================
