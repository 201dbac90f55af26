-------------------------- MODULE ChunkAlignProofs --------------------------
(***************************************************************************)
(* What the arithmetic of ChunkAlign.tla computes, for every resolution,   *)
(* cycle, rate and instant.                                                *)
(***************************************************************************)
EXTENDS ChunkAlign, TLAPS

\* Division with remainder.
LEMMA Division ==
    ASSUME NEW a \in Nat, NEW b \in Nat \ {0}
    PROVE  /\ a \div b \in Nat /\ a % b \in Nat
           /\ a = b * (a \div b) + (a % b)
           /\ a % b < b
  OBVIOUS

\* round() is off by half at most.
LEMMA RoundedIsNear ==
    ASSUME NEW num \in Nat, NEW den \in Nat \ {0}
    PROVE  /\ Rounded(num, den) \in Nat
           /\ 2 * (Rounded(num, den) * den - num) <= den
           /\ 2 * (num - Rounded(num, den) * den) <= den
<1>. DEFINE q == num \div den
            r == num % den
<1>1. q \in Nat /\ r \in Nat /\ num = den * q + r /\ r < den
  BY Division
<1>2. \/ Rounded(num, den) = q /\ 2 * r <= den
      \/ Rounded(num, den) = q + 1 /\ 2 * r >= den
  BY <1>1 DEF Rounded
<1>3. CASE Rounded(num, den) = q /\ 2 * r <= den
  <2>1. Rounded(num, den) * den - num = 0 - r
    BY <1>1, <1>3
  <2>. QED
    BY <1>1, <1>3, <2>1
<1>4. CASE Rounded(num, den) = q + 1 /\ 2 * r >= den
  <2>1. Rounded(num, den) * den - num = den - r
    BY <1>1, <1>4
  <2>. QED
    BY <1>1, <1>4, <2>1
<1>. QED
  BY <1>2, <1>3, <1>4

\* The next boundary lies after the instant, and at most a cycle after it.
THEOREM BoundaryIsNext ==
    ASSUME NEW t \in Nat
    PROVE  /\ next_boundary(t) \in Nat
           /\ t < next_boundary(t)
           /\ next_boundary(t) <= t + Cycle
<1>1. /\ t % Hour \in Nat /\ TopOfHour(t) \in Nat
      /\ t - TopOfHour(t) = t % Hour
  BY Division, RatesAssumption DEF TopOfHour
<1>. DEFINE e == t - TopOfHour(t)
            n == e \div Cycle
<1>2. /\ e \in Nat /\ n \in Nat /\ e = Cycle * n + (e % Cycle)
      /\ e % Cycle \in Nat /\ e % Cycle < Cycle
  BY <1>1, Division, RatesAssumption
<1>3. next_boundary(t) = TopOfHour(t) + (n + 1) * Cycle
  BY DEF next_boundary
<1>4. t = TopOfHour(t) + e
  BY <1>1
<1>. HIDE DEF n, e
<1>5. (n + 1) * Cycle = Cycle * n + Cycle /\ Cycle * n \in Nat
  BY <1>2, RatesAssumption
<1>6. next_boundary(t) = (t - (e % Cycle)) + Cycle
  <2>1. next_boundary(t) = TopOfHour(t) + (Cycle * n + Cycle)
    BY <1>3, <1>5
  <2>. DEFINE w == Cycle * n
              r == e % Cycle
  <2>2. /\ w \in Nat /\ r \in Nat /\ e = w + r
        /\ next_boundary(t) = TopOfHour(t) + (w + Cycle)
    BY <1>2, <1>5, <2>1
  <2>3. TopOfHour(t) \in Nat /\ Cycle \in Nat
    BY <1>1, RatesAssumption
  <2>. HIDE DEF w, r
  <2>4. next_boundary(t) = (t - r) + Cycle
    BY <1>4, <2>2, <2>3
  <2>. QED
    BY <2>4 DEF r
<1>. QED
  BY <1>2, <1>6, RatesAssumption

\* The next boundary is a whole number of cycles, counted from any hour.
THEOREM BoundaryIsOnGrid ==
    ASSUME NEW t \in Nat
    PROVE  \E m \in Nat : next_boundary(t) = m * Cycle
<1>1. PICK k \in Nat : Hour = k * Cycle
  BY GridAssumption
<1>. DEFINE h == t \div Hour
            n == (t - TopOfHour(t)) \div Cycle
<1>2. h \in Nat /\ TopOfHour(t) = Hour * h /\ t - TopOfHour(t) \in Nat
  BY Division, RatesAssumption DEF TopOfHour
<1>3. n \in Nat
  BY <1>2, Division, RatesAssumption
<1>4. next_boundary(t) = Hour * h + (n + 1) * Cycle
  BY <1>2 DEF next_boundary
<1>. HIDE DEF h, n
<1>5. Hour * h + (n + 1) * Cycle = (k * h + n + 1) * Cycle
  BY <1>1, <1>2, <1>3, RatesAssumption
<1>6. k * h + n + 1 \in Nat
  BY <1>1, <1>2, <1>3
<1>. QED
  BY <1>4, <1>5, <1>6

\* A chunk holds exactly one cycle's bytes.
LEMMA ChunkBytesExact ==
    /\ chunk_bytes \in Nat
    /\ chunk_bytes * TicksPerSecond = Cycle * BytesPerSecond
<1>. DEFINE c == Cycle * BytesPerSecond
            q == c \div TicksPerSecond
<1>1. c \in Nat
  BY RatesAssumption DEF BytesPerSecond, SAMPLE_WIDTH_BYTES
<1>2. c % TicksPerSecond = 0
  BY CycleAssumption
<1>3. q \in Nat /\ c = TicksPerSecond * q + (c % TicksPerSecond)
  BY <1>1, Division, RatesAssumption
<1>4. chunk_bytes = q
  BY <1>2, RatesAssumption DEF chunk_bytes, Rounded
<1>. HIDE DEF c, q
<1>5. c = q * TicksPerSecond
  BY <1>2, <1>3, RatesAssumption
<1>. QED
  BY <1>3, <1>4, <1>5 DEF c

\* The warm-up ends within half a byte of the boundary.
LEMMA WarmupIsNear ==
    ASSUME NEW t \in Nat
    PROVE  /\ warmup_bytes(t) \in Nat
           /\ 2 * ((next_boundary(t) - t) * BytesPerSecond
                       - warmup_bytes(t) * TicksPerSecond) <= TicksPerSecond
           /\ 2 * (warmup_bytes(t) * TicksPerSecond
                       - (next_boundary(t) - t) * BytesPerSecond) <= TicksPerSecond
<1>. DEFINE d == (next_boundary(t) - t) * BytesPerSecond
<1>1. next_boundary(t) - t \in Nat /\ BytesPerSecond \in Nat
  BY BoundaryIsNext, RatesAssumption DEF BytesPerSecond, SAMPLE_WIDTH_BYTES
<1>2. d \in Nat
  BY <1>1
<1>3. warmup_bytes(t) = Rounded(d, TicksPerSecond)
  BY DEF warmup_bytes
<1>. HIDE DEF d
<1>4. /\ warmup_bytes(t) \in Nat
      /\ 2 * (warmup_bytes(t) * TicksPerSecond - d) <= TicksPerSecond
      /\ 2 * (d - warmup_bytes(t) * TicksPerSecond) <= TicksPerSecond
  BY <1>2, <1>3, RoundedIsNear, RatesAssumption
<1>. QED
  BY <1>4 DEF d

\* Boundaries a cycle apart have file names that differ, in the same order.
LEMMA NamesFollowStarts ==
    ASSUME NEW s \in Nat
    PROVE  /\ chunk_filename(s) \in Nat
           /\ chunk_filename(s) < chunk_filename(NextStart(s))
<1>. DEFINE q == s \div TicksPerSecond
            q2 == (s + Cycle) \div TicksPerSecond
<1>1. /\ q \in Nat /\ s = TicksPerSecond * q + (s % TicksPerSecond)
      /\ s % TicksPerSecond \in Nat
  BY Division, RatesAssumption
<1>2. s + Cycle \in Nat
  BY RatesAssumption
<1>3. /\ q2 \in Nat /\ s + Cycle = TicksPerSecond * q2 + ((s + Cycle) % TicksPerSecond)
      /\ (s + Cycle) % TicksPerSecond \in Nat
      /\ (s + Cycle) % TicksPerSecond < TicksPerSecond
  BY <1>2, Division, RatesAssumption
<1>4. chunk_filename(s) = q /\ chunk_filename(NextStart(s)) = q2
  BY DEF chunk_filename, NextStart
<1>. HIDE DEF q, q2
<1>5. TicksPerSecond * q < TicksPerSecond * q2
  <2>1. TicksPerSecond * q \in Nat /\ TicksPerSecond * q2 \in Nat
    BY <1>1, <1>3, RatesAssumption
  <2>. QED
    BY <1>1, <1>3, <2>1, CycleAssumption, RatesAssumption
<1>6. q < q2
  BY <1>1, <1>3, <1>5, RatesAssumption
<1>. QED
  BY <1>1, <1>4, <1>6

\* The start that is read back from a file's name is less than a second before
\* the one it was written for, and is that one just for whole seconds: not for
\* every other chunk of FT4.
THEOREM NameReadsBack ==
    ASSUME NEW s \in Nat
    PROVE  /\ chunk_start(chunk_filename(s)) <= s
           /\ s < chunk_start(chunk_filename(s)) + TicksPerSecond
           /\ chunk_start(chunk_filename(s)) = s <=> s % TicksPerSecond = 0
<1>. DEFINE q == s \div TicksPerSecond
            r == s % TicksPerSecond
<1>1. q \in Nat /\ r \in Nat /\ s = TicksPerSecond * q + r /\ r < TicksPerSecond
  BY Division, RatesAssumption
<1>2. chunk_start(chunk_filename(s)) = q * TicksPerSecond
  BY DEF chunk_start, chunk_filename
<1>3. q * TicksPerSecond \in Nat /\ q * TicksPerSecond = TicksPerSecond * q
  BY <1>1, RatesAssumption
<1>. HIDE DEF q, r
<1>4. r = s % TicksPerSecond
  BY DEF r
<1>. QED
  BY <1>1, <1>2, <1>3, <1>4, RatesAssumption
=============================================================================
