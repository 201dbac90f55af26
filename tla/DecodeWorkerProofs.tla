------------------------- MODULE DecodeWorkerProofs -------------------------
(***************************************************************************)
(* What holds of DecodeWorker.tla for any number of names, files and spots *)
(* and, below, that it implements ChunkFeed.tla.                           *)
(***************************************************************************)
EXTENDS DecodeWorker, WatchDirProofs, SequenceTheorems

Entry == [name : Nat, out : Outputs, whole : BOOLEAN]
GivenSpot == [chunk : Names, line : Nat, time : Names]

-----------------------------------------------------------------------------
(* Types, and where the worker's variables stand to each other.            *)

\* TypeOK, with names known to be names: what is present, what a sweep has
\* before it and what it is busy with.
TypeInv ==
    /\ TypeOK
    /\ cand \in SUBSET Names
    /\ skipped \in SUBSET Names
    /\ pc = "deliver" => wav \in Names

\* What was decoded lies behind _last_processed, and a sweep's candidates
\* before it; a chunk being delivered is the first of them.
OrderInv ==
    /\ pc = "seed" => decoded = <<>> /\ cand = {} /\ wav = Nothing
    /\ \A n \in cand : last < n
    /\ \A i \in 1..Len(decoded) : decoded[i].name <= (IF pc = "deliver" THEN wav ELSE last)
                                  \/ pc = "exit"
    /\ pc = "deliver" => ComesFirst(wav, cand)
    /\ \A m \in skipped : m <= last
    /\ BacklogSkipped
    /\ DecodedInOrder

\* The lines of an output that become spots are numbers.
LEMMA SpotLines ==
    ASSUME NEW out \in Outputs
    PROVE  (IF Raises(config, out) THEN {} ELSE Spots(config, out)) \in SUBSET Nat
<1>1. out \in Seq(Lines)
  BY OutputsAssumption
<1>2. DOMAIN out = 1..Len(out) /\ Len(out) \in Nat
  BY <1>1, LenProperties
<1>. QED
  BY <1>2 DEF Spots

LEMMA PresentNames == Present \in SUBSET (1..MaxName)
BY DEF Present, Names

LEMMA InvInit == Init => TypeInv /\ OrderInv
<1>. SUFFICES ASSUME Init PROVE TypeInv /\ OrderInv
  OBVIOUS
<1>1. decoded \in Seq(Entry) /\ Len(decoded) = 0
  BY EmptySeq DEF Init
<1>2. dir \in [Names -> FileStates]
  BY DEF Init, FileStates
<1>3. label \in Nat
  BY BoundsAssumption DEF Init, Names
<1>4. given \in Seq(GivenSpot)
  BY EmptySeq DEF Init
<1>6. TypeInv
  BY <1>1, <1>2, <1>3, <1>4
     DEF Init, TypeInv, TypeOK, Entry, GivenSpot, Nothing, WorkerSteps
<1>5. OrderInv
  BY <1>1 DEF Init, OrderInv, BacklogSkipped, DecodedInOrder, Decoded
<1>. QED
  BY <1>5, <1>6

\* Decoding the first candidate appends its name and changes nothing else in
\* the history.
LEMMA DecodeAppends ==
    ASSUME TypeInv, Decode
    PROVE  \E n \in cand, whole \in BOOLEAN :
               /\ ComesFirst(n, cand)
               /\ n \in Nat
               /\ wav' = n
               /\ left' \in SUBSET Nat
               /\ decoded' \in Seq(Entry)
               /\ Len(decoded) \in Nat
               /\ Len(decoded') = Len(decoded) + 1
               /\ decoded'[Len(decoded) + 1].name = n
               /\ \A i \in 1..Len(decoded) : decoded'[i] = decoded[i]
<1>1. PICK n \in cand, out \in Outputs :
          /\ ComesFirst(n, cand)
          /\ wav' = n
          /\ left' = IF Raises(config, out) THEN {} ELSE Spots(config, out)
          /\ decoded' = Append(decoded, [name |-> n, out |-> out,
                                        whole |-> dir[n] = "complete"])
  BY DEF Decode
<1>. DEFINE whole == dir[n] = "complete"
            e == [name |-> n, out |-> out, whole |-> whole]
<1>2. n \in Nat /\ whole \in BOOLEAN /\ left' \in SUBSET Nat
  BY <1>1, SpotLines, BoundsAssumption DEF TypeInv, Names
<1>3. e \in Entry /\ e.name = n
  BY <1>2 DEF Entry
<1>4. decoded \in Seq(Entry) /\ Len(decoded) \in Nat
  BY LenProperties DEF TypeInv, TypeOK, Entry
<1>. HIDE DEF e
<1>5. /\ Append(decoded, e) \in Seq(Entry)
      /\ Len(Append(decoded, e)) = Len(decoded) + 1
      /\ \A i \in 1..Len(decoded) : Append(decoded, e)[i] = decoded[i]
      /\ Append(decoded, e)[Len(decoded) + 1] = e
  BY <1>3, <1>4, AppendProperties
<1>6. decoded' = Append(decoded, e)
  BY <1>1 DEF e
<1>. QED
  BY <1>1, <1>2, <1>3, <1>4, <1>5, <1>6

\* Delivering a spot appends it, with the chunk's own time, to what was given.
LEMMA DeliverAppends ==
    ASSUME TypeInv, Deliver
    PROVE  \E i \in left :
               /\ ComesFirst(i, left)
               /\ left' = left \ {i}
               /\ given \in Seq(GivenSpot) /\ given' \in Seq(GivenSpot)
               /\ Len(given) \in Nat
               /\ Len(given') = Len(given) + 1
               /\ given'[Len(given) + 1] = [chunk |-> wav, line |-> i, time |-> wav]
               /\ \A j \in 1..Len(given) : given'[j] = given[j]
<1>1. PICK i \in left :
          /\ ComesFirst(i, left)
          /\ left' = left \ {i}
          /\ given' = Append(given, [chunk |-> wav, line |-> i,
                                    time |-> SpotTime(config, wav)])
  BY DEF Deliver
<1>. DEFINE e == [chunk |-> wav, line |-> i, time |-> wav]
<1>2. i \in Nat /\ wav \in Names
  BY <1>1 DEF TypeInv, TypeOK, Deliver
<1>3. e \in GivenSpot /\ given' = Append(given, e)
  BY <1>1, <1>2 DEF GivenSpot, SpotTime
<1>4. given \in Seq(GivenSpot) /\ Len(given) \in Nat
  BY LenProperties DEF TypeInv, TypeOK, GivenSpot
<1>5. /\ Append(given, e) \in Seq(GivenSpot)
      /\ Len(Append(given, e)) = Len(given) + 1
      /\ \A j \in 1..Len(given) : Append(given, e)[j] = given[j]
      /\ Append(given, e)[Len(given) + 1] = e
  <2>. HIDE DEF e
  <2>. QED
    BY <1>3, <1>4, AppendProperties
<1>. QED
  BY <1>1, <1>3, <1>4, <1>5

LEMMA TypeInvStep ==
    ASSUME TypeInv, [Next]_vars
    PROVE  TypeInv'
<1>. USE DEF TypeInv, TypeOK, capture, local, history
<1>1. CASE BeginWrite
  BY <1>1 DEF BeginWrite, FileStates
<1>2. CASE EndWrite
  <2>1. dir' \in [Names -> FileStates]
    BY <1>2 DEF EndWrite, FileStates
  <2>. QED
    BY <1>2, <2>1 DEF EndWrite, Nothing
<1>3. CASE SetStopEvent
  <2>1. stopEvent' \in BOOLEAN
    BY <1>3 DEF SetStopEvent
  <2>. QED
    BY <1>3, <2>1 DEF SetStopEvent
<1>4. CASE SeedLast
  <2>1. Seed(Present) \in Nat /\ Present \in SUBSET Names
    BY PresentNames, LastNameIsGreatest, BoundsAssumption DEF Seed, Names
  <2>2. Names \subseteq Nat
    BY DEF Names
  <2>. QED
    BY <1>4, <2>1, <2>2 DEF SeedLast, WorkerSteps
<1>5. CASE CheckStop
  BY <1>5 DEF CheckStop, WorkerSteps
<1>6. CASE Glob
  <2>1. cand' \subseteq Present
    BY <1>6 DEF Glob, Candidates
  <2>2. cand' \in SUBSET Names /\ Names \subseteq Nat
    BY <2>1, PresentNames DEF Names
  <2>3. pc' \in {"check", "sweep"}
    BY <1>6 DEF Glob, AfterVisit
  <2>. QED
    BY <1>6, <2>2, <2>3 DEF Glob, WorkerSteps
<1>7. CASE Decode
  <2>1. wav' \in Names /\ wav' \in Nat /\ left' \in SUBSET Nat /\ decoded' \in Seq(Entry)
    BY <1>7, DecodeAppends
  <2>. QED
    BY <1>7, <2>1 DEF Decode, WorkerSteps, Entry
<1>8. CASE Deliver
  <2>1. given' \in Seq(GivenSpot)
    BY <1>8, DeliverAppends
  <2>2. left' \in SUBSET Nat
    BY <1>8 DEF Deliver
  <2>. QED
    BY <1>8, <2>1, <2>2 DEF Deliver, GivenSpot
<1>9. CASE DeliverRaises
  BY <1>9 DEF DeliverRaises, WorkerSteps
<1>10. CASE Advance
  <2>1. pc' \in WorkerSteps
    BY <1>10 DEF Advance, AfterVisit, WorkerSteps
  <2>. QED
    BY <1>10, <2>1 DEF Advance, Processed
<1>11. CASE UNCHANGED vars
  BY <1>11 DEF vars
<1>. QED
  BY <1>1, <1>2, <1>3, <1>4, <1>5, <1>6, <1>7, <1>8, <1>9, <1>10, <1>11
     DEF Next, WorkerStep

LEMMA OrderInvStep ==
    ASSUME TypeInv, OrderInv, [Next]_vars
    PROVE  OrderInv'
<1>. USE DEF OrderInv, capture, local, history
<1>1. /\ last \in Nat /\ wav \in Nat /\ cand \in SUBSET Nat
      /\ skipped \in SUBSET Nat
      /\ decoded \in Seq(Entry) /\ Len(decoded) \in Nat
      /\ \A i \in 1..Len(decoded) : decoded[i].name \in Nat
  <2>1. decoded \in Seq(Entry) /\ Len(decoded) \in Nat
    BY LenProperties DEF TypeInv, TypeOK, Entry
  <2>2. \A i \in 1..Len(decoded) : decoded[i].name \in Nat
    <3>1. \A i \in 1..Len(decoded) : decoded[i] \in Entry
      BY <2>1, ElementOfSeq
    <3>. QED
      BY <3>1 DEF Entry
  <2>. QED
    BY <2>1, <2>2 DEF TypeInv, TypeOK
<1>2. CASE BeginWrite \/ EndWrite \/ SetStopEvent \/ Deliver \/ UNCHANGED vars
  <2>1. UNCHANGED <<pc, cand, last, wav, skipped, decoded>>
    BY <1>2 DEF BeginWrite, EndWrite, SetStopEvent, Deliver, vars
  <2>. QED
    BY <2>1 DEF BacklogSkipped, DecodedInOrder, Decoded
<1>3. CASE CheckStop \/ DeliverRaises
  <2>1. UNCHANGED <<cand, last, wav, skipped, decoded>> /\ pc' \in {"exit", "glob"}
        /\ (pc' = "exit" \/ pc = "check") /\ pc \in {"check", "deliver"}
    BY <1>3 DEF CheckStop, DeliverRaises
  <2>. QED
    BY <2>1 DEF BacklogSkipped, DecodedInOrder, Decoded
<1>4. CASE SeedLast
  <2>1. \A m \in Present : m <= last'
    BY <1>4, PresentNames, LastNameIsGreatest, BoundsAssumption DEF SeedLast, Seed
  <2>2. decoded' = <<>> /\ skipped' = Present /\ cand' = {} /\ pc' = "check"
    BY <1>4 DEF SeedLast
  <2>3. Len(decoded') = 0
    BY <2>2, EmptySeq
  <2>. QED
    BY <2>1, <2>2, <2>3 DEF BacklogSkipped, DecodedInOrder, Decoded
<1>5. CASE Glob
  <2>1. \A n \in cand' : last < n
    BY <1>1, <1>5 DEF Glob, Candidates
  <2>2. UNCHANGED <<last, wav, skipped, decoded>> /\ pc' \in {"check", "sweep"}
        /\ pc = "glob"
    BY <1>5 DEF Glob, AfterVisit
  <2>. QED
    BY <2>1, <2>2 DEF BacklogSkipped, DecodedInOrder, Decoded
<1>6. CASE Decode
  <2>1. PICK n \in cand, whole \in BOOLEAN :
            /\ ComesFirst(n, cand)
            /\ n \in Nat
            /\ wav' = n
            /\ Len(decoded') = Len(decoded) + 1
            /\ decoded'[Len(decoded) + 1].name = n
            /\ \A i \in 1..Len(decoded) : decoded'[i] = decoded[i]
    BY <1>6, DecodeAppends
  <2>2. UNCHANGED <<cand, last, skipped>> /\ pc = "sweep" /\ pc' = "deliver"
    BY <1>6 DEF Decode
  <2>3. last < n
    BY <2>1
  <2>4. \A i \in 1..Len(decoded) : decoded[i].name < n
    BY <1>1, <2>2, <2>3
  <2>5. \A i \in 1..Len(decoded') : decoded'[i].name <= n
    BY <1>1, <2>1, <2>4
  <2>6. DecodedInOrder'
    <3>1. ASSUME NEW i \in 1..Len(decoded'), NEW j \in 1..Len(decoded'), i < j
          PROVE  decoded'[i].name < decoded'[j].name
      <4>1. i \in 1..Len(decoded) /\ decoded'[i] = decoded[i]
        BY <1>1, <2>1, <3>1
      <4>2. CASE j \in 1..Len(decoded)
        BY <2>1, <3>1, <4>1, <4>2 DEF DecodedInOrder
      <4>3. CASE j = Len(decoded) + 1
        BY <2>1, <2>4, <4>1, <4>3
      <4>. QED
        BY <1>1, <2>1, <4>2, <4>3
    <3>. QED
      BY <3>1 DEF DecodedInOrder
  <2>7. BacklogSkipped'
    <3>1. ASSUME NEW i \in 1..Len(decoded'), NEW m \in skipped
          PROVE  m < decoded'[i].name
      <4>1. CASE i \in 1..Len(decoded)
        BY <2>1, <3>1, <4>1 DEF BacklogSkipped, Decoded
      <4>2. CASE i = Len(decoded) + 1
        BY <1>1, <2>1, <2>3, <4>2
      <4>. QED
        BY <1>1, <2>1, <4>1, <4>2
    <3>. QED
      BY <2>2, <3>1 DEF BacklogSkipped, Decoded
  <2>8. ComesFirst(wav', cand')
    BY <2>1, <2>2
  <2>. QED
    BY <2>1, <2>2, <2>5, <2>6, <2>7, <2>8
<1>7. CASE Advance
  <2>1. /\ UNCHANGED <<wav, skipped, decoded>> /\ last' = wav /\ cand' = cand \ {wav}
        /\ pc = "deliver" /\ pc' \in {"check", "sweep"}
    BY <1>7 DEF Advance, Processed, AfterVisit
  <2>2. wav \in cand /\ \A m \in cand : wav <= m
    BY <2>1 DEF ComesFirst
  <2>3. \A n \in cand' : last' < n
    BY <1>1, <2>1, <2>2
  <2>4. \A m \in skipped : m <= wav
    BY <1>1, <2>2
  <2>. QED
    BY <2>1, <2>3, <2>4 DEF BacklogSkipped, DecodedInOrder, Decoded
<1>. QED
  BY <1>2, <1>3, <1>4, <1>5, <1>6, <1>7 DEF Next, WorkerStep

LEMMA Invariants == Spec => [](TypeInv /\ OrderInv)
<1>1. TypeInv /\ OrderInv /\ [Next]_vars => (TypeInv /\ OrderInv)'
  BY TypeInvStep, OrderInvStep
<1>. QED
  BY <1>1, InvInit, PTL DEF Spec

\* Every variable stays in its type.
THEOREM TypeCorrect == Spec => []TypeOK
<1>1. TypeInv => TypeOK
  BY DEF TypeInv
<1>. QED
  BY <1>1, Invariants, PTL

\* Wherever the clock puts the names, chunks are decoded in their order, and
\* so none is decoded twice.
THEOREM InOrder == Spec => []DecodedInOrder
<1>1. OrderInv => DecodedInOrder
  BY DEF OrderInv
<1>. QED
  BY <1>1, Invariants, PTL

\* Nothing that was there when the session started is decoded.
THEOREM BacklogIsSkipped == Spec => []BacklogSkipped
<1>1. OrderInv => BacklogSkipped
  BY DEF OrderInv
<1>. QED
  BY <1>1, Invariants, PTL

-----------------------------------------------------------------------------
(* The spots.                                                              *)

\* What was given is of chunks the worker is done with, or of the one in hand
\* and its lines before those left.
GivenInv ==
    /\ pc = "seed" => given = <<>>
    /\ \A i \in 1..Len(given) :
           /\ given[i].chunk <= (IF pc = "deliver" THEN wav ELSE last) \/ pc = "exit"
           /\ pc = "deliver" /\ given[i].chunk = wav =>
                  \A k \in left : given[i].line < k
    /\ SpotsInOrder

LEMMA GivenInvStep ==
    ASSUME TypeInv, OrderInv, GivenInv, [Next]_vars
    PROVE  GivenInv'
<1>. USE DEF GivenInv, capture, local, history
<1>1. /\ last \in Nat /\ wav \in Nat /\ cand \in SUBSET Nat /\ left \in SUBSET Nat
      /\ given \in Seq(GivenSpot) /\ Len(given) \in Nat
      /\ \A i \in 1..Len(given) :
             given[i].chunk \in Nat /\ given[i].line \in Nat /\ given[i].time \in Nat
  <2>1. given \in Seq(GivenSpot) /\ Len(given) \in Nat
    BY LenProperties DEF TypeInv, TypeOK, GivenSpot
  <2>2. \A i \in 1..Len(given) : given[i] \in GivenSpot
    BY <2>1, ElementOfSeq
  <2>3. \A i \in 1..Len(given) :
            given[i].chunk \in Nat /\ given[i].line \in Nat /\ given[i].time \in Nat
    BY <2>2 DEF GivenSpot, Names
  <2>. QED
    BY <2>1, <2>3 DEF TypeInv, TypeOK
<1>2. CASE BeginWrite \/ EndWrite \/ SetStopEvent \/ UNCHANGED vars
  <2>1. UNCHANGED <<pc, last, wav, left, given>>
    BY <1>2 DEF BeginWrite, EndWrite, SetStopEvent, vars
  <2>. QED
    BY <2>1 DEF SpotsInOrder
<1>3. CASE CheckStop \/ Glob \/ DeliverRaises
  <2>1. UNCHANGED <<last, wav, left, given>> /\ pc' \in {"exit", "glob", "check", "sweep"}
        /\ (pc' = "exit" \/ pc \in {"check", "glob"})
    BY <1>3 DEF CheckStop, Glob, DeliverRaises, AfterVisit
  <2>. QED
    BY <2>1 DEF SpotsInOrder
<1>4. CASE SeedLast
  <2>1. given = <<>> /\ given' = given /\ pc' = "check"
    BY <1>4 DEF SeedLast
  <2>2. Len(given') = 0
    BY <2>1, EmptySeq
  <2>. QED
    BY <2>1, <2>2 DEF SpotsInOrder
<1>5. CASE Decode
  <2>1. PICK n \in cand : wav' = n /\ n \in Nat
    BY <1>5, DecodeAppends
  <2>2. UNCHANGED <<last, given>> /\ pc = "sweep" /\ pc' = "deliver"
    BY <1>5 DEF Decode
  <2>3. last < n
    BY <2>1 DEF OrderInv
  <2>4. \A i \in 1..Len(given) : given[i].chunk < n
    BY <1>1, <2>1, <2>2, <2>3
  <2>5. \A i \in 1..Len(given) : given[i].chunk <= n /\ given[i].chunk # n
    BY <1>1, <2>1, <2>4
  <2>6. SpotsInOrder'
    BY <2>2 DEF SpotsInOrder
  <2>. QED
    BY <2>1, <2>2, <2>5, <2>6
<1>6. CASE Deliver
  <2>1. PICK k \in left :
            /\ ComesFirst(k, left)
            /\ left' = left \ {k}
            /\ Len(given') = Len(given) + 1
            /\ given'[Len(given) + 1] = [chunk |-> wav, line |-> k, time |-> wav]
            /\ \A j \in 1..Len(given) : given'[j] = given[j]
    BY <1>6, DeliverAppends
  <2>2. UNCHANGED <<pc, last, wav>> /\ pc = "deliver"
    BY <1>6 DEF Deliver
  <2>3. k \in Nat /\ \A m \in left' : k < m
    BY <1>1, <2>1 DEF ComesFirst
  <2>4. \A i \in 1..Len(given') :
            /\ given'[i].time = given'[i].chunk
            /\ given'[i].chunk <= wav
            /\ given'[i].chunk = wav => \A m \in left' : given'[i].line < m
    <3>1. ASSUME NEW i \in 1..Len(given)
          PROVE  /\ given'[i].time = given'[i].chunk
                 /\ given'[i].chunk <= wav
                 /\ given'[i].chunk = wav => \A m \in left' : given'[i].line < m
      BY <2>1, <2>2, <3>1 DEF SpotsInOrder
    <3>2. \A i \in 1..Len(given') : i \in 1..Len(given) \/ i = Len(given) + 1
      BY <1>1, <2>1
    <3>. QED
      BY <1>1, <2>1, <2>3, <3>1, <3>2
  <2>5. ASSUME NEW i \in 1..Len(given'), NEW j \in 1..Len(given'), i < j
        PROVE  \/ given'[i].time < given'[j].time
               \/ given'[i].time = given'[j].time /\ given'[i].line < given'[j].line
    <3>1. i \in 1..Len(given) /\ given'[i] = given[i]
      BY <1>1, <2>1, <2>5
    <3>2. CASE j \in 1..Len(given)
      BY <2>1, <2>5, <3>1, <3>2 DEF SpotsInOrder
    <3>3. CASE j = Len(given) + 1
      <4>1. given[i].time = given[i].chunk /\ given[i].chunk <= wav
            /\ (given[i].chunk = wav => given[i].line < k)
        BY <2>1, <2>2, <3>1 DEF SpotsInOrder
      <4>. QED
        BY <1>1, <2>1, <3>1, <3>3, <4>1
    <3>. QED
      BY <1>1, <2>1, <3>2, <3>3
  <2>. QED
    BY <2>2, <2>4, <2>5 DEF SpotsInOrder
<1>7. CASE Advance
  <2>1. /\ UNCHANGED <<wav, left, given>> /\ last' = wav
        /\ pc = "deliver" /\ pc' \in {"check", "sweep"}
    BY <1>7 DEF Advance, Processed, AfterVisit
  <2>. QED
    BY <2>1 DEF SpotsInOrder
<1>. QED
  BY <1>2, <1>3, <1>4, <1>5, <1>6, <1>7 DEF Next, WorkerStep

\* The callback is given spots in the order of their chunks and lines, each
\* with the start of its chunk for a time, and none twice.
THEOREM SpotsAreInOrder == Spec => []SpotsInOrder
<1>1. Init => GivenInv
  <2>1. Init => given = <<>> /\ Len(given) = 0
    BY EmptySeq DEF Init
  <2>. QED
    BY <2>1 DEF GivenInv, SpotsInOrder
<1>2. TypeInv /\ OrderInv /\ GivenInv /\ [Next]_vars => GivenInv'
  BY GivenInvStep
<1>3. GivenInv => SpotsInOrder
  BY DEF GivenInv
<1>. QED
  BY <1>1, <1>2, <1>3, Invariants, PTL DEF Spec

\* The spots decode_chunk returned for the i-th chunk.
Returned(i) ==
    IF Raises(config, decoded[i].out) THEN {} ELSE Spots(config, decoded[i].out)

\* They have all been given, or are left of the chunk in hand.
LostInv ==
    /\ pc = "seed" => decoded = <<>>
    /\ \A i \in 1..Len(decoded) : GoneOn(i) => Given(decoded[i].name) = Returned(i)
    /\ pc = "deliver" =>
           /\ Len(decoded) > 0
           /\ decoded[Len(decoded)].name = wav
           /\ Returned(Len(decoded)) = Given(wav) \cup left

LEMMA SameHistory ==
    ASSUME UNCHANGED <<config, decoded, given>>
    PROVE  /\ \A i \in 1..Len(decoded) : Returned(i)' = Returned(i)
           /\ \A n : Given(n)' = Given(n)
<1>1. \A i \in 1..Len(decoded) : Returned(i)' = Returned(i)
  BY DEF Returned
<1>2. \A n : Given(n)' = Given(n)
  BY DEF Given
<1>. QED
  BY <1>1, <1>2

LEMMA LostInvStep ==
    ASSUME TypeInv, OrderInv, GivenInv, LostInv, [Next]_vars
    PROVE  LostInv'
<1>. USE DEF LostInv, capture, local, history
<1>1. /\ decoded \in Seq(Entry) /\ Len(decoded) \in Nat
      /\ given \in Seq(GivenSpot) /\ Len(given) \in Nat
      /\ config' = config /\ last \in Nat /\ wav \in Nat
      /\ \A i \in 1..Len(given) : given[i].chunk \in Nat
  <2>1. decoded \in Seq(Entry) /\ Len(decoded) \in Nat
    BY LenProperties DEF TypeInv, TypeOK, Entry
  <2>2. given \in Seq(GivenSpot) /\ Len(given) \in Nat
    BY LenProperties DEF TypeInv, TypeOK, GivenSpot
  <2>3. \A i \in 1..Len(given) : given[i] \in GivenSpot
    BY <2>2, ElementOfSeq
  <2>4. \A i \in 1..Len(given) : given[i].chunk \in Nat
    BY <2>3 DEF GivenSpot, Names
  <2>5. config' = config
    BY DEF Next, WorkerStep, BeginWrite, EndWrite, SetStopEvent, SeedLast, CheckStop,
           Glob, Decode, Deliver, DeliverRaises, Advance, vars
  <2>. QED
    BY <2>1, <2>2, <2>4, <2>5 DEF TypeInv, TypeOK
<1>2. CASE BeginWrite \/ EndWrite \/ SetStopEvent \/ UNCHANGED vars
  <2>1. UNCHANGED <<pc, wav, left, decoded, given>>
    BY <1>2 DEF BeginWrite, EndWrite, SetStopEvent, vars
  <2>2. \A i \in 1..Len(decoded) : Returned(i)' = Returned(i) /\ GoneOn(i)' = GoneOn(i)
    BY <1>1, <2>1, SameHistory DEF GoneOn
  <2>3. \A n : Given(n)' = Given(n)
    BY <1>1, <2>1, SameHistory
  <2>4. pc = "deliver" => Len(decoded) \in 1..Len(decoded)
    BY <1>1
  <2>. QED
    BY <2>1, <2>2, <2>3, <2>4
<1>3. CASE SeedLast \/ CheckStop \/ Glob \/ DeliverRaises
  <2>1. /\ UNCHANGED <<wav, left, decoded, given>>
        /\ pc' \in {"exit", "glob", "check", "sweep"}
        /\ pc' = "exit" \/ pc \in {"seed", "check", "glob"}
    BY <1>3 DEF SeedLast, CheckStop, Glob, DeliverRaises, AfterVisit
  <2>2. \A i \in 1..Len(decoded) : GoneOn(i)' => GoneOn(i)
    <3>1. CASE pc = "seed"
      BY <3>1, EmptySeq
    <3>2. CASE pc # "seed"
      BY <2>1, <3>2 DEF GoneOn
    <3>. QED
      BY <3>1, <3>2
  <2>3. \A i \in 1..Len(decoded) : Returned(i)' = Returned(i)
    BY <1>1, <2>1, SameHistory
  <2>4. \A n : Given(n)' = Given(n)
    BY <1>1, <2>1, SameHistory
  <2>. QED
    BY <2>1, <2>2, <2>3, <2>4
<1>4. CASE Decode
  <2>1. PICK n \in cand, out \in Outputs :
            /\ wav' = n
            /\ left' = IF Raises(config, out) THEN {} ELSE Spots(config, out)
            /\ decoded' = Append(decoded, [name |-> n, out |-> out,
                                          whole |-> dir[n] = "complete"])
    BY <1>4 DEF Decode
  <2>. DEFINE e == [name |-> n, out |-> out, whole |-> dir[n] = "complete"]
  <2>2. e \in Entry /\ n \in Nat /\ last < n
    BY <2>1 DEF Entry, TypeInv, TypeOK, OrderInv
  <2>3. /\ Len(decoded') = Len(decoded) + 1
        /\ \A i \in 1..Len(decoded) : decoded'[i] = decoded[i]
        /\ decoded'[Len(decoded) + 1] = e
    <3>. HIDE DEF e
    <3>. QED
      BY <1>1, <2>1, <2>2, AppendProperties DEF e
  <2>4. UNCHANGED given /\ pc = "sweep" /\ pc' = "deliver"
    BY <1>4 DEF Decode
  <2>5. Given(n) = {}
    <3>1. \A i \in 1..Len(given) : given[i].chunk # n
      BY <1>1, <2>2, <2>4 DEF GivenInv
    <3>. QED
      BY <3>1 DEF Given
  <2>6. Returned(Len(decoded))' = left'
    <3>1. decoded'[Len(decoded')].out = out
      BY <1>1, <2>3
    <3>. QED
      BY <1>1, <2>1, <3>1 DEF Returned
  <2>7. \A i \in 1..Len(decoded') : GoneOn(i)' => i \in 1..Len(decoded) /\ GoneOn(i)
    BY <1>1, <2>3, <2>4 DEF GoneOn
  <2>8. \A i \in 1..Len(decoded) :
            Given(decoded[i].name)' = Given(decoded[i].name) /\ Returned(i)' = Returned(i)
    BY <1>1, <2>3, <2>4 DEF Given, Returned
  <2>9. Given(wav)' = {}
    BY <2>1, <2>4, <2>5 DEF Given
  <2>10. \A i \in 1..Len(decoded') : GoneOn(i)' => (Given(decoded[i].name) = Returned(i))'
    BY <2>3, <2>7, <2>8
  <2>11. Len(decoded') > 0 /\ decoded'[Len(decoded')].name = wav'
    BY <1>1, <2>1, <2>3
  <2>12. (Returned(Len(decoded)) = Given(wav) \cup left)'
    BY <2>6, <2>9
  <2>. QED
    BY <2>4, <2>10, <2>11, <2>12
<1>5. CASE Deliver
  <2>1. PICK k \in left :
            /\ left' = left \ {k}
            /\ Len(given') = Len(given) + 1
            /\ given'[Len(given) + 1] = [chunk |-> wav, line |-> k, time |-> wav]
            /\ \A j \in 1..Len(given) : given'[j] = given[j]
    BY <1>5, DeliverAppends
  <2>2. UNCHANGED <<pc, wav, decoded>> /\ pc = "deliver"
    BY <1>5 DEF Deliver
  <2>3. Given(wav)' = Given(wav) \cup {k}
    <3>1. \A j \in 1..Len(given') : j \in 1..Len(given) \/ j = Len(given) + 1
      BY <1>1, <2>1
    <3>2. \A j \in 1..Len(given) : j \in 1..Len(given')
      BY <1>1, <2>1
    <3>3. Len(given) + 1 \in 1..Len(given')
      BY <1>1, <2>1
    <3>. QED
      BY <2>1, <2>2, <3>1, <3>2, <3>3 DEF Given
  <2>4. ASSUME NEW i \in 1..Len(decoded), GoneOn(i)
        PROVE  Given(decoded[i].name)' = Given(decoded[i].name)
    <3>1. i < Len(decoded) /\ Len(decoded) \in 1..Len(decoded)
      BY <1>1, <2>2, <2>4 DEF GoneOn
    <3>2. decoded[i].name < wav /\ decoded[i].name \in Nat
      <4>1. decoded[i] \in Entry
        BY <1>1, ElementOfSeq
      <4>. QED
        BY <2>2, <3>1, <4>1 DEF OrderInv, DecodedInOrder, Entry
    <3>3. \A j \in 1..Len(given') : j \in 1..Len(given) \/ given'[j].chunk = wav
      BY <1>1, <2>1
    <3>4. \A j \in 1..Len(given) : j \in 1..Len(given')
      BY <1>1, <2>1
    <3>5. wav # decoded[i].name
      BY <1>1, <3>2
    <3>. QED
      BY <2>1, <2>2, <3>3, <3>4, <3>5 DEF Given
  <2>5. \A i \in 1..Len(decoded) : Returned(i)' = Returned(i) /\ GoneOn(i)' = GoneOn(i)
    BY <1>1, <2>2 DEF Returned, GoneOn
  <2>6. Returned(Len(decoded))' = Returned(Len(decoded))
    BY <1>1, <2>2 DEF Returned
  <2>7. (Given(wav) \cup left)' = Given(wav) \cup left
    BY <2>1, <2>3
  <2>. QED
    BY <2>2, <2>4, <2>5, <2>6, <2>7
<1>6. CASE Advance
  <2>1. /\ UNCHANGED <<wav, left, decoded, given>> /\ left = {}
        /\ pc = "deliver" /\ pc' \in {"check", "sweep"}
    BY <1>6 DEF Advance, Processed, AfterVisit
  <2>2. \A i \in 1..Len(decoded) : GoneOn(i) \/ i = Len(decoded)
    BY <1>1 DEF GoneOn
  <2>3. \A i \in 1..Len(decoded) : Given(decoded[i].name) = Returned(i)
    BY <2>1, <2>2
  <2>4. \A i \in 1..Len(decoded) :
            Returned(i)' = Returned(i) /\ Given(decoded[i].name)' = Given(decoded[i].name)
    BY <1>1, <2>1 DEF Returned, Given
  <2>. QED
    BY <2>1, <2>3, <2>4
<1>. QED
  BY <1>2, <1>3, <1>4, <1>5, <1>6 DEF Next, WorkerStep

\* Of every chunk the worker has gone on from, the callback was given all the
\* spots, except that a garbled line among jt9's or decode_ft8's costs a chunk
\* all of them.
THEOREM NoneIsLost == Spec => []NoSpotLost
<1>1. Init => GivenInv /\ LostInv
  <2>1. Init => given = <<>> /\ Len(given) = 0 /\ decoded = <<>> /\ Len(decoded) = 0
                /\ pc = "seed"
    BY EmptySeq DEF Init
  <2>. QED
    BY <2>1 DEF GivenInv, SpotsInOrder, LostInv
<1>2. TypeInv /\ OrderInv /\ GivenInv /\ LostInv /\ [Next]_vars => (GivenInv /\ LostInv)'
  BY GivenInvStep, LostInvStep
<1>3. LostInv => NoSpotLost
  BY DEF LostInv, NoSpotLost, Returned, Raises, ParserRaises, Spots
<1>. QED
  BY <1>1, <1>2, <1>3, Invariants, PTL DEF Spec

-----------------------------------------------------------------------------
(* The refinement.                                                         *)

\* Once the worker has looked at the directory, the chunk being written or to
\* be written next follows all others, save those left by earlier sessions,
\* and the candidates of a sweep are the oldest files that are left.
FeedInv ==
    /\ label # 0
    /\ writing # Nothing => writing = label /\ label \in Present
    /\ pc = "seed" => skipped = {}
    /\ skipped \subseteq Present
    /\ pc # "seed" =>
           \A n \in Present : n < label \/ n = writing \/ \E m \in skipped : n <= m
    /\ cand \subseteq Present
    /\ pc \in {"sweep", "deliver"} =>
           \A m \in Present : last < m /\ m \notin cand => \A n \in cand : n < m
    /\ pc \in {"check", "glob", "sweep"} /\ wav # Nothing => wav = last

LEMMA FeedInvInit == Init => FeedInv
BY DEF Init, FeedInv, Present, Names

\* What the directory holds after the capture thread's steps.
LEMMA WritePresent ==
    ASSUME TypeInv, FeedInv
    PROVE  /\ BeginWrite =>
                  /\ Present' = Present \cup {label}
                  /\ label \in Names
                  /\ \/ pc = "seed"
                     \/ label \in Present
                     \/ \A n \in Present : n < label
                     \/ \E m \in skipped : label < m
           /\ EndWrite => Present' = Present
<1>1. /\ dir \in [Names -> FileStates] /\ label \in Nat /\ writing \in Nat
      /\ Present \in SUBSET Nat
  BY PresentNames DEF TypeInv, TypeOK
<1>2. CASE BeginWrite
  <2>1. label \in Names
    BY <1>1, <1>2 DEF BeginWrite, Names, FeedInv
  <2>2. Present' = Present \cup {label}
    BY <1>1, <1>2, <2>1 DEF BeginWrite, Present
  <2>3. ASSUME pc # "seed", label \notin Present, NEW n \in Present, ~(n < label)
        PROVE  \E m \in skipped : label < m
    <3>1. n # writing
      BY <1>2, <2>3 DEF BeginWrite, Present, Names, Nothing
    <3>2. PICK m \in skipped : n <= m
      BY <2>3, <3>1 DEF FeedInv
    <3>3. m \in Present
      BY <3>2 DEF FeedInv
    <3>. QED
      BY <1>1, <2>3, <3>2, <3>3
  <2>. QED
    BY <1>2, <2>1, <2>2, <2>3 DEF BeginWrite, EndWrite
<1>3. CASE EndWrite
  <2>1. writing \in Present
    BY <1>3 DEF EndWrite, FeedInv
  <2>2. Present' = Present
    BY <1>1, <1>3, <2>1 DEF EndWrite, Present
  <2>. QED
    BY <1>3, <2>2 DEF BeginWrite, EndWrite
<1>. QED
  BY <1>2, <1>3

LEMMA FeedInvStep ==
    ASSUME TypeInv, OrderInv, FeedInv, [Next]_vars
    PROVE  FeedInv'
<1>. USE DEF FeedInv, capture, local, history
<1>1. /\ last \in Nat /\ wav \in Nat /\ cand \in SUBSET Nat /\ label \in Nat
      /\ Present \in SUBSET Nat
  BY PresentNames DEF TypeInv, TypeOK
<1>2. CASE BeginWrite
  <2>1. /\ Present' = Present \cup {label}
        /\ writing' = label
    BY <1>2, WritePresent DEF BeginWrite
  <2>2. UNCHANGED <<label, pc, last, cand, wav, skipped>>
    BY <1>2 DEF BeginWrite
  <2>3. ASSUME pc \in {"sweep", "deliver"}, last < label, label \notin cand,
               NEW n \in cand
        PROVE  n < label
    <3>1. CASE label \in Present
      BY <2>3, <3>1
    <3>2. CASE \A m \in Present : m < label
      BY <3>2
    <3>3. CASE \E m \in skipped : label < m
      <4>1. PICK m \in skipped : label < m
        BY <3>3
      <4>2. m <= last /\ m \in Nat
        BY <1>1, <4>1 DEF OrderInv
      <4>. QED
        BY <1>1, <2>3, <4>1, <4>2
    <3>. QED
      BY <1>2, <2>3, <3>1, <3>2, <3>3, WritePresent
  <2>4. pc' # "seed" =>
            \A n \in Present' : n < label' \/ n = writing' \/ \E m \in skipped' : n <= m
    BY <1>2, <2>1, <2>2 DEF BeginWrite, Present, Names, Nothing
  <2>5. pc' \in {"sweep", "deliver"} =>
            \A m \in Present' : last' < m /\ m \notin cand' => \A n \in cand' : n < m
    BY <2>1, <2>2, <2>3
  <2>. QED
    BY <2>1, <2>2, <2>4, <2>5
<1>3. CASE EndWrite
  <2>1. /\ Present' = Present
        /\ label' = label + 1 /\ writing' = Nothing
        /\ writing = label
        /\ UNCHANGED <<pc, last, cand, wav, skipped>>
    BY <1>3, WritePresent DEF EndWrite
  <2>2. pc # "seed" =>
            \A n \in Present : n < label' \/ \E m \in skipped : n <= m
    BY <1>1, <2>1
  <2>3. label' # 0
    BY <1>1, <2>1
  <2>. QED
    BY <2>1, <2>2, <2>3
<1>4. CASE WorkerStep \/ SetStopEvent \/ UNCHANGED vars
  <2>1. UNCHANGED <<dir, writing, label>> /\ Present' = Present
    BY <1>4 DEF WorkerStep, SeedLast, CheckStop, Glob, Decode, Deliver,
                DeliverRaises, Advance, SetStopEvent, vars, Present
  <2>2. CASE SeedLast
    <3>1. /\ skipped' = Present /\ pc' = "check" /\ UNCHANGED <<cand, wav>>
          /\ cand = {} /\ wav = Nothing
      BY <2>2 DEF SeedLast, OrderInv
    <3>2. \A n \in Present : n <= n
      BY <1>1
    <3>. QED
      BY <2>1, <3>1, <3>2
  <2>3. CASE CheckStop
    BY <2>1, <2>3 DEF CheckStop
  <2>4. CASE Glob
    <3>1. /\ cand' = {n \in Present : n > last} /\ UNCHANGED <<last, wav, skipped>>
          /\ pc = "glob" /\ pc' \in {"check", "sweep"}
      BY <2>4 DEF Glob, Candidates, AfterVisit
    <3>2. \A m \in Present : last < m => m \in cand'
      BY <1>1, <3>1
    <3>. QED
      BY <2>1, <3>1, <3>2
  <2>5. CASE Decode
    BY <2>1, <2>5 DEF Decode
  <2>6. CASE Deliver \/ SetStopEvent \/ UNCHANGED vars
    BY <2>1, <2>6 DEF Deliver, SetStopEvent, vars
  <2>7. CASE DeliverRaises
    BY <2>1, <2>7 DEF DeliverRaises
  <2>8. CASE Advance
    <3>1. /\ last' = wav /\ UNCHANGED <<wav, skipped>> /\ cand' = cand \ {wav}
          /\ pc = "deliver" /\ pc' \in {"check", "sweep"}
      BY <2>8 DEF Advance, Processed, AfterVisit
    <3>2. wav \in cand /\ last < wav
      BY <3>1 DEF OrderInv, ComesFirst
    <3>3. ASSUME NEW m \in Present, last' < m, m \notin cand', NEW n \in cand'
          PROVE  n < m
      <4>1. last < m /\ m \notin cand
        BY <1>1, <3>1, <3>2, <3>3
      <4>. QED
        BY <3>1, <3>3, <4>1
    <3>. QED
      BY <2>1, <3>1, <3>3
  <2>. QED
    BY <1>4, <2>2, <2>3, <2>4, <2>5, <2>6, <2>7, <2>8 DEF WorkerStep
<1>. QED
  BY <1>2, <1>3, <1>4 DEF Next

\* The names of the chunks decoded so far, in their order.
TakenNames == [i \in 1..Len(decoded) |-> decoded[i].name]

\* Appending to the history appends to its names.
LEMMA TakenAppend ==
    ASSUME TypeInv, NEW n \in Nat, decoded' \in Seq(Entry), Len(decoded) \in Nat,
           Len(decoded') = Len(decoded) + 1,
           decoded'[Len(decoded) + 1].name = n,
           \A i \in 1..Len(decoded) : decoded'[i] = decoded[i]
    PROVE  TakenNames' = Append(TakenNames, n)
<1>1. decoded \in Seq(Entry)
  BY DEF TypeInv, TypeOK, Entry
<1>2. \A i \in 1..Len(decoded) : decoded[i].name \in Nat
  <2>1. \A i \in 1..Len(decoded) : decoded[i] \in Entry
    BY <1>1, ElementOfSeq
  <2>. QED
    BY <2>1 DEF Entry
<1>3. TakenNames \in Seq(Nat) /\ Len(TakenNames) = Len(decoded)
  BY <1>2 DEF TakenNames
<1>4. /\ Append(TakenNames, n) \in Seq(Nat)
      /\ Len(Append(TakenNames, n)) = Len(decoded) + 1
      /\ \A i \in 1..Len(decoded) : Append(TakenNames, n)[i] = TakenNames[i]
      /\ Append(TakenNames, n)[Len(decoded) + 1] = n
  BY <1>3, AppendProperties
<1>5. \A i \in 1..(Len(decoded) + 1) : TakenNames'[i] = Append(TakenNames, n)[i]
  <2>1. \A i \in 1..Len(decoded) : TakenNames'[i] = TakenNames[i]
    BY DEF TakenNames
  <2>2. TakenNames'[Len(decoded) + 1] = n
    BY DEF TakenNames
  <2>. QED
    BY <1>4, <2>1, <2>2
<1>6. TakenNames' \in Seq(Nat) /\ Len(TakenNames') = Len(decoded) + 1
  <2>1. \A i \in 1..Len(decoded') : decoded'[i].name \in Nat
    BY <1>2
  <2>. QED
    BY <2>1 DEF TakenNames
<1>. QED
  BY <1>4, <1>5, <1>6, SeqEqual

LEMMA FeedInit ==
    ASSUME Init
    PROVE  Feed!Init
<1>1. Present \in SUBSET Feed!Names
  BY PresentNames DEF Feed!Names
<1>2. [i \in 1..Len(decoded) |-> decoded[i].name] = <<>>
  <2>1. Len(decoded) = 0
    BY EmptySeq DEF Init
  <2>. QED
    BY <2>1
<1>3. (pc # "seed") = FALSE /\ skipped = {} /\ Cursor = Feed!Nothing
  BY DEF Init, Cursor, Nothing, Feed!Nothing
<1>. QED
  BY <1>1, <1>2, <1>3 DEF Feed!Init

\* Every step of the worker or of the capture is one of the feed, or none.
LEMMA FeedStep ==
    ASSUME TypeInv, OrderInv, FeedInv, [Next]_vars
    PROVE  [Feed!Next]_(Feed!vars)
<1>. USE DEF capture, local, history
<1>1. CASE BeginWrite
  <2>1. /\ Present' = Present \cup {label}
        /\ label \in Feed!Names
        /\ \/ pc = "seed"
           \/ label \in Present
           \/ \A n \in Present : n < label
           \/ \E m \in skipped : label < m
    BY <1>1, WritePresent DEF Names, Feed!Names
  <2>2. UNCHANGED <<pc, skipped, Cursor, decoded>>
    BY <1>1 DEF BeginWrite, Cursor
  <2>3. CASE label \in Present
    BY <2>1, <2>2, <2>3 DEF Feed!vars
  <2>4. CASE label \notin Present
    BY <2>1, <2>2, <2>4 DEF Feed!Next, Feed!Arrive
  <2>. QED
    BY <2>3, <2>4
<1>2. CASE SeedLast
  <2>1. /\ pc = "seed" /\ pc' = "check"
        /\ skipped' = Present
        /\ Present' = Present
        /\ last' = Seed(Present)
        /\ wav' = wav /\ wav = Nothing
        /\ decoded' = decoded
    BY <1>2 DEF SeedLast, OrderInv, Present
  <2>2. Cursor' = Feed!Seed(Present)
    BY <2>1 DEF Cursor, Seed, LastName, Nothing, Feed!Seed, Feed!LastName, Feed!Nothing
  <2>. QED
    BY <2>1, <2>2 DEF Feed!Next, Feed!Begin
<1>3. CASE Decode
  <2>1. PICK n \in cand, whole \in BOOLEAN :
            /\ ComesFirst(n, cand)
            /\ n \in Nat
            /\ wav' = n
            /\ decoded' \in Seq(Entry)
            /\ Len(decoded) \in Nat
            /\ Len(decoded') = Len(decoded) + 1
            /\ decoded'[Len(decoded) + 1].name = n
            /\ \A i \in 1..Len(decoded) : decoded'[i] = decoded[i]
    BY <1>3, DecodeAppends
  <2>2. /\ UNCHANGED <<dir, skipped, last, cand>>
        /\ pc = "sweep" /\ pc' = "deliver"
        /\ Present' = Present
    BY <1>3 DEF Decode, Present
  <2>3. Cursor = last /\ Cursor' = n /\ n > last
    BY <2>1, <2>2 DEF Cursor, FeedInv, OrderInv, TypeInv, TypeOK, Nothing
  <2>4. Feed!IsNext(n)
    <3>1. n \in Present
      BY <2>1 DEF FeedInv
    <3>2. ASSUME NEW m \in Present, m > last
          PROVE  n <= m
      <4>1. CASE m \in cand
        BY <2>1, <4>1 DEF ComesFirst
      <4>2. CASE m \notin cand
        <5>1. n < m
          BY <2>1, <2>2, <3>2, <4>2 DEF FeedInv, TypeInv, TypeOK
        <5>2. m \in Nat
          BY PresentNames
        <5>. QED
          BY <2>1, <5>1, <5>2
      <4>. QED
        BY <4>1, <4>2
    <3>. QED
      BY <2>3, <3>1, <3>2 DEF Feed!IsNext
  <2>5. TakenNames' = Append(TakenNames, n)
    BY <2>1, TakenAppend
  <2>6. n \in Present
    BY <2>1 DEF FeedInv
  <2>. QED
    BY <2>2, <2>3, <2>4, <2>5, <2>6 DEF Feed!Next, Feed!Take, TakenNames
<1>4. CASE EndWrite \/ SetStopEvent \/ CheckStop \/ Glob \/ Deliver
           \/ DeliverRaises \/ UNCHANGED vars
  <2>1. Present' = Present
    BY <1>4, WritePresent DEF SetStopEvent, CheckStop, Glob, Deliver, DeliverRaises,
                              vars, Present
  <2>2. UNCHANGED <<pc # "seed", skipped, Cursor, decoded>>
    BY <1>4 DEF EndWrite, SetStopEvent, CheckStop, Glob, Deliver, DeliverRaises,
                vars, Cursor, AfterVisit
  <2>. QED
    BY <2>1, <2>2 DEF Feed!vars
<1>5. CASE Advance
  <2>1. Present' = Present
    BY <1>5 DEF Advance, Present
  <2>2. Cursor' = Cursor /\ (pc' # "seed") = (pc # "seed") /\ UNCHANGED <<skipped, decoded>>
    <3>1. wav # Nothing
      BY <1>5 DEF Advance, OrderInv, ComesFirst, TypeInv, TypeOK, Nothing
    <3>. QED
      BY <1>5, <3>1 DEF Advance, Cursor, AfterVisit
  <2>. QED
    BY <2>1, <2>2 DEF Feed!vars
<1>. QED
  BY <1>1, <1>2, <1>3, <1>4, <1>5 DEF Next, WorkerStep

\* The worker is a feed: it skips what it found, and takes every later chunk
\* that follows those once, in order, passing none over.
THEOREM Refinement == Spec => FeedSpec
<1>1. Init => FeedInv /\ Feed!Init
  BY FeedInvInit, FeedInit
<1>2. TypeInv /\ OrderInv /\ FeedInv /\ [Next]_vars => FeedInv' /\ [Feed!Next]_(Feed!vars)
  BY FeedInvStep, FeedStep
<1>. QED
  BY <1>1, <1>2, Invariants, PTL DEF Spec, FeedSpec, Feed!Spec

F == INSTANCE ChunkFeedProofs
         WITH files <- Present, on <- pc # "seed", cursor <- Cursor,
              taken <- [i \in 1..Len(decoded) |-> decoded[i].name]

\* What the feed guarantees therefore holds of the worker: no sweep passes over
\* a chunk that follows what was there at the first look.
THEOREM NoneIsPassedOver == Spec => []NonePassedOver
<1>1. F!Spec => []F!NoneMissed
  BY F!NothingIsMissed, BoundsAssumption
<1>. USE DEF F!Names, Feed!Names, F!Nothing, Feed!Nothing
<1>2. Feed!Init => F!Init
  BY DEF Feed!Init, F!Init
<1>3. [Feed!Next]_(Feed!vars) => [F!Next]_(F!vars)
  <2>1. Feed!vars = F!vars /\ Feed!vars' = F!vars'
    BY DEF Feed!vars, F!vars
  <2>2. Feed!Arrive => F!Arrive
    BY DEF Feed!Arrive, F!Arrive
  <2>3. Feed!Begin => F!Begin
    BY DEF Feed!Begin, F!Begin, Feed!Seed, F!Seed, Feed!LastName, F!LastName
  <2>4. Feed!Take => F!Take
    BY DEF Feed!Take, F!Take, Feed!IsNext, F!IsNext
  <2>. QED
    BY <2>1, <2>2, <2>3, <2>4 DEF Feed!Next, F!Next
<1>4. F!NoneMissed => NonePassedOver
  BY DEF NonePassedOver, F!NoneMissed, Feed!NoneMissed, F!Taken, Feed!Taken
<1>. QED
  BY <1>1, <1>2, <1>3, <1>4, Refinement, PTL DEF FeedSpec, Feed!Spec, F!Spec
=============================================================================
