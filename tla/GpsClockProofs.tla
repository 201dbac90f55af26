--------------------------- MODULE GpsClockProofs ---------------------------
(***************************************************************************)
(* What holds of GpsClock.tla for any number of lines, polls and settings  *)
(* of the clock, and for a receiver that sends at any pace.                *)
(***************************************************************************)
EXTENDS GpsClock, WatchDirProofs, SequenceTheorems

\* What gpsd has sent and the thread has not looked at, oldest first.
Queue == buf \o wire

-----------------------------------------------------------------------------
(* Lemmas about the operators.                                             *)

\* The greatest of some numbers that none exceeds.
LEMMA MaxOfBounded ==
    ASSUME NEW n \in Nat, NEW S \in SUBSET Nat, S # {}, \A x \in S : x <= n
    PROVE  Max(S) \in S /\ \A x \in S : x <= Max(S)
<1>. DEFINE D == {n - x : x \in S}
<1>1. D \in SUBSET Nat /\ D # {}
  <2>1. \A x \in S : n - x \in Nat
    OBVIOUS
  <2>. QED
    BY <2>1
<1>2. PICK d \in D : \A e \in D : d <= e
  BY <1>1, LeastExists
<1>3. PICK m \in S : d = n - m
  BY <1>2
<1>4. ASSUME NEW x \in S
      PROVE  m >= x
  <2>1. n - x \in D
    OBVIOUS
  <2>2. n - m <= n - x
    BY <1>2, <1>3, <2>1
  <2>. QED
    BY <2>2
<1>5. Max(S) \in S /\ \A x \in S : Max(S) >= x
  BY <1>4, Zenon DEF Max
<1>. QED
  BY <1>5

\* The queue is a sequence of lines: those received, then those under way.
LEMMA QueueType ==
    ASSUME TypeOK
    PROVE  /\ Queue \in Seq(Line)
           /\ Len(Queue) = Len(buf) + Len(wire)
           /\ Len(Queue) \in Nat
           /\ \A i \in 1..Len(Queue) : Queue[i] \in Line
           /\ \A i \in 1..Len(Queue) : Queue[i].at \in Nat /\ Queue[i].kind \in Kinds
<1>1. Queue \in Seq(Line) /\ Len(Queue) = Len(buf) + Len(wire)
  BY ConcatProperties DEF TypeOK, Queue
<1>2. \A i \in 1..Len(Queue) : Queue[i] \in Line
  BY <1>1, ElementOfSeq
<1>3. \A l \in Line : l.at \in Nat /\ l.kind \in Kinds
  BY DEF Line
<1>4. Len(Queue) \in Nat
  BY <1>1, LenProperties
<1>. QED
  BY <1>1, <1>2, <1>3, <1>4

\* gpsd sends a line: it goes to the end of the queue.
LEMMA QueueGrows ==
    ASSUME TypeOK, NEW kind \in Kinds, Send(kind)
    PROVE  /\ wire' \in Seq(Line)
           /\ Len(Queue') = Len(Queue) + 1
           /\ \A i \in 1..Len(Queue) : Queue'[i] = Queue[i]
           /\ Queue'[Len(Queue) + 1] = [kind |-> kind, at |-> now]
<1>. DEFINE l == [kind |-> kind, at |-> now]
<1>1. l \in Line /\ buf \in Seq(Line) /\ wire \in Seq(Line)
  BY DEF TypeOK, Line
<1>2. buf' = buf /\ wire' = Append(wire, l)
  BY DEF Send
<1>. HIDE DEF l
<1>3. /\ Append(wire, l) \in Seq(Line)
      /\ Len(Append(wire, l)) = Len(wire) + 1
      /\ \A i \in 1..Len(wire) : Append(wire, l)[i] = wire[i]
      /\ Append(wire, l)[Len(wire) + 1] = l
  BY <1>1, AppendProperties
<1>4. Len(buf) \in Nat /\ Len(wire) \in Nat
  BY <1>1, LenProperties
<1>5. /\ Len(Queue) = Len(buf) + Len(wire)
      /\ \A i \in 1..Len(buf) + Len(wire) :
             Queue[i] = IF i <= Len(buf) THEN buf[i] ELSE wire[i - Len(buf)]
  BY <1>1, ConcatProperties DEF Queue
<1>6. /\ Len(Queue') = Len(buf) + Len(Append(wire, l))
      /\ \A i \in 1..Len(buf) + Len(Append(wire, l)) :
             Queue'[i] = IF i <= Len(buf) THEN buf[i] ELSE Append(wire, l)[i - Len(buf)]
  BY <1>1, <1>2, <1>3, ConcatProperties DEF Queue
<1>7. \A i \in 1..Len(Queue) : Queue'[i] = Queue[i]
  <2>1. SUFFICES ASSUME NEW i \in 1..Len(Queue) PROVE Queue'[i] = Queue[i]
    OBVIOUS
  <2>2. i \in 1..Len(buf) + Len(wire) /\ i \in 1..Len(buf) + Len(Append(wire, l))
    BY <1>3, <1>4, <1>5
  <2>3. i <= Len(buf) \/ i - Len(buf) \in 1..Len(wire)
    BY <1>4, <2>2
  <2>4. /\ Queue[i] = IF i <= Len(buf) THEN buf[i] ELSE wire[i - Len(buf)]
        /\ Queue'[i] = IF i <= Len(buf) THEN buf[i] ELSE Append(wire, l)[i - Len(buf)]
    BY <1>5, <1>6, <2>2
  <2>. QED
    BY <1>3, <2>3, <2>4
<1>8. Queue'[Len(Queue) + 1] = l
  BY <1>3, <1>4, <1>5, <1>6
<1>. QED
  BY <1>2, <1>3, <1>4, <1>5, <1>6, <1>7, <1>8 DEF l

\* recv() moves lines to the buffer: the queue is the same.
LEMMA QueueReceived ==
    ASSUME TypeOK, Receive
    PROVE  wire' \in Seq(Line) /\ buf' \in Seq(Line) /\ Queue' = Queue
<1>1. PICK n \in 1..Len(wire) :
          buf' = SubSeq(wire, 1, n) /\ wire' = SubSeq(wire, n + 1, Len(wire))
  BY DEF Receive
<1>2. wire \in Seq(Line) /\ Len(wire) \in Nat /\ \A i \in 1..Len(wire) : wire[i] \in Line
  BY LenProperties, ElementOfSeq DEF TypeOK
<1>3. buf' \in Seq(Line)
  <2>1. \A i \in 1..n : wire[i] \in Line
    BY <1>2
  <2>. QED
    BY <1>1, <1>2, <2>1, SubSeqProperties
<1>4. wire' \in Seq(Line)
  <2>1. \A i \in (n + 1)..Len(wire) : wire[i] \in Line
    BY <1>2
  <2>. QED
    BY <1>1, <1>2, <2>1, SubSeqProperties
<1>5. SubSeq(wire, 1, n) \o SubSeq(wire, n + 1, Len(wire)) = SubSeq(wire, 1, Len(wire))
  BY <1>2, ConcatAdjacentSubSeq
<1>6. SubSeq(wire, 1, Len(wire)) = wire
  BY <1>2, SubSeqFull
<1>7. Queue = wire
  BY <1>2, ConcatEmptySeq DEF Receive, Queue
<1>. QED
  BY <1>1, <1>3, <1>4, <1>5, <1>6, <1>7 DEF Queue

\* A line is taken from the head of the queue.
LEMMA QueueTaken ==
    ASSUME TypeOK, TakeLine
    PROVE  /\ buf' \in Seq(Line)
           /\ Len(Queue) >= 1
           /\ Head(buf) = Queue[1]
           /\ Len(Queue') = Len(Queue) - 1
           /\ \A i \in 1..Len(Queue) - 1 : Queue'[i] = Queue[i + 1]
<1>1. buf \in Seq(Line) /\ buf # <<>> /\ wire \in Seq(Line)
      /\ buf' = Tail(buf) /\ wire' = wire
  BY DEF TypeOK, TakeLine
<1>2. /\ Tail(buf) \in Seq(Line)
      /\ Len(Tail(buf)) = Len(buf) - 1
      /\ \A i \in 1..Len(Tail(buf)) : Tail(buf)[i] = buf[i + 1]
  BY <1>1, HeadTailProperties
<1>3. Len(buf) \in Nat /\ Len(buf) >= 1 /\ Len(wire) \in Nat
  BY <1>1, EmptySeq, LenProperties
<1>4. Head(buf) = buf[1]
  BY <1>1
<1>5. /\ Len(Queue) = Len(buf) + Len(wire)
      /\ \A i \in 1..Len(buf) + Len(wire) :
             Queue[i] = IF i <= Len(buf) THEN buf[i] ELSE wire[i - Len(buf)]
  BY <1>1, ConcatProperties DEF Queue
<1>6. /\ Len(Queue') = Len(Tail(buf)) + Len(wire)
      /\ \A i \in 1..Len(Tail(buf)) + Len(wire) :
             Queue'[i] = IF i <= Len(Tail(buf)) THEN Tail(buf)[i]
                         ELSE wire[i - Len(Tail(buf))]
  BY <1>1, <1>2, ConcatProperties DEF Queue
<1>7. \A i \in 1..Len(Queue) - 1 : Queue'[i] = Queue[i + 1]
  BY <1>2, <1>3, <1>5, <1>6
<1>. QED
  BY <1>1, <1>2, <1>3, <1>4, <1>5, <1>6, <1>7

-----------------------------------------------------------------------------
(* The types, and the order of the lines.                                  *)

\* Lines are handled in the order they were sent in, none from the future:
\* the report in hand is older than all that wait.
InOrder ==
    /\ \A i \in 1..Len(Queue) : Queue[i].at <= now
    /\ \A i, j \in 1..Len(Queue) : i <= j => Queue[i].at <= Queue[j].at
    /\ latest # None => /\ latest.at <= now
                        /\ \A i \in 1..Len(Queue) : latest.at <= Queue[i].at
    /\ floor <= began /\ began <= now

\* Before anything has been sent, all is in order.
LEMMA OrderInit == Init => TypeOK /\ InOrder
<1>. SUFFICES ASSUME Init PROVE TypeOK /\ InOrder
  OBVIOUS
<1>1. Queue = <<>> /\ Len(Queue) = 0
  BY EmptySeq, ConcatEmptySeq DEF Init, Queue
<1>2. wire \in Seq(Line) /\ buf \in Seq(Line)
  BY EmptySeq DEF Init
<1>3. pc \in {"idle", "noclock", "nodaemon"}
  BY DEF Init
<1>4. TypeOK
  <2>1. open \in BOOLEAN
    BY Zenon DEF Init
  <2>2. /\ now = 0 /\ skew \in Skews /\ gpsdUp \in BOOLEAN /\ latest = None
        /\ offset = None /\ stopEvent = FALSE /\ burst = 0 /\ misc = 0
        /\ began = 0 /\ floor = 0 /\ took = 0 /\ aged = 0 /\ stepped = FALSE
    BY Zenon DEF Init
  <2>3. pc # "use"
    BY <1>3
  <2>. QED
    <3>1. pc \in {"noclock", "nodaemon", "idle", "drain", "block", "use", "ended"} \cup Deaths
      BY <1>3
    <3>2. {began, floor, took, aged} \subseteq Nat /\ burst \in Nat /\ misc \in Nat /\ now \in Nat
      BY <2>2
    <3>3. offset \in Int \cup {None} /\ latest \in Line \cup {None}
      BY <2>2
    <3>4. stopEvent \in BOOLEAN /\ stepped \in BOOLEAN
      BY <2>2
    <3>. QED
      BY <1>2, <2>1, <2>2, <2>3, <3>1, <3>2, <3>3, <3>4, Zenon DEF TypeOK
<1>5. \A i : i \notin 1..Len(Queue)
  BY <1>1
<1>6. InOrder
  BY <1>5 DEF Init, InOrder
<1>. QED
  BY <1>4, <1>6

\* A line gpsd sends is the newest of all.
LEMMA OrderSend ==
    ASSUME TypeOK, InOrder, NEW kind \in Kinds, Send(kind), misc' \in Nat
    PROVE  TypeOK' /\ InOrder'
<1>. USE DEF Send, world, thread, history
<1>1. /\ wire' \in Seq(Line)
      /\ Len(Queue') = Len(Queue) + 1
      /\ \A i \in 1..Len(Queue) : Queue'[i] = Queue[i]
      /\ Queue'[Len(Queue) + 1] = [kind |-> kind, at |-> now]
  BY QueueGrows
<1>2. Len(Queue) \in Nat /\ \A i \in 1..Len(Queue) : Queue[i].at \in Nat
  BY QueueType
<1>3. latest # None => latest.at \in Nat
  BY DEF TypeOK, Line
<1>4. TypeOK'
  BY <1>1 DEF TypeOK
<1>5. Queue'[Len(Queue) + 1].at = now
  BY <1>1
<1>6. \A i \in 1..Len(Queue') : i \in 1..Len(Queue) \/ i = Len(Queue) + 1
  <2>1. \A m, n \in Nat : n = m + 1 => \A i \in 1..n : i \in 1..m \/ i = m + 1
    OBVIOUS
  <2>2. Len(Queue') = Len(Queue) + 1 /\ Len(Queue') \in Nat
    BY <1>1, <1>2
  <2>. QED
    BY <1>2, <2>1, <2>2, Zenon
<1>7. \A i \in 1..Len(Queue') : Queue'[i].at <= now
  <2>1. \A i \in 1..Len(Queue) : Queue'[i].at <= now
    BY <1>1 DEF InOrder
  <2>2. now <= now
    BY DEF TypeOK
  <2>. QED
    BY <1>5, <1>6, <2>1, <2>2
<1>8. \A i, j \in 1..Len(Queue') : i <= j => Queue'[i].at <= Queue'[j].at
  <2>1. SUFFICES ASSUME NEW i \in 1..Len(Queue'), NEW j \in 1..Len(Queue'), i <= j
                 PROVE  Queue'[i].at <= Queue'[j].at
    OBVIOUS
  <2>2. CASE j = Len(Queue) + 1
    BY <1>5, <1>7, <2>2
  <2>3. CASE j \in 1..Len(Queue)
    <3>1. i \in 1..Len(Queue)
      BY <1>2, <2>1, <2>3, <1>6
    <3>. QED
      BY <1>1, <2>1, <2>3, <3>1 DEF InOrder
  <2>. QED
    BY <1>6, <2>2, <2>3
<1>9. latest # None => \A i \in 1..Len(Queue') : latest.at <= Queue'[i].at
  BY <1>1, <1>5, <1>6 DEF InOrder
<1>. QED
  BY <1>4, <1>7, <1>8, <1>9 DEF InOrder

\* The head of the queue is older than what is behind it.
LEMMA OrderTake ==
    ASSUME TypeOK, InOrder, TakeLine
    PROVE  TypeOK' /\ InOrder'
<1>. USE DEF TakeLine, world, gpsd, history
<1>1. /\ buf' \in Seq(Line)
      /\ Len(Queue) >= 1
      /\ Head(buf) = Queue[1]
      /\ Len(Queue') = Len(Queue) - 1
      /\ \A i \in 1..Len(Queue) - 1 : Queue'[i] = Queue[i + 1]
  BY QueueTaken
<1>2. Len(Queue) \in Nat /\ \A i \in 1..Len(Queue) : Queue[i] \in Line /\ Queue[i].at \in Nat
  BY QueueType
<1>3. 1 \in 1..Len(Queue) /\ Head(buf) \in Line
  BY <1>1, <1>2
<1>4. TypeOK'
  <2>1. latest' \in Line \cup {None} /\ (pc' = "use" => latest' # None)
    BY <1>3, NoneAssumption DEF TypeOK, AfterReport
  <2>2. pc' \in {"idle", "use", "drain", "noobject", pc}
    BY DEF AfterReport
  <2>. QED
    BY <1>1, <2>1, <2>2 DEF TypeOK, Deaths
<1>5. \A i \in 1..Len(Queue') : i + 1 \in 1..Len(Queue) /\ 1 <= i + 1 /\ Queue'[i] = Queue[i + 1]
  BY <1>1, <1>2
<1>6. latest' = latest \/ latest' = Head(buf)
  OBVIOUS
<1>7. \A i \in 1..Len(Queue') : Queue'[i].at <= now
  BY <1>5 DEF InOrder
<1>8. \A i, j \in 1..Len(Queue') : i <= j => Queue'[i].at <= Queue'[j].at
  <2>1. SUFFICES ASSUME NEW i \in 1..Len(Queue'), NEW j \in 1..Len(Queue'), i <= j
                 PROVE  Queue'[i].at <= Queue'[j].at
    OBVIOUS
  <2>2. i + 1 <= j + 1 /\ i + 1 \in 1..Len(Queue) /\ j + 1 \in 1..Len(Queue)
    BY <1>1, <1>2, <2>1
  <2>3. Queue[i + 1].at <= Queue[j + 1].at
    BY <2>2 DEF InOrder
  <2>. QED
    BY <1>5, <2>3
<1>9. latest' # None => latest'.at <= now
  BY <1>1, <1>3, <1>6 DEF InOrder
<1>10. latest' # None => \A i \in 1..Len(Queue') : latest'.at <= Queue'[i].at
  <2>1. CASE latest' = latest
    BY <1>5, <2>1 DEF InOrder
  <2>2. CASE latest' = Head(buf)
    BY <1>1, <1>3, <1>5, <2>2 DEF InOrder
  <2>. QED
    BY <1>6, <2>1, <2>2
<1>. QED
  BY <1>4, <1>7, <1>8, <1>9, <1>10 DEF InOrder

\* What a poll that begins may not miss is the newest report there is.
LEMMA FloorChosen ==
    ASSUME TypeOK, InOrder, BeginPoll
    PROVE  /\ floor' \in Nat /\ floor' <= now
           /\ \/ /\ floor' = now
                 /\ \A i \in 1..Len(Queue) : Queue[i].kind \notin TPV
              \/ \E i \in 1..Len(Queue) : Queue[i].kind \in TPV /\ Queue[i].at = floor'
<1>. DEFINE queued == {l.at : l \in Reports(Queue)}
<1>1. floor' = IF queued = {} THEN now ELSE Max(queued)
  BY Zenon DEF BeginPoll, Queue
<1>2. Len(Queue) \in Nat /\ \A i \in 1..Len(Queue) : Queue[i].at \in Nat
  BY QueueType
<1>3. now \in Nat
  BY DEF TypeOK
<1>4. CASE queued = {}
  <2>1. \A i \in 1..Len(Queue) : Queue[i].kind \notin TPV
    BY <1>4 DEF Reports
  <2>. QED
    BY <1>1, <1>3, <1>4, <2>1
<1>5. CASE queued # {}
  <2>1. \A a \in queued : \E i \in 1..Len(Queue) : Queue[i].kind \in TPV /\ Queue[i].at = a
    BY DEF Reports
  <2>2. queued \in SUBSET Nat /\ \A a \in queued : a <= now
    BY <1>2, <2>1 DEF InOrder
  <2>3. Max(queued) \in queued
    BY <1>3, <1>5, <2>2, MaxOfBounded
  <2>. HIDE DEF queued
  <2>. QED
    BY <1>1, <1>5, <2>1, <2>2, <2>3
<1>. QED
  BY <1>4, <1>5

LEMMA OrderStep ==
    ASSUME TypeOK, InOrder, [Next]_vars
    PROVE  TypeOK' /\ InOrder'
<1>. USE DEF world, gpsd, thread, history
<1>1. Len(Queue) \in Nat /\ \A i \in 1..Len(Queue) : Queue[i].at \in Nat
  BY QueueType
<1>2. CASE UNCHANGED vars
  <2>1. Queue' = Queue
    BY <1>2 DEF vars, Queue
  <2>2. TypeOK'
    BY <1>2 DEF vars, TypeOK
  <2>. QED
    BY <1>2, <2>1, <2>2 DEF vars, InOrder
<1>3. CASE Tick
  <2>1. Queue' = Queue /\ latest' = latest /\ floor' = floor /\ began' = began /\ now' = now + 1
    BY <1>3 DEF Tick, Queue
  <2>2. TypeOK'
    BY <1>3 DEF Tick, TypeOK
  <2>3. /\ now \in Nat /\ began \in Nat /\ floor \in Nat
        /\ latest # None => latest.at \in Nat
    BY DEF TypeOK, Line
  <2>4. \A n \in Nat : n <= now => n <= now'
    BY <2>1, <2>3
  <2>5. floor' <= began' /\ began' <= now' /\ (latest' # None => latest'.at <= now')
    BY <2>1, <2>3, <2>4 DEF InOrder
  <2>6. \A i \in 1..Len(Queue') : Queue'[i].at <= now'
    BY <1>1, <2>1, <2>4 DEF InOrder
  <2>. QED
    BY <2>1, <2>2, <2>5, <2>6 DEF InOrder
<1>4. CASE SetClock \/ GpsdGoes \/ GpsdReturns \/ SetStopEvent
  <2>1. TypeOK'
    BY <1>4 DEF SetClock, GpsdGoes, GpsdReturns, SetStopEvent, TypeOK
  <2>2. Queue' = Queue /\ UNCHANGED <<now, latest, began, floor>>
    BY <1>4 DEF SetClock, GpsdGoes, GpsdReturns, SetStopEvent, Queue
  <2>. QED
    BY <2>1, <2>2 DEF InOrder
<1>5. CASE SendFix
  <2>1. Send("fix") /\ misc' \in Nat /\ "fix" \in Kinds
    BY <1>5 DEF SendFix, TypeOK, Kinds, TPV
  <2>. QED
    BY <2>1, OrderSend
<1>6. CASE SendMisc
  <2>1. PICK kind \in Kinds : Send(kind)
    BY <1>6 DEF SendMisc
  <2>2. misc' \in Nat
    BY <1>6 DEF SendMisc, TypeOK
  <2>. QED
    BY <2>1, <2>2, OrderSend
<1>7. CASE BeginPoll
  <2>1. floor' \in Nat /\ floor' <= now
    BY <1>7, FloorChosen
  <2>2. /\ Queue' = Queue /\ latest' = None
        /\ now' = now /\ pc' \in {"ended", "drain"} /\ burst' = 0
        /\ began' = now /\ now \in Nat /\ now <= now
        /\ UNCHANGED <<world, gpsd, wire, buf, offset, took, aged, stopEvent>>
    <3>1. now \in Nat /\ now <= now
      BY DEF TypeOK
    <3>. QED
      BY <1>7, <3>1, Zenon DEF BeginPoll, Queue, world
  <2>3. TypeOK'
    BY <2>1, <2>2 DEF TypeOK
  <2>. QED
    BY <2>1, <2>2, <2>3 DEF InOrder
<1>8. CASE Receive
  <2>1. wire' \in Seq(Line) /\ buf' \in Seq(Line) /\ Queue' = Queue
    BY <1>8, QueueReceived
  <2>2. TypeOK'
    BY <1>8, <2>1 DEF Receive, TypeOK
  <2>. QED
    BY <1>8, <2>1, <2>2 DEF Receive, InOrder
<1>9. CASE TakeLine
  BY <1>9, OrderTake
<1>10. CASE DrainEnds \/ Closed \/ TimesOut \/ NoFix \/ ParseRaises
  <2>1. TypeOK'
    BY <1>10 DEF DrainEnds, AfterDrain, Closed, TimesOut, AfterError, NoFix,
                 ParseRaises, Deaths, TypeOK
  <2>2. Queue' = Queue /\ UNCHANGED <<now, latest, began, floor>>
    BY <1>10 DEF DrainEnds, Closed, TimesOut, NoFix, ParseRaises, Queue
  <2>. QED
    BY <2>1, <2>2 DEF InOrder
<1>11. CASE UseFix
  <2>1. took' \in Nat /\ aged' \in Nat
    BY <1>11 DEF UseFix, TypeOK, InOrder
  <2>2. offset' \in Int
    <3>1. latest.at \in Int /\ now \in Int /\ skew \in Int
      BY <1>11, SkewsAssumption DEF UseFix, TypeOK, Line
    <3>. QED
      BY <1>11, <3>1 DEF UseFix, StatedTime
  <2>3. TypeOK'
    BY <1>11, <2>1, <2>2 DEF UseFix, TypeOK
  <2>4. Queue' = Queue /\ UNCHANGED <<now, latest, began, floor>>
    BY <1>11 DEF UseFix, Queue
  <2>. QED
    BY <2>3, <2>4 DEF InOrder
<1>. QED
  BY <1>2, <1>3, <1>4, <1>5, <1>6, <1>7, <1>8, <1>9, <1>10, <1>11 DEF Next, PollStep

\* The variables keep their types; that the poll's duration and the age of what
\* it found waiting are no negative numbers rests on the order of the lines.
THEOREM TypeCorrect == Spec => []TypeOK
<1>1. Init => TypeOK /\ InOrder
  BY OrderInit
<1>2. TypeOK /\ InOrder /\ [Next]_vars => (TypeOK /\ InOrder)'
  BY OrderStep
<1>. QED
  BY <1>1, <1>2, PTL DEF Spec

-----------------------------------------------------------------------------
(* How old the report next() returns may be.                               *)

\* Every report that waits is as recent as the poll asks for; one of them is.
NewOnly == \A i \in 1..Len(Queue) : Queue[i].kind \in TPV => Queue[i].at >= floor
NewIn == \E i \in 1..Len(Queue) : Queue[i].kind \in TPV /\ Queue[i].at >= floor

\* A drain has found a recent report, or will, or there is none to find; the
\* wait that follows an empty drain gets a recent one, and so does its caller.
FloorInv ==
    /\ pc = "drain" => \/ latest # None /\ latest.at >= floor
                       \/ NewIn
                       \/ latest = None /\ NewOnly
    /\ pc = "block" => latest = None /\ NewOnly
    /\ pc = "use" => latest # None /\ latest.at >= floor

\* A line that is sent is recent.
LEMMA FloorSend ==
    ASSUME TypeOK, InOrder, FloorInv, NEW kind \in Kinds, Send(kind)
    PROVE  FloorInv'
<1>1. /\ Len(Queue') = Len(Queue) + 1
      /\ \A i \in 1..Len(Queue) : Queue'[i] = Queue[i]
      /\ Queue'[Len(Queue) + 1] = [kind |-> kind, at |-> now]
      /\ Queue'[Len(Queue) + 1].at = now
  <2>1. [kind |-> kind, at |-> now].at = now
    OBVIOUS
  <2>. QED
    BY <2>1, QueueGrows, Zenon
<1>2. Len(Queue) \in Nat
  BY QueueType
<1>3. UNCHANGED <<pc, latest, floor, now>>
  BY DEF Send, world, thread, history
<1>4. now >= floor
  BY DEF TypeOK, InOrder
<1>5. \A i \in 1..Len(Queue') : i \in 1..Len(Queue) \/ i = Len(Queue) + 1
  BY <1>1, <1>2
<1>6. NewOnly => NewOnly'
  BY <1>1, <1>3, <1>4, <1>5 DEF NewOnly
<1>7. NewIn => NewIn'
  <2>1. \A i \in 1..Len(Queue) : i \in 1..Len(Queue')
    BY <1>1, <1>2
  <2>. QED
    BY <1>1, <1>3, <2>1 DEF NewIn
<1>. QED
  BY <1>3, <1>6, <1>7 DEF FloorInv

\* The report taken is recent, or a recent one is still to come.
LEMMA FloorTake ==
    ASSUME TypeOK, InOrder, FloorInv, TakeLine
    PROVE  FloorInv'
<1>1. /\ Len(Queue) >= 1
      /\ Head(buf) = Queue[1]
      /\ Len(Queue') = Len(Queue) - 1
      /\ \A i \in 1..Len(Queue) - 1 : Queue'[i] = Queue[i + 1]
  BY QueueTaken
<1>2. Len(Queue) \in Nat /\ 1 \in 1..Len(Queue)
      /\ \A i \in 1..Len(Queue) : Queue[i] \in Line /\ Queue[i].at \in Nat
  BY <1>1, QueueType
<1>3. \A i \in 1..Len(Queue') : i + 1 \in 1..Len(Queue) /\ Queue'[i] = Queue[i + 1]
  BY <1>1, <1>2
<1>4. floor' = floor /\ floor \in Nat /\ pc \in {"drain", "block"}
  BY DEF TakeLine, TypeOK, history
<1>5. Queue[1] # None
  BY <1>2, NoneAssumption
<1>6. NewOnly => NewOnly'
  BY <1>3, <1>4 DEF NewOnly
<1>7. NewIn => NewIn' \/ (Queue[1].kind \in TPV /\ Queue[1].at >= floor)
  <2>1. SUFFICES ASSUME NEW i \in 1..Len(Queue), Queue[i].kind \in TPV, Queue[i].at >= floor,
                        i # 1
                 PROVE  NewIn'
    BY DEF NewIn
  <2>2. i - 1 \in 1..Len(Queue') /\ Queue'[i - 1] = Queue[i]
    BY <1>1, <1>2, <2>1
  <2>. QED
    BY <1>4, <2>1, <2>2 DEF NewIn
<1>8. CASE Queue[1].kind = "garbled"
  BY <1>1, <1>8 DEF TakeLine, FloorInv, TPV
<1>9. CASE Queue[1].kind \in TPV
  <2>1. latest' = Queue[1] /\ latest' # None
    BY <1>1, <1>5, <1>9 DEF TakeLine, TPV
  <2>2. CASE pc = "block"
    <3>1. pc' = "use" /\ Queue[1].at >= floor
      BY <1>1, <1>2, <1>9, <2>2 DEF TakeLine, TPV, FloorInv, NewOnly
    <3>. QED
      BY <1>4, <2>1, <3>1 DEF FloorInv
  <2>3. CASE pc = "drain"
    <3>1. pc' = "drain"
      BY <1>1, <1>9, <2>3 DEF TakeLine, TPV, AfterReport
    <3>2. latest # None => latest.at <= Queue[1].at /\ latest.at \in Nat
      BY <1>2 DEF InOrder, TypeOK, Line
    <3>3. Queue[1].at >= floor \/ NewIn'
      <4>1. CASE latest # None /\ latest.at >= floor
        BY <1>2, <1>4, <3>2, <4>1
      <4>2. CASE NewIn
        BY <1>7, <4>2
      <4>3. CASE latest = None /\ NewOnly
        BY <1>2, <1>9, <4>3 DEF NewOnly
      <4>. QED
        BY <2>3, <4>1, <4>2, <4>3 DEF FloorInv
    <3>. QED
      BY <1>4, <2>1, <3>1, <3>3 DEF FloorInv
  <2>. QED
    BY <1>4, <2>2, <2>3
<1>10. CASE Queue[1].kind = "sky"
  <2>1. pc' = pc /\ latest' = latest
    BY <1>1, <1>10 DEF TakeLine, TPV
  <2>2. NewIn => NewIn'
    BY <1>7, <1>10 DEF TPV
  <2>. QED
    BY <1>4, <1>6, <2>1, <2>2 DEF FloorInv
<1>11. CASE Queue[1].kind = "odd"
  BY <1>1, <1>11 DEF TakeLine, FloorInv, TPV
<1>. QED
  BY <1>1, <1>8, <1>9, <1>10, <1>11 DEF TakeLine

LEMMA FloorStep ==
    ASSUME TypeOK, InOrder, FloorInv, [Next]_vars
    PROVE  FloorInv'
<1>. USE DEF world, gpsd, thread, history
<1>1. CASE UNCHANGED vars
  BY <1>1 DEF vars, FloorInv, NewOnly, NewIn, Queue
<1>2. CASE Tick \/ SetClock \/ GpsdGoes \/ GpsdReturns \/ SetStopEvent
  <2>1. Queue' = Queue /\ UNCHANGED <<pc, latest, floor>>
    BY <1>2 DEF Tick, SetClock, GpsdGoes, GpsdReturns, SetStopEvent, Queue
  <2>. QED
    BY <2>1 DEF FloorInv, NewOnly, NewIn
<1>3. CASE SendFix \/ SendMisc
  <2>1. \E kind \in Kinds : Send(kind)
    BY <1>3 DEF SendFix, SendMisc, Kinds, TPV
  <2>. QED
    BY <2>1, FloorSend
<1>4. CASE BeginPoll
  <2>1. /\ \/ \A i \in 1..Len(Queue) : Queue[i].kind \notin TPV
           \/ \E i \in 1..Len(Queue) : Queue[i].kind \in TPV /\ Queue[i].at = floor'
        /\ floor' \in Nat
    BY <1>4, FloorChosen
  <2>2. Queue' = Queue /\ latest' = None /\ pc' \in {"ended", "drain"}
    BY <1>4, Zenon DEF BeginPoll, Queue
  <2>3. NewIn' \/ NewOnly'
    BY <2>1, <2>2 DEF NewIn, NewOnly
  <2>. QED
    BY <2>2, <2>3 DEF FloorInv
<1>5. CASE Receive
  <2>1. Queue' = Queue /\ UNCHANGED <<pc, latest, floor>>
    BY <1>5, QueueReceived DEF Receive
  <2>. QED
    BY <2>1 DEF FloorInv, NewOnly, NewIn
<1>6. CASE TakeLine
  BY <1>6, FloorTake
<1>7. CASE DrainEnds
  <2>1. Queue = <<>> /\ Queue' = Queue /\ UNCHANGED <<latest, floor>>
    BY <1>7, EmptySeq, ConcatEmptySeq DEF DrainEnds, Queue
  <2>2. Len(Queue) = 0
    BY <2>1, EmptySeq
  <2>3. ~NewIn /\ NewOnly'
    BY <2>1, <2>2 DEF NewIn, NewOnly
  <2>4. latest # None => latest.at >= floor
    BY <1>7, <2>3 DEF DrainEnds, FloorInv
  <2>. QED
    BY <1>7, <2>1, <2>3, <2>4 DEF DrainEnds, AfterDrain, FloorInv
<1>8. CASE Closed \/ TimesOut \/ NoFix \/ ParseRaises \/ UseFix
  BY <1>8 DEF Closed, TimesOut, AfterError, NoFix, ParseRaises, UseFix, FloorInv
<1>. QED
  BY <1>1, <1>2, <1>3, <1>4, <1>5, <1>6, <1>7, <1>8 DEF Next, PollStep

\* next() returns nothing older than what was waiting when it was called,
\* however many lines had piled up and whatever gpsd sends meanwhile.
THEOREM NoneIsStale == Spec => []NeverStale
<1>1. Init => TypeOK /\ InOrder /\ FloorInv
  BY OrderInit DEF Init, FloorInv
<1>2. TypeOK /\ InOrder /\ FloorInv /\ [Next]_vars => (TypeOK /\ InOrder /\ FloorInv)'
  BY OrderStep, FloorStep
<1>3. FloorInv => NeverStale
  BY DEF FloorInv, NeverStale
<1>. QED
  BY <1>1, <1>2, <1>3, PTL DEF Spec

-----------------------------------------------------------------------------
(* How far timestamp() can be from the true time.                          *)

\* While the system clock is left alone, it and the offset make up a time
\* that is not ahead, and behind by what the last successful poll took and the
\* age of what it found waiting.
OffsetInv ==
    offset # None /\ ~stepped => offset + skew <= 0 /\ -(offset + skew) <= took + aged

LEMMA OffsetStep ==
    ASSUME TypeOK, InOrder, FloorInv, OffsetInv, [Next]_vars
    PROVE  OffsetInv'
<1>. USE DEF world, gpsd, thread, history
<1>1. CASE UseFix
  <2>1. /\ latest.at \in Nat /\ now \in Nat /\ began \in Nat /\ floor \in Nat /\ skew \in Int
        /\ latest.at <= now /\ latest.at >= floor
    BY <1>1, SkewsAssumption DEF UseFix, TypeOK, InOrder, FloorInv, Line
  <2>2. offset' = latest.at - (now + skew) /\ skew' = skew /\ took' = now - began
        /\ aged' = began - floor
    BY <1>1 DEF UseFix, Usable, StatedTime
  <2>3. offset' + skew' = latest.at - now
    BY <2>1, <2>2
  <2>4. offset' + skew' <= 0 /\ -(offset' + skew') <= took' + aged'
    BY <2>1, <2>2, <2>3
  <2>. QED
    BY <2>4 DEF OffsetInv
<1>2. CASE SetClock
  BY <1>2 DEF SetClock, OffsetInv
<1>3. CASE UNCHANGED <<offset, skew, took, aged, stepped>>
  BY <1>3 DEF OffsetInv
<1>. QED
  BY <1>1, <1>2, <1>3 DEF Next, PollStep, vars, Tick, SendFix, SendMisc, Send,
     GpsdGoes, GpsdReturns, SetStopEvent, BeginPoll, Receive, TakeLine, DrainEnds,
     Closed, TimesOut, NoFix, ParseRaises

\* Whatever is sent and lost, timestamp() is not ahead of the true time, and
\* behind by no more than the last successful poll took and the age that the
\* newest report waiting at its start had then.
THEOREM TimestampIsWithin == Spec => []TimestampWithin
<1>1. Init => TypeOK /\ InOrder /\ FloorInv /\ OffsetInv
  BY OrderInit DEF Init, FloorInv, OffsetInv
<1>2. TypeOK /\ InOrder /\ FloorInv /\ OffsetInv /\ [Next]_vars
          => (TypeOK /\ InOrder /\ FloorInv /\ OffsetInv)'
  BY OrderStep, FloorStep, OffsetStep
<1>3. TypeOK /\ OffsetInv => TimestampWithin
  <2>1. SUFFICES ASSUME TypeOK, OffsetInv, offset # None, ~stepped
                 PROVE  timestamp <= now /\ now - timestamp <= took + aged
    BY DEF TimestampWithin
  <2>2. now \in Int /\ skew \in Int /\ offset \in Int /\ took \in Int /\ aged \in Int
    BY <2>1, SkewsAssumption DEF TypeOK
  <2>3. timestamp = now + skew + offset
    BY <2>1 DEF timestamp
  <2>4. offset + skew <= 0 /\ -(offset + skew) <= took + aged
    BY <2>1 DEF OffsetInv
  <2>. QED
    BY <2>2, <2>3, <2>4
<1>. QED
  BY <1>1, <1>2, <1>3, PTL DEF Spec
=============================================================================
