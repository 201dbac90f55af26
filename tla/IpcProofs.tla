----------------------------- MODULE IpcProofs -----------------------------
(***************************************************************************)
(* What holds of Ipc.tla for any number of clients, whatever they send,    *)
(* of workers, sessions and spots, and for sockets of any size.            *)
(***************************************************************************)
EXTENDS Ipc, WatchDirProofs, FiniteSetTheorems, SequenceTheorems

USE DEF Clients

-----------------------------------------------------------------------------
(* The invariants.                                                         *)

Piece == [part : {"head", "tail"}, line : Events]

\* The connection that a worker is at in its broadcast.
Turn(w) == Recipients(w)[news[w].next]

\* Nobody handles a connection before there is one.
AwayInv == \A c \in Clients : peer[c] = "away" => pc[c] = "away"

\* client.lock is held by the thread that is in sendall(), and for certain by
\* one that is between the two pieces of a line.
Sends(w, c) == ~Done(w) /\ Turn(w) = c
HeldInv ==
    \A c \in Clients :
        /\ writer[c] \in {c, NoOne} \cup Workers
        /\ writer[c] = c => pc[c] \in {"send", "rest"}
        /\ pc[c] = "rest" => writer[c] = c
        /\ \A w \in Workers :
               /\ writer[c] = w => news[w].at \in {"send", "rest"} /\ Sends(w, c)
               /\ news[w].at = "rest" /\ Sends(w, c) => writer[c] = w

\* What the client has not got whole lines of, and the line its next piece is of.
Pieces(c) == buf[c] \o stream[c]
InFlight(c) == IF writer[c] = c THEN reply[c] ELSE SpotEvent(news[writer[c]].spot)

Whole(s) ==
    \A i \in 1..Len(s) :
        /\ s[i].part = IF i % 2 = 1 THEN "head" ELSE "tail"
        /\ i % 2 = 0 => s[i].line = s[i - 1].line

\* A line stands half in a connection just when somebody is between its two
\* pieces, and then it is that thread's line.
HalfSent(c) ==
    \/ writer[c] = c /\ pc[c] = "rest"
    \/ writer[c] \in Workers /\ news[writer[c]].at = "rest"
PiecesFit(c) ==
    /\ Whole(Pieces(c))
    /\ peer[c] # "gone" =>
           /\ Len(Pieces(c)) % 2 = 1 <=> HalfSent(c)
           /\ HalfSent(c) => Last(Pieces(c)).line = InFlight(c)
PieceInv == \A c \in Clients : PiecesFit(c)

\* Who listens has a session, but for a listening that is inherited, and so
\* says every status that is on its way.
NumberedInv ==
    (listening /\ ~inherited) \/ phase \in {"count", "worker", "capture"} => session # 0
Claims(e) == e.listening /\ ~e.inherited
ReplyInv ==
    \A c \in Clients : Claims(reply[c]) =>
        session # 0 /\ (pc[c] = "session" \/ reply[c].session # 0)
StatusInv ==
    \A c \in Clients : \A i \in 1..Len(stream[c]) :
        Claims(stream[c][i].line) => stream[c][i].line.session # 0

\* How many lines a client has been sent as answers, read or in its socket.
Total(c) == heard[c].own + Cardinality(Answers(c))

Answering == {"snapshot", "session", "send", "rest", "start", "stop", "busy"}

\* A handler that is at an answer has sent all those before, and one that
\* waits for a line has sent the answers to all it has taken up.
Handles(c) ==
    /\ handled[c] <= Len(job[c])
    /\ pc[c] \in {"away", "add"} => handled[c] = 0
    /\ pc[c] \in {"start", "stop", "busy"} => Expected(c)[handled[c] + 1] = "ack"
    /\ pc[c] \in {"snapshot", "session", "send", "rest"} =>
           reply[c].kind = Expected(c)[handled[c] + 1]
Counted(c) ==
    ~Lost(c) =>
        /\ pc[c] \in {"away", "add"} \cup Answering => Total(c) = handled[c]
        /\ pc[c] = "recv" => Total(c) = handled[c] + 1

\* The answers in the socket are those that come next.
Rank(c, i) == heard[c].own + Cardinality({j \in Answers(c) : j <= i})
InOrder(c) ==
    \A i \in Answers(c) : /\ Rank(c, i) <= Len(Expected(c))
                         /\ stream[c][i].line.kind = Expected(c)[Rank(c, i)]

CountInv == \A c \in Clients : Handles(c) /\ Counted(c) /\ InOrder(c)

\* The clients on the list are connected, and each is there once.
ListInv ==
    /\ \A i, j \in 1..Len(clients) : clients[i] = clients[j] => i = j
    /\ \A i \in 1..Len(clients) : pc[clients[i]] \notin {"away", "add"}

\* The spots that are about are those that have been decoded, and a worker
\* has its spot for itself.
Known(c) ==
    /\ \A i \in 1..Len(stream[c]) :
           LET e == stream[c][i].line
           IN e.kind = "spot" => e = SpotEvent(e.spot) /\ e.spot <= spots
    /\ \A n \in heard[c].spots : n <= spots
SpotsInv ==
    /\ \A c \in Clients : Known(c)
    /\ \A w \in Workers : news[w].at # "quiet" => news[w].spot <= spots
    /\ \A w, v \in Workers :
           news[w].at # "quiet" /\ news[v].at # "quiet" /\ news[w].spot = news[v].spot
               => w = v

\* The clients that a worker has been at.
Served(w) == {news[w].told[k] : k \in 1..(news[w].next - 1)}

\* A worker walks over a list without duplicates of all that were there when
\* its spot was decoded and still are.
Walks(w) ==
    news[w].at # "quiet" =>
        /\ \A i, j \in 1..Len(news[w].told) :
               news[w].told[i] = news[w].told[j] => i = j
        /\ news[w].next <= Len(news[w].told) + 1
        /\ news[w].at = "copy" => news[w].next = 1
        /\ \A c \in news[w].due : pc[c] \notin {"away", "add"}
        /\ news[w].at # "copy" =>
               news[w].due \cap ToSet(clients) \subseteq ToSet(news[w].told)

\* The clients a worker has been at have its spot, and no others.
Delivered(w, c) ==
    news[w].at # "quiet" /\ ~Lost(c) =>
        Copies(c, news[w].spot) = IF c \in Served(w) THEN 1 ELSE 0

ServedInv == \A w \in Workers : Walks(w) /\ \A c \in Clients : Delivered(w, c)

-----------------------------------------------------------------------------
(* The type of the state.                                                  *)

\* The part of it that Session.tla declares.
SessionType ==
    /\ lock \in Threads \cup {NoOne} /\ phase \in Phases
    /\ listening \in BOOLEAN /\ {session, spotCount} \subseteq Nat
    /\ worker \in Workers \cup {NoWorker} /\ running \subseteq Workers

News == [at : {"quiet", "copy", "send", "rest"}, spot : Nat, due : SUBSET Clients,
         told : Seq(Clients), next : Nat \ {0}]

\* The types of what belongs to one client or worker.
LEMMA Typed ==
    ASSUME TypeOK
    PROVE  /\ stream \in [Clients -> Seq(Piece)] /\ buf \in [Clients -> Seq(Piece)]
           /\ job \in [Clients -> Seq(Lines)] /\ news \in [Workers -> News]
           /\ \A c \in Clients :
                  /\ stream[c] \in Seq(Piece) /\ buf[c] \in Seq(Piece)
                  /\ job[c] \in Seq(Lines) /\ reply[c] \in Events
                  /\ heard[c].own \in Nat /\ heard[c].spots \in SUBSET Nat
           /\ \A w \in Workers :
                  /\ news[w] \in News
                  /\ news[w].told \in Seq(Clients) /\ news[w].next \in Nat \ {0}
                  /\ news[w].due \in SUBSET Clients /\ news[w].spot \in Nat
<1>1. /\ stream \in [Clients -> Seq(Piece)] /\ buf \in [Clients -> Seq(Piece)]
      /\ job \in [Clients -> Seq(Lines)] /\ news \in [Workers -> News]
      /\ reply \in [Clients -> Events]
      /\ heard \in [Clients -> [own : Nat, spots : SUBSET Nat]]
  BY DEF TypeOK, Piece, News
<1>. HIDE DEF Piece, Events
<1>2. \A w \in Workers : news[w] \in News
  BY <1>1
<1>3. \A r \in News : /\ r.told \in Seq(Clients) /\ r.next \in Nat \ {0}
                      /\ r.due \in SUBSET Clients /\ r.spot \in Nat
  BY DEF News
<1>4. \A c \in Clients : heard[c] \in [own : Nat, spots : SUBSET Nat]
  BY <1>1
<1>5. \A c \in Clients : heard[c].own \in Nat /\ heard[c].spots \in SUBSET Nat
  BY <1>4
<1>. QED
  BY <1>1, <1>2, <1>3, <1>5

LEMMA LinesAreEvents ==
    /\ None \in Events
    /\ \A kind \in {"none", "status", "ack", "error", "spot"} : Plain(kind) \in Events
    /\ \A n \in Nat : SpotEvent(n) \in Events
BY DEF None, Plain, SpotEvent, Event, Events

LEMMA SessionTyped ==
    ASSUME SessionType, NEW t \in Threads, SessionStep(t) \/ NumberIt(t)
    PROVE  SessionType'
<1>. USE DEF SessionType
<1>1. CASE BeginStart(t) \/ BeginStop(t)
  BY <1>1 DEF BeginStart, BeginStop, Enter, Phases, Setup
<1>2. CASE NumberIt(t)
  BY <1>2, NobodyAssumption DEF NumberIt, Step, Phases, Setup
<1>3. CASE ResetCount(t)
  BY <1>3 DEF ResetCount, Step, Phases, Setup
<1>7. CASE BeginListening(t)
  BY <1>7 DEF BeginListening, Step, Phases, Setup
<1>5. CASE StartWorker(t)
  BY <1>5 DEF StartWorker, Step, Phases, Setup
<1>6. CASE EndListening(t)
  BY <1>6 DEF EndListening, Step, Phases, Setup
<1>4. CASE GiveUp(t) \/ Saved(t)
  BY <1>4 DEF GiveUp, Saved, Release, Phases
<1>. QED
  BY <1>1, <1>2, <1>3, <1>4, <1>5, <1>6, <1>7 DEF SessionStep

\* The sockets after a line, or a part of it, was sent.
LEMMA SentTyped ==
    ASSUME TypeOK, NEW x \in Clients \cup Workers, NEW c \in Clients, NEW e \in Events,
           \/ SendHead(x, c, e) \/ SendTail(x, c, e)
           \/ SendDropped(x, c) \/ SendBlocks(x, c)
    PROVE  /\ peer' = peer /\ buf' = buf /\ heard' = heard
           /\ writer' \in [Clients -> Clients \cup Workers \cup {NoOne}]
           /\ stream' \in [Clients -> Seq(Piece)]
<1>1. stream \in [Clients -> Seq(Piece)] /\ writer \in [Clients -> Clients \cup Workers \cup {NoOne}]
  BY DEF TypeOK, Piece
<1>2. ASSUME NEW part \in {"head", "tail"}, Put(c, part, e)
      PROVE  stream' \in [Clients -> Seq(Piece)]
  <2>1. [part |-> part, line |-> e] \in Piece
    BY DEF Piece
  <2>2. Append(stream[c], [part |-> part, line |-> e]) \in Seq(Piece)
    BY <1>1, <2>1, AppendProperties
  <2>. QED
    BY <1>1, <1>2, <2>2 DEF Put
<1>3. CASE SendHead(x, c, e)
  BY <1>1, <1>2, <1>3 DEF SendHead, Begins
<1>4. CASE SendTail(x, c, e)
  BY <1>1, <1>2, <1>4 DEF SendTail
<1>5. CASE SendDropped(x, c) \/ SendBlocks(x, c)
  BY <1>1, <1>5 DEF SendDropped, SendBlocks, Begins
<1>. QED
  BY <1>3, <1>4, <1>5

\* The list without the first place of one of its clients: the others, in
\* their order.
LEMMA RemovedFrom ==
    ASSUME NEW s \in Seq(Clients), NEW c \in Clients
    PROVE  /\ RemoveFirst(s, c) \in Seq(Clients)
           /\ \/ RemoveFirst(s, c) = s
              \/ \E k \in 1..Len(s) :
                    /\ Len(RemoveFirst(s, c)) = Len(s) - 1
                    /\ \A i \in 1..(Len(s) - 1) :
                           RemoveFirst(s, c)[i] = s[IF i < k THEN i ELSE i + 1]
<1>1. CASE \E i \in 1..Len(s) : s[i] = c
  <2>. DEFINE I == {i \in 1..Len(s) : s[i] = c}
              k == Min(I)
              a == SubSeq(s, 1, k - 1)
              b == SubSeq(s, k + 1, Len(s))
  <2>1. k \in 1..Len(s)
    <3>1. I \in SUBSET Nat /\ I # {}
      BY <1>1
    <3>2. PICK i \in I : \A j \in I : i <= j
      BY <3>1, LeastExists
    <3>. QED
      BY <3>2 DEF Min
  <2>2. RemoveFirst(s, c) = a \o b
    BY <1>1 DEF RemoveFirst, RemoveAt, SelectInSeq
  <2>. HIDE DEF k
  <2>3. a \in Seq(Clients) /\ Len(a) = k - 1 /\ \A i \in 1..(k - 1) : a[i] = s[i]
    BY <2>1
  <2>4. b \in Seq(Clients) /\ Len(b) = Len(s) - k
        /\ \A i \in 1..(Len(s) - k) : b[i] = s[k + i]
    BY <2>1
  <2>. HIDE DEF a, b
  <2>5. a \o b \in Seq(Clients) /\ Len(a \o b) = Len(s) - 1
    <3>1. a \o b \in Seq(Clients) /\ Len(a \o b) = Len(a) + Len(b)
      BY <2>3, <2>4, ConcatProperties
    <3>2. Len(s) \in Nat /\ (k - 1) + (Len(s) - k) = Len(s) - 1
      BY <2>1
    <3>. QED
      BY <2>3, <2>4, <3>1, <3>2
  <2>6. \A i \in 1..(Len(s) - 1) : (a \o b)[i] = s[IF i < k THEN i ELSE i + 1]
    <3>1. SUFFICES ASSUME NEW i \in 1..(Len(s) - 1)
                   PROVE  (a \o b)[i] = s[IF i < k THEN i ELSE i + 1]
      OBVIOUS
    <3>2. CASE i < k
      BY <2>1, <2>3, <2>4, <3>2, ConcatProperties
    <3>3. CASE ~(i < k)
      <4>1. i - (k - 1) \in 1..(Len(s) - k) /\ k + (i - (k - 1)) = i + 1
        BY <2>1, <3>3
      <4>2. (a \o b)[i] = b[i - (k - 1)]
        BY <2>1, <2>3, <2>4, <3>3, ConcatProperties
      <4>. QED
        BY <2>4, <3>3, <4>1, <4>2
    <3>. QED
      BY <3>2, <3>3
  <2>. QED
    BY <2>1, <2>2, <2>5, <2>6
<1>2. CASE ~ \E i \in 1..Len(s) : s[i] = c
  BY <1>2 DEF RemoveFirst
<1>. QED
  BY <1>1, <1>2

LEMMA TypeInit == Init => TypeOK
<1>1. SUFFICES ASSUME Init PROVE TypeOK
  OBVIOUS
<1>. USE DEF Init
<1>2. SessionType
  <2>1. /\ lock = NoOne /\ phase = "free" /\ listening \in BOOLEAN
        /\ session = 0 /\ spotCount = 0 /\ worker = NoWorker /\ running = {}
    BY <1>1, BootsAssumption DEF Fresh
  <2>2. {session, spotCount} \subseteq Nat
    BY <2>1
  <2>. QED
    BY <2>1, <2>2 DEF SessionType, Phases
<1>3. clients \in Seq(Clients) /\ \A c \in Clients :
          stream[c] \in Seq(Piece) /\ buf[c] \in Seq(Piece)
  BY <1>1, EmptySeq
<1>4. reply \in [Clients -> Events]
  BY <1>1, LinesAreEvents
<1>5. news \in [Workers -> [at : {"quiet", "copy", "send", "rest"}, spot : Nat,
                           due : SUBSET Clients, told : Seq(Clients), next : Nat \ {0}]]
  BY <1>1, EmptySeq DEF Quiet
<1>6. {stream, buf} \subseteq [Clients -> Seq(Piece)]
  BY <1>1, <1>3
<1>7. /\ pc \in [Clients -> HandlerSteps] /\ handled \in [Clients -> Nat]
      /\ peer \in [Clients -> {"away", "reading", "paused", "gone"}]
      /\ writer \in [Clients -> Clients \cup Workers \cup {NoOne}]
      /\ heard \in [Clients -> [own : Nat, spots : SUBSET Nat]]
      /\ job \in [Clients -> Seq(Lines)] /\ spots \in Nat /\ inherited \in BOOLEAN
  BY <1>1, <1>2, BootsAssumption DEF HandlerSteps, SessionType
<1>. QED
  BY <1>2, <1>3, <1>4, <1>5, <1>6, <1>7 DEF TypeOK, SessionType, Piece

\* What a handler does keeps the types.
LEMMA TypeHandler ==
    ASSUME TypeOK, NEW c \in Clients, HandlerStep(c)
    PROVE  TypeOK'
<1>. USE DEF TypeOK, sockets, handlers, sessionVars
<1>1. SessionType /\ (UNCHANGED sessionVars => SessionType')
  BY DEF SessionType
<1>3. \A step \in HandlerSteps : Goto(c, step) => pc' \in [Clients -> HandlerSteps]
  BY DEF Goto
<1>4. \A e \in Events, step \in HandlerSteps : Answer(c, e, step) =>
          /\ pc' \in [Clients -> HandlerSteps] /\ job' = job /\ handled' = handled
          /\ reply' \in [Clients -> Events]
  BY <1>3 DEF Answer
<1>5. CASE Add(c)
  <2>1. clients' \in Seq(Clients)
    BY <1>5, AppendProperties DEF Add
  <2>. QED
    BY <1>1, <1>4, <1>5, <2>1, LinesAreEvents DEF Add, HandlerSteps, SessionType
<1>6. CASE ReadListening(c) \/ ReadSession(c)
  <2>1. /\ [reply[c] EXCEPT !.listening = listening, !.inherited = inherited] \in Events
        /\ [reply[c] EXCEPT !.session = session] \in Events
    <3>1. /\ reply[c] \in Events /\ session \in Nat
          /\ listening \in BOOLEAN /\ inherited \in BOOLEAN
      OBVIOUS
    <3>. HIDE DEF TypeOK
    <3>. QED
      BY <3>1 DEF Events
  <2>. QED
    BY <1>1, <1>4, <1>6, <2>1 DEF ReadListening, ReadSession, Elsewhere, HandlerSteps, SessionType
<1>7. CASE SendReply(c)
  <2>1. /\ peer' = peer /\ buf' = buf /\ heard' = heard
        /\ writer' \in [Clients -> Clients \cup Workers \cup {NoOne}]
        /\ stream' \in [Clients -> Seq(Piece)]
    <3>1. reply[c] \in Events
      OBVIOUS
    <3>2. \/ SendHead(c, c, reply[c]) \/ SendTail(c, c, reply[c])
          \/ SendDropped(c, c) \/ SendBlocks(c, c)
      BY <1>7 DEF SendReply
    <3>. QED
      BY <3>1, <3>2, SentTyped
  <2>2. /\ pc' \in [Clients -> HandlerSteps] /\ job' = job /\ handled' = handled
        /\ reply' \in [Clients -> Events]
    BY <1>3, <1>4, <1>7, LinesAreEvents DEF SendReply, Moves, HandlerSteps
  <2>. QED
    BY <1>1, <1>7, <2>1, <2>2 DEF SendReply, Elsewhere, SessionType, Piece
<1>8. CASE TakeLine(c)
  <2>1. job \in [Clients -> Seq(Lines)] /\ handled[c] + 1 \in 1..Len(job[c])
    BY <1>8 DEF TakeLine
  <2>2. job[c][handled[c] + 1] \in Lines
    BY <2>1
  <2>3. Handling(job[c][handled[c] + 1]) \in HandlerSteps
    BY <2>2 DEF Handling, Lines, HandlerSteps
  <2>4. reply' \in [Clients -> Events]
    BY <1>8, LinesAreEvents DEF TakeLine
  <2>5. handled' = [handled EXCEPT ![c] = handled[c] + 1] /\ job' = job
    BY <1>8 DEF TakeLine
  <2>7. handled' \in [Clients -> Nat]
    <3>1. handled \in [Clients -> Nat]
      OBVIOUS
    <3>. HIDE DEF TypeOK
    <3>2. handled[c] + 1 \in Nat
      BY <3>1
    <3>. QED
      BY <2>5, <3>1, <3>2
  <2>6. pc' \in [Clients -> HandlerSteps]
    BY <1>3, <1>8, <2>3 DEF TakeLine
  <2>. QED
    BY <1>1, <1>8, <2>4, <2>5, <2>6, <2>7 DEF TakeLine, Elsewhere, SessionType
<1>9. CASE Unlist(c)
  BY <1>1, <1>3, <1>9, RemovedFrom DEF Unlist, Removed, Moves, SessionType, HandlerSteps
<1>10. CASE Close(c)
  BY <1>1, <1>3, <1>10 DEF Close, Moves, Elsewhere, SessionType, HandlerSteps
<1>11. CASE NothingToDo(c)
  BY <1>1, <1>4, <1>11, LinesAreEvents DEF NothingToDo, Outside, SessionType, HandlerSteps
<1>12. CASE Begin(c) \/ Inside(c) \/ EndStop(c) \/ Finish(c) \/ Fails(c)
  <2>1. SessionType'
    BY <1>1, <1>12, SessionTyped
       DEF Begin, Inside, EndStop, Finish, Fails, SessionStep
  <2>2. /\ pc' \in [Clients -> HandlerSteps] /\ job' = job /\ handled' = handled
        /\ reply' \in [Clients -> Events]
    BY <1>3, <1>4, <1>12, LinesAreEvents
       DEF Begin, Inside, EndStop, Finish, Fails, Moves, HandlerSteps
  <2>3. UNCHANGED <<sockets, clients, news, spots>> /\ inherited' \in BOOLEAN
    BY <1>12 DEF Begin, Inside, EndStop, Finish, Fails, Outside
  <2>. QED
    BY <2>1, <2>2, <2>3 DEF SessionType
<1>. QED
  BY <1>5, <1>6, <1>7, <1>8, <1>9, <1>10, <1>11, <1>12 DEF HandlerStep

\* The connection a worker is at is a client's.
LEMMA TurnIsClient ==
    ASSUME TypeOK, NEW w \in Workers, ~Done(w)
    PROVE  Turn(w) \in Clients /\ news[w].next \in 1..Len(news[w].told)
<1>1. news[w].told \in Seq(Clients) /\ news[w].next \in Nat \ {0}
  BY Typed
<1>. QED
  BY <1>1, LenProperties DEF Done, Turn, Recipients

\* What a worker does keeps the types.
LEMMA TypeWorker ==
    ASSUME TypeOK, NEW w \in Workers,
           BroadcastStep(w) \/ WorkerEnds(w) \/ (w \in running /\ Decoded(w))
    PROVE  TypeOK'
<1>. USE DEF TypeOK, sockets, handlers, sessionVars
<1>1. SessionType /\ (UNCHANGED sessionVars => SessionType')
  BY DEF SessionType
<1>2. /\ news \in [Workers -> News] /\ Quiet \in News
      /\ ToSet(clients) \in SUBSET Clients
  <2>1. Quiet \in News
    BY EmptySeq DEF News, Quiet
  <2>2. ToSet(clients) \in SUBSET Clients
    BY DEF ToSet
  <2>. QED
    BY <2>1, <2>2, Typed
<1>3. \A r \in News : Broadcasts(w, r) => news' \in [Workers -> News]
  BY <1>2 DEF Broadcasts
<1>4. CASE Decoded(w)
  <2>1. [Quiet EXCEPT !.at = "copy", !.spot = spots + 1, !.due = ToSet(clients)] \in News
    <3>1. spots + 1 \in Nat
      OBVIOUS
    <3>. HIDE DEF TypeOK
    <3>. QED
      BY <1>2, <3>1 DEF News, Quiet
  <2>2. news' \in [Workers -> News] /\ spots' \in Nat
    <3>1. spots \in Nat
      OBVIOUS
    <3>. HIDE DEF TypeOK
    <3>2. spots' = spots + 1
      BY <1>4 DEF Decoded
    <3>3. Broadcasts(w, [Quiet EXCEPT !.at = "copy", !.spot = spots + 1,
                                      !.due = ToSet(clients)])
      BY <1>4, <3>2 DEF Decoded
    <3>4. spots + 1 \in Nat
      BY <3>1
    <3>. QED
      BY <1>3, <2>1, <3>2, <3>3, <3>4
  <2>3. SessionType'
    BY <1>1, <1>4 DEF Decoded, CountSpot, SessionType
  <2>. QED
    BY <1>4, <2>2, <2>3 DEF Decoded, SessionType, News
<1>5. CASE CopyList(w)
  <2>1. [news[w] EXCEPT !.at = "send", !.told = clients] \in News
    <3>1. news[w] \in News /\ clients \in Seq(Clients)
      BY <1>2
    <3>. HIDE DEF TypeOK
    <3>. QED
      BY <3>1 DEF News
  <2>2. news' \in [Workers -> News]
    BY <1>3, <1>5, <2>1 DEF CopyList
  <2>. QED
    BY <1>1, <1>5, <2>2 DEF CopyList, Aside, SessionType, News
<1>6. CASE SendSpot(w)
  <2>1. /\ Turn(w) \in Clients /\ SpotEvent(news[w].spot) \in Events
        /\ \/ SendHead(w, Turn(w), SpotEvent(news[w].spot))
           \/ SendTail(w, Turn(w), SpotEvent(news[w].spot))
           \/ SendDropped(w, Turn(w)) \/ SendBlocks(w, Turn(w))
    BY <1>6, TurnIsClient, LinesAreEvents DEF SendSpot, Turn
  <2>2. /\ peer' = peer /\ buf' = buf /\ heard' = heard
        /\ writer' \in [Clients -> Clients \cup Workers \cup {NoOne}]
        /\ stream' \in [Clients -> Seq(Piece)]
    BY <2>1, SentTyped
  <2>3. /\ [news[w] EXCEPT !.at = "send", !.next = @ + 1] \in News
        /\ [news[w] EXCEPT !.at = "rest"] \in News
    <3>1. news[w] \in News /\ news[w].next + 1 \in Nat \ {0}
      BY <1>2
    <3>. HIDE DEF TypeOK
    <3>2. [news[w] EXCEPT !.at = "rest"] \in News
      BY <3>1 DEF News
    <3>3. [news[w] EXCEPT !.at = "send", !.next = news[w].next + 1] \in News
      BY <3>1 DEF News
    <3>. QED
      BY <3>2, <3>3
  <2>4. news' \in [Workers -> News]
    BY <1>2, <1>3, <1>6, <2>3 DEF SendSpot
  <2>. QED
    BY <1>1, <1>6, <2>2, <2>4 DEF SendSpot, Aside, SessionType, News, Piece
<1>7. CASE BroadcastEnds(w)
  <2>1. news' \in [Workers -> News]
    BY <1>2, <1>3, <1>7 DEF BroadcastEnds
  <2>. QED
    BY <1>1, <1>7, <2>1 DEF BroadcastEnds, Aside, SessionType, News
<1>8. CASE WorkerEnds(w)
  <2>1. SessionType'
    BY <1>1, <1>8 DEF WorkerEnds, Exit, SessionType
  <2>. QED
    BY <1>8, <2>1 DEF WorkerEnds, SessionType, ipcVars
<1>. QED
  BY <1>4, <1>5, <1>6, <1>7, <1>8 DEF BroadcastStep

\* The places of a sequence's elements of some kind are a finite set.
LEMMA PlacesFinite ==
    ASSUME NEW S, NEW s \in Seq(S), NEW I \in SUBSET (DOMAIN s)
    PROVE  I \in SUBSET (1..Len(s)) /\ IsFiniteSet(I) /\ Cardinality(I) \in Nat
<1>1. DOMAIN s = 1..Len(s) /\ Len(s) \in Nat
  BY LenProperties
<1>2. IsFiniteSet(1..Len(s))
  BY <1>1, FS_Interval
<1>. QED
  BY <1>1, <1>2, FS_Subset, FS_CardinalityType

LEMMA AnswersFinite ==
    ASSUME TypeOK, NEW c \in Clients
    PROVE  /\ Arriving(c) \subseteq 1..Len(stream[c])
           /\ Answers(c) \in SUBSET (1..Len(stream[c]))
           /\ IsFiniteSet(Answers(c)) /\ Cardinality(Answers(c)) \in Nat
<1>1. stream[c] \in Seq(Piece)
  BY DEF TypeOK, Piece
<1>2. Arriving(c) \in SUBSET (DOMAIN stream[c]) /\ Answers(c) \in SUBSET (DOMAIN stream[c])
  BY DEF Arriving, Answers
<1>. QED
  BY <1>1, <1>2, PlacesFinite

\* What a client does keeps the types.
LEMMA TypeClient ==
    ASSUME TypeOK, NEW c \in Clients,
           Connect(c) \/ ReadStep(c) \/ GivesUp(c) \/ Pauses(c)
    PROVE  TypeOK'
<1>. USE DEF TypeOK, sockets, handlers, sessionVars
<1>1. SessionType /\ (UNCHANGED sessionVars => SessionType')
  BY DEF SessionType
<1>2. CASE Connect(c)
  BY <1>1, <1>2 DEF Connect, Moves, Goto, SessionType, HandlerSteps
<1>3. CASE ReadOn(c)
  <2>1. Cardinality(Answers(c)) \in Nat /\ Arriving(c) \subseteq 1..Len(stream[c])
    BY AnswersFinite
  <2>2. {stream[c][i].line.spot : i \in Arriving(c) \ Answers(c)} \subseteq Nat
    <3>. HIDE DEF TypeOK
    <3>1. stream[c] \in Seq(Piece)
      BY Typed
    <3>2. \A i \in 1..Len(stream[c]) : stream[c][i] \in Piece
      BY <3>1, ElementOfSeq
    <3>3. \A p \in Piece : p.line.spot \in Nat
      BY DEF Piece, Events
    <3>4. \A i \in Arriving(c) : stream[c][i].line.spot \in Nat
      BY <2>1, <3>2, <3>3
    <3>. QED
      BY <3>4
  <2>3. heard' \in [Clients -> [own : Nat, spots : SUBSET Nat]]
    <3>. DEFINE n == heard[c].own + Cardinality(Answers(c))
                S == heard[c].spots \cup {stream[c][i].line.spot : i \in Arriving(c) \ Answers(c)}
    <3>1. n \in Nat /\ S \in SUBSET Nat
      <4>1. heard[c].own \in Nat /\ heard[c].spots \in SUBSET Nat
        BY Typed
      <4>. HIDE DEF TypeOK
      <4>. QED
        BY <2>1, <2>2, <4>1
    <3>2. heard' = [heard EXCEPT ![c].own = n, ![c].spots = S]
      BY <1>3 DEF ReadOn
    <3>3. heard \in [Clients -> [own : Nat, spots : SUBSET Nat]]
      OBVIOUS
    <3>. HIDE DEF n, S, TypeOK
    <3>4. [heard[c] EXCEPT !.own = n, !.spots = S] \in [own : Nat, spots : SUBSET Nat]
      BY <3>1, <3>3
    <3>5. heard' = [heard EXCEPT ![c] = [heard[c] EXCEPT !.own = n, !.spots = S]]
      BY <3>2
    <3>. QED
      BY <3>4, <3>5, <3>3
  <2>4. stream' \in [Clients -> Seq(Piece)] /\ buf' \in [Clients -> Seq(Piece)]
    <3>1. Last(stream[c]) \in Piece
      <4>1. stream[c] \in Seq(Piece) /\ stream[c] # <<>>
        BY <1>3, Typed DEF ReadOn
      <4>. HIDE DEF TypeOK
      <4>. QED
        BY <4>1, EmptySeq, LenProperties, ElementOfSeq DEF Last
    <3>2. <<>> \in Seq(Piece) /\ <<Last(stream[c])>> \in Seq(Piece)
      BY <3>1
    <3>3. stream \in [Clients -> Seq(Piece)] /\ buf \in [Clients -> Seq(Piece)]
      BY Typed
    <3>. QED
      BY <1>3, <3>2, <3>3 DEF ReadOn
  <2>. QED
    BY <1>1, <1>3, <2>3, <2>4 DEF ReadOn, SessionType, Piece
<1>4. CASE Leaves(c)
  <2>1. stream' \in [Clients -> Seq(Piece)] /\ buf' \in [Clients -> Seq(Piece)]
    <3>1. stream \in [Clients -> Seq(Piece)] /\ buf \in [Clients -> Seq(Piece)]
          /\ <<>> \in Seq(Piece)
      BY Typed, EmptySeq
    <3>. QED
      BY <1>4, <3>1 DEF Leaves
  <2>2. heard' \in [Clients -> [own : Nat, spots : SUBSET Nat]]
    BY <1>4 DEF Leaves
  <2>. QED
    BY <1>1, <1>4, <2>1, <2>2 DEF Leaves, SessionType, Piece
<1>5. CASE Pauses(c)
  BY <1>1, <1>5 DEF Pauses, SessionType
<1>. QED
  BY <1>2, <1>3, <1>4, <1>5 DEF ReadStep, ReadAnswer, ReadEnd, GivesUp

LEMMA TypeStep == TypeOK /\ [Next]_vars => TypeOK'
<1>1. SUFFICES ASSUME TypeOK, [Next]_vars PROVE TypeOK'
  OBVIOUS
<1>2. CASE UNCHANGED vars
  BY <1>1, <1>2 DEF TypeOK, vars, sessionVars, ipcVars, handlers, sockets
<1>3. CASE Next
  <2>1. running \subseteq Workers
    BY <1>1 DEF TypeOK
  <2>. QED
    BY <1>1, <1>3, <2>1, TypeHandler, TypeWorker, TypeClient DEF Next
<1>. QED
  BY <1>1, <1>2, <1>3

\* The state of the connections has its type, whatever the clients send, in
\* whichever order handlers, workers and clients take their steps.
THEOREM TypeCorrect == Spec => []TypeOK
<1>. QED
  BY TypeInit, TypeStep, PTL DEF Spec

-----------------------------------------------------------------------------
(* What the steps do to each connection.                                   *)

HeadOf(e) == [part |-> "head", line |-> e]
TailOf(e) == [part |-> "tail", line |-> e]

\* What becomes of connection c when thread x sends a piece of line e.
HeadGoes(x, c, e) ==
    /\ \/ writer[c] = NoOne /\ ~Lost(c)
       \/ writer[c] = x /\ peer[c] # "gone"
    /\ writer'[c] = x
    /\ stream'[c] = Append(stream[c], HeadOf(e))
TailGoes(x, c, e) ==
    /\ writer[c] = x /\ peer[c] # "gone" /\ writer'[c] = NoOne
    /\ stream'[c] = Append(stream[c], TailOf(e))
NothingGoes(x, c) ==
    /\ Lost(c) /\ writer'[c] = NoOne
    /\ writer[c] = NoOne \/ (writer[c] = x /\ peer[c] = "gone")
    /\ stream'[c] = stream[c]
Waits(x, c) ==
    /\ ~Lost(c) /\ writer[c] = NoOne /\ writer'[c] = x
    /\ stream'[c] = stream[c]

\* A piece, or none, goes into one socket, and the others stay as they are.
LEMMA Sent ==
    ASSUME TypeOK, NEW x \in Clients \cup Workers, NEW c \in Clients, NEW e \in Events
    PROVE  /\ SendHead(x, c, e) => HeadGoes(x, c, e)
           /\ SendTail(x, c, e) => TailGoes(x, c, e)
           /\ SendDropped(x, c) => NothingGoes(x, c)
           /\ SendBlocks(x, c) => Waits(x, c)
           /\ SendHead(x, c, e) \/ SendTail(x, c, e) \/ SendDropped(x, c)
                  \/ SendBlocks(x, c) =>
                  /\ UNCHANGED <<peer, buf, heard>>
                  /\ \A d \in Clients \ {c} :
                         stream'[d] = stream[d] /\ writer'[d] = writer[d]
<1>1. stream \in [Clients -> Seq(Piece)] /\ writer \in [Clients -> Clients \cup Workers \cup {NoOne}]
  BY DEF TypeOK, Piece
<1>2. \A part : Put(c, part, e) =>
          /\ stream'[c] = Append(stream[c], [part |-> part, line |-> e])
          /\ \A d \in Clients \ {c} : stream'[d] = stream[d]
  BY <1>1 DEF Put
<1>. DEFINE Rest == /\ UNCHANGED <<peer, buf, heard>>
                    /\ \A d \in Clients \ {c} :
                           stream'[d] = stream[d] /\ writer'[d] = writer[d]
<1>3. SendHead(x, c, e) => HeadGoes(x, c, e) /\ Rest
  BY <1>1, <1>2 DEF SendHead, Begins, HeadGoes, HeadOf
<1>4. SendTail(x, c, e) => TailGoes(x, c, e) /\ Rest
  BY <1>1, <1>2 DEF SendTail, TailGoes, TailOf
<1>5. SendDropped(x, c) => NothingGoes(x, c) /\ Rest
  BY <1>1 DEF SendDropped, NothingGoes, Lost
<1>6. SendBlocks(x, c) => Waits(x, c) /\ Rest
  BY <1>1 DEF SendBlocks, Begins, Waits
<1>. QED
  BY <1>3, <1>4, <1>5, <1>6

\* A handler's step other than a send leaves the sockets alone.
LEMMA HandlerQuiet ==
    ASSUME TypeOK, NEW c \in Clients, HandlerStep(c), ~SendReply(c)
    PROVE  /\ UNCHANGED <<sockets, news, spots, job>>
           /\ \A d \in Clients \ {c} :
                  pc'[d] = pc[d] /\ reply'[d] = reply[d] /\ handled'[d] = handled[d]
           /\ pc[c] \notin {"away", "send", "rest", "closed"}
           /\ pc'[c] \notin {"away", "add", "rest"}
<1>. USE DEF sockets
<1>1. /\ pc \in [Clients -> HandlerSteps] /\ reply \in [Clients -> Events]
      /\ handled \in [Clients -> Nat]
  BY DEF TypeOK
<1>2. \A step : Goto(c, step) =>
          pc'[c] = step /\ \A d \in Clients \ {c} : pc'[d] = pc[d]
  BY <1>1 DEF Goto
<1>3. \A e, step : Answer(c, e, step) =>
          /\ pc'[c] = step /\ UNCHANGED <<job, handled>>
          /\ \A d \in Clients \ {c} : pc'[d] = pc[d] /\ reply'[d] = reply[d]
  BY <1>1, <1>2 DEF Answer
<1>4. CASE Add(c) \/ ReadListening(c) \/ ReadSession(c)
  BY <1>3, <1>4 DEF Add, ReadListening, ReadSession, Elsewhere
<1>5. CASE TakeLine(c)
  <2>1. job[c] \in Seq(Lines) /\ handled[c] + 1 \in 1..Len(job[c])
    BY <1>1, <1>5, Typed DEF TakeLine
  <2>2. job[c][handled[c] + 1] \in Lines
    BY <2>1
  <2>3. Handling(job[c][handled[c] + 1]) \notin {"away", "add", "rest"}
    BY <2>2 DEF Handling, Lines
  <2>4. \A d \in Clients \ {c} : reply'[d] = reply[d]
    BY <1>1, <1>5 DEF TakeLine
  <2>. QED
    BY <1>1, <1>2, <1>5, <2>3, <2>4 DEF TakeLine, Elsewhere
<1>6. CASE Unlist(c) \/ Close(c)
  BY <1>2, <1>6 DEF Unlist, AtEnd, Close, Moves, Elsewhere
<1>7. CASE NothingToDo(c) \/ Finish(c)
  BY <1>3, <1>7 DEF NothingToDo, Finish, Outside
<1>8. CASE Begin(c) \/ Fails(c)
  BY <1>2, <1>8 DEF Begin, Fails, Moves, Outside
<1>9. CASE Inside(c) \/ EndStop(c)
  BY <1>9 DEF Inside, EndStop, Outside, handlers
<1>. QED
  BY <1>4, <1>5, <1>6, <1>7, <1>8, <1>9 DEF HandlerStep

\* A handler sends its reply in two steps, or drops it, or waits for room.
LEMMA ReplySent ==
    ASSUME TypeOK, NEW c \in Clients, SendReply(c)
    PROVE  /\ UNCHANGED <<sessionVars, clients, news, spots, inherited, job, handled>>
           /\ UNCHANGED <<peer, buf, heard>>
           /\ \A d \in Clients \ {c} :
                  /\ pc'[d] = pc[d] /\ reply'[d] = reply[d]
                  /\ stream'[d] = stream[d] /\ writer'[d] = writer[d]
           /\ \/ /\ HeadGoes(c, c, reply[c])
                 /\ pc[c] = "send" /\ pc'[c] = "rest" /\ reply'[c] = reply[c]
              \/ /\ TailGoes(c, c, reply[c])
                 /\ pc[c] = "rest" /\ pc'[c] = "recv" /\ reply'[c] = None
              \/ /\ NothingGoes(c, c)
                 /\ pc[c] \in {"send", "rest"} /\ pc'[c] = "recv" /\ reply'[c] = None
              \/ /\ Waits(c, c)
                 /\ pc[c] = "send" /\ pc'[c] = pc[c] /\ reply'[c] = reply[c]
<1>1. /\ UNCHANGED <<sessionVars, clients, news, spots, inherited, job, handled>>
      /\ \A d \in Clients \ {c} : pc'[d] = pc[d] /\ reply'[d] = reply[d]
      /\ \/ /\ SendHead(c, c, reply[c])
            /\ pc[c] = "send" /\ pc'[c] = "rest" /\ reply'[c] = reply[c]
         \/ /\ SendTail(c, c, reply[c])
            /\ pc[c] = "rest" /\ pc'[c] = "recv" /\ reply'[c] = None
         \/ /\ SendDropped(c, c)
            /\ pc[c] \in {"send", "rest"} /\ pc'[c] = "recv" /\ reply'[c] = None
         \/ /\ SendBlocks(c, c)
            /\ pc[c] = "send" /\ pc'[c] = pc[c] /\ reply'[c] = reply[c]
  BY DEF SendReply, Elsewhere, Answer, Moves, Goto, handlers, TypeOK
<1>2. reply[c] \in Events
  BY Typed
<1>. QED
  BY <1>1, <1>2, Sent

\* A worker sends its spot in two steps, or drops it and goes on, or waits.
LEMMA SpotSent ==
    ASSUME TypeOK, NEW w \in Workers, SendSpot(w)
    PROVE  /\ UNCHANGED <<sessionVars, clients, handlers, spots, inherited>> /\ ~Done(w)
           /\ Turn(w) \in Clients /\ news[w].next \in 1..Len(news[w].told)
           /\ UNCHANGED <<peer, buf, heard>>
           /\ \A d \in Clients \ {Turn(w)} :
                  stream'[d] = stream[d] /\ writer'[d] = writer[d]
           /\ \A v \in Workers \ {w} : news'[v] = news[v]
           /\ news'[w].spot = news[w].spot /\ news'[w].due = news[w].due
           /\ news'[w].told = news[w].told
           /\ \/ /\ HeadGoes(w, Turn(w), SpotEvent(news[w].spot))
                 /\ news[w].at = "send" /\ news'[w].at = "rest"
                 /\ news'[w].next = news[w].next
              \/ /\ TailGoes(w, Turn(w), SpotEvent(news[w].spot))
                 /\ news[w].at = "rest" /\ news'[w].at = "send"
                 /\ news'[w].next = news[w].next + 1
              \/ /\ NothingGoes(w, Turn(w))
                 /\ news[w].at \in {"send", "rest"} /\ news'[w].at = "send"
                 /\ news'[w].next = news[w].next + 1
              \/ /\ Waits(w, Turn(w))
                 /\ news[w].at = "send" /\ news'[w] = news[w]
<1>1. /\ ~Done(w) /\ Turn(w) \in Clients /\ news[w].next \in 1..Len(news[w].told)
      /\ SpotEvent(news[w].spot) \in Events
  BY TurnIsClient, LinesAreEvents, Typed DEF SendSpot
<1>2. \A r : Broadcasts(w, r) => news'[w] = r /\ \A v \in Workers \ {w} : news'[v] = news[v]
  BY Typed DEF Broadcasts
<1>3. news[w] \in News
  BY Typed
<1>. DEFINE rest == [news[w] EXCEPT !.at = "rest"]
            after == [news[w] EXCEPT !.at = "send", !.next = @ + 1]
<1>4. /\ rest.at = "rest" /\ rest.next = news[w].next
      /\ \A r \in {rest, after} :
             r.spot = news[w].spot /\ r.due = news[w].due /\ r.told = news[w].told
      /\ after.at = "send" /\ after.next = news[w].next + 1
  BY <1>3 DEF News
<1>5. \/ /\ SendHead(w, Turn(w), SpotEvent(news[w].spot))
         /\ news[w].at = "send" /\ Broadcasts(w, rest)
      \/ /\ SendTail(w, Turn(w), SpotEvent(news[w].spot))
         /\ news[w].at = "rest" /\ Broadcasts(w, after)
      \/ /\ SendDropped(w, Turn(w))
         /\ news[w].at \in {"send", "rest"} /\ Broadcasts(w, after)
      \/ /\ SendBlocks(w, Turn(w))
         /\ news[w].at = "send" /\ UNCHANGED news
  BY DEF SendSpot, Turn
<1>6. UNCHANGED <<sessionVars, clients, handlers, spots, inherited>>
  BY DEF SendSpot, Aside
<1>. HIDE DEF rest, after
<1>7. /\ UNCHANGED <<peer, buf, heard>>
      /\ \A d \in Clients \ {Turn(w)} :
             stream'[d] = stream[d] /\ writer'[d] = writer[d]
  BY <1>1, <1>5, Sent
<1>8. \/ /\ HeadGoes(w, Turn(w), SpotEvent(news[w].spot))
         /\ news[w].at = "send" /\ Broadcasts(w, rest)
      \/ /\ TailGoes(w, Turn(w), SpotEvent(news[w].spot))
         /\ news[w].at = "rest" /\ Broadcasts(w, after)
      \/ /\ NothingGoes(w, Turn(w))
         /\ news[w].at \in {"send", "rest"} /\ Broadcasts(w, after)
      \/ /\ Waits(w, Turn(w))
         /\ news[w].at = "send" /\ UNCHANGED news
  BY <1>1, <1>5, Sent
<1>. QED
  BY <1>1, <1>2, <1>4, <1>6, <1>7, <1>8

\* A worker that does not send leaves handlers and sockets alone.
LEMMA WorkerQuiet ==
    ASSUME TypeOK, NEW w \in Workers,
           Decoded(w) \/ CopyList(w) \/ BroadcastEnds(w) \/ WorkerEnds(w)
    PROVE  /\ UNCHANGED <<handlers, sockets, clients>>
           /\ \A v \in Workers \ {w} : news'[v] = news[v]
           /\ news[w].at # "rest" /\ news'[w].at # "rest"
           /\ news[w].at = "send" => Done(w)
           /\ listening' = listening /\ session' = session /\ phase' = phase
           /\ inherited' = inherited
<1>1. \A r : Broadcasts(w, r) => news'[w] = r /\ \A v \in Workers \ {w} : news'[v] = news[v]
  BY Typed DEF Broadcasts
<1>2. CASE Decoded(w)
  <2>. DEFINE news1 == [Quiet EXCEPT !.at = "copy", !.spot = spots', !.due = ToSet(clients)]
  <2>1. news1.at = "copy" /\ news[w].at = "quiet" /\ Broadcasts(w, news1)
    BY <1>2 DEF Decoded, Quiet
  <2>2. news'[w].at = "copy" /\ \A v \in Workers \ {w} : news'[v] = news[v]
    BY <1>1, <2>1
  <2>. QED
    BY <1>2, <2>1, <2>2 DEF Decoded, CountSpot
<1>3. CASE CopyList(w)
  <2>1. [news[w] EXCEPT !.at = "send", !.told = clients].at = "send"
    BY Typed DEF News
  <2>. QED
    BY <1>1, <1>3, <2>1 DEF CopyList, Aside, sessionVars
<1>4. CASE BroadcastEnds(w)
  BY <1>1, <1>4 DEF BroadcastEnds, Aside, sessionVars, Quiet
<1>5. CASE WorkerEnds(w)
  BY <1>5 DEF WorkerEnds, Exit, ipcVars
<1>. QED
  BY <1>2, <1>3, <1>4, <1>5

\* A client reads or leaves, or does neither.
LEMMA ClientStep ==
    ASSUME TypeOK, AwayInv, NEW c \in Clients,
           Connect(c) \/ ReadStep(c) \/ GivesUp(c) \/ Pauses(c)
    PROVE  /\ UNCHANGED <<sessionVars, clients, writer, news, spots, inherited, job,
                         handled, reply>>
           /\ \A d \in Clients \ {c} :
                  /\ pc'[d] = pc[d] /\ peer'[d] = peer[d] /\ stream'[d] = stream[d]
                  /\ buf'[d] = buf[d] /\ heard'[d] = heard[d]
           /\ pc'[c] = pc[c] \/ (pc[c] = "away" /\ pc'[c] = "add")
           /\ \/ UNCHANGED <<stream, buf, heard>> /\ peer[c] # "gone" /\ peer'[c] # "gone"
              \/ ReadOn(c) /\ UNCHANGED <<pc, peer>> /\ peer[c] = "reading"
              \/ /\ pc' = pc
                 /\ peer'[c] = "gone" /\ stream'[c] = <<>> /\ buf'[c] = <<>>
                 /\ heard'[c] = [own |-> 0, spots |-> {}]
<1>. USE DEF handlers
<1>1. /\ stream \in [Clients -> Seq(Piece)] /\ buf \in [Clients -> Seq(Piece)]
      /\ heard \in [Clients -> [own : Nat, spots : SUBSET Nat]]
      /\ peer \in [Clients -> {"away", "reading", "paused", "gone"}]
      /\ pc \in [Clients -> HandlerSteps]
  BY DEF TypeOK, Piece
<1>2. CASE Connect(c)
  <2>1. peer[c] = "away" /\ pc[c] = "away"
    BY <1>2 DEF Connect, AwayInv
  <2>. QED
    BY <1>1, <1>2, <2>1 DEF Connect, Moves, Goto
<1>3. CASE ReadOn(c)
  BY <1>1, <1>3 DEF ReadOn
<1>4. CASE Leaves(c)
  BY <1>1, <1>4 DEF Leaves
<1>5. CASE Pauses(c)
  BY <1>1, <1>5 DEF Pauses
<1>. QED
  BY <1>2, <1>3, <1>4, <1>5 DEF ReadStep, ReadAnswer, ReadEnd, GivesUp

-----------------------------------------------------------------------------
(* The lock of a connection.                                               *)

LEMMA AwayStep ==
    ASSUME TypeOK, AwayInv, [Next]_vars
    PROVE  AwayInv'
<1>1. CASE UNCHANGED vars
  BY <1>1 DEF AwayInv, vars, ipcVars, handlers, sockets
<1>2. ASSUME NEW c \in Clients, HandlerStep(c)
      PROVE  AwayInv'
  <2>1. CASE SendReply(c)
    <3>1. peer' = peer /\ pc[c] # "away"
      BY <2>1, ReplySent
    <3>. QED
      BY <2>1, <3>1, ReplySent DEF AwayInv
  <2>2. CASE ~SendReply(c)
    BY <1>2, <2>2, HandlerQuiet DEF AwayInv, sockets
  <2>. QED
    BY <2>1, <2>2
<1>3. ASSUME NEW c \in Clients, Connect(c) \/ ReadStep(c) \/ GivesUp(c) \/ Pauses(c)
      PROVE  AwayInv'
  <2>1. peer'[c] # "away"
    BY <1>3 DEF Connect, ReadStep, ReadOn, ReadAnswer, ReadEnd, GivesUp, Pauses, Leaves, TypeOK
  <2>. QED
    BY <1>3, <2>1, ClientStep DEF AwayInv
<1>4. ASSUME NEW w \in Workers, SendSpot(w)
      PROVE  AwayInv'
  <2>1. peer' = peer
    BY <1>4, SpotSent
  <2>. QED
    BY <1>4, <2>1, SpotSent DEF AwayInv, handlers
<1>5. ASSUME NEW w \in Workers,
             Decoded(w) \/ CopyList(w) \/ BroadcastEnds(w) \/ WorkerEnds(w)
      PROVE  AwayInv'
  BY <1>5, WorkerQuiet DEF AwayInv, handlers, sockets
<1>. QED
  BY <1>1, <1>2, <1>3, <1>4, <1>5 DEF Next, BroadcastStep, TypeOK

LEMMA HeldStep ==
    ASSUME TypeOK, AwayInv, HeldInv, [Next]_vars
    PROVE  HeldInv'
<1>. USE NamesAssumption, NobodyAssumption
<1>1. \A w \in Workers : news'[w] = news[w] => \A d : Sends(w, d)' <=> Sends(w, d)
  BY DEF Sends, Done, Turn, Recipients
<1>2. CASE UNCHANGED vars
  <2>1. news' = news /\ writer' = writer /\ pc' = pc
    BY <1>2 DEF vars, ipcVars, handlers, sockets
  <2>. QED
    BY <1>1, <2>1 DEF HeldInv
<1>3. ASSUME NEW c \in Clients, HandlerStep(c)
      PROVE  HeldInv'
  <2>1. CASE SendReply(c)
    <3>1. news' = news /\ \A d \in Clients \ {c} : pc'[d] = pc[d] /\ writer'[d] = writer[d]
      BY <2>1, ReplySent
    <3>2. writer[c] \in {c, NoOne}
      BY <2>1, ReplySent DEF HeadGoes, TailGoes, NothingGoes, Waits
    <3>3. /\ writer'[c] \in {c, NoOne}
          /\ writer'[c] = c => pc'[c] \in {"send", "rest"}
          /\ pc'[c] = "rest" => writer'[c] = c
      BY <2>1, ReplySent DEF HeadGoes, TailGoes, NothingGoes, Waits
    <3>. QED
      BY <1>1, <3>1, <3>2, <3>3 DEF HeldInv
  <2>2. CASE ~SendReply(c)
    <3>1. news' = news /\ writer' = writer
      BY <1>3, <2>2, HandlerQuiet DEF sockets
    <3>2. /\ pc[c] \notin {"send", "rest"} /\ pc'[c] # "rest"
          /\ \A d \in Clients \ {c} : pc'[d] = pc[d]
      BY <1>3, <2>2, HandlerQuiet
    <3>. QED
      BY <1>1, <3>1, <3>2 DEF HeldInv
  <2>. QED
    BY <2>1, <2>2
<1>4. ASSUME NEW c \in Clients, Connect(c) \/ ReadStep(c) \/ GivesUp(c) \/ Pauses(c)
      PROVE  HeldInv'
  <2>1. /\ news' = news /\ writer' = writer
        /\ \A d \in Clients : pc'[d] = pc[d] \/ (pc[d] = "away" /\ pc'[d] = "add")
    BY <1>4, ClientStep
  <2>. QED
    BY <1>1, <2>1 DEF HeldInv
<1>5. ASSUME NEW w \in Workers, SendSpot(w)
      PROVE  HeldInv'
  <2>1. /\ pc' = pc /\ Turn(w) \in Clients /\ ~Done(w)
        /\ \A v \in Workers \ {w} : news'[v] = news[v]
        /\ \A d \in Clients \ {Turn(w)} : writer'[d] = writer[d]
        /\ news'[w].told = news[w].told
    BY <1>5, SpotSent DEF handlers
  <2>2. writer[Turn(w)] \in {w, NoOne}
    BY <1>5, SpotSent DEF HeadGoes, TailGoes, NothingGoes, Waits
  <2>3. \A d \in Clients : writer[d] = w => d = Turn(w)
    BY DEF HeldInv, Sends
  <2>4. CASE writer'[Turn(w)] = w
    <3>1. news'[w].at \in {"send", "rest"} /\ news'[w].next = news[w].next
      BY <1>5, <2>4, SpotSent DEF HeadGoes, TailGoes, NothingGoes, Waits
    <3>2. \A d : Sends(w, d)' <=> d = Turn(w)
      BY <2>1, <3>1 DEF Sends, Done, Turn, Recipients
    <3>. QED
      BY <1>1, <2>1, <2>2, <2>3, <2>4, <3>1, <3>2 DEF HeldInv
  <2>5. CASE writer'[Turn(w)] # w
    <3>1. writer'[Turn(w)] = NoOne /\ news'[w].at = "send"
      BY <1>5, <2>5, SpotSent DEF HeadGoes, TailGoes, NothingGoes, Waits
    <3>. QED
      BY <1>1, <2>1, <2>2, <2>3, <3>1 DEF HeldInv
  <2>. QED
    BY <2>4, <2>5
<1>6. ASSUME NEW w \in Workers,
             Decoded(w) \/ CopyList(w) \/ BroadcastEnds(w) \/ WorkerEnds(w)
      PROVE  HeldInv'
  <2>1. /\ pc' = pc /\ writer' = writer /\ \A v \in Workers \ {w} : news'[v] = news[v]
        /\ news[w].at # "rest" /\ news'[w].at # "rest" /\ (news[w].at = "send" => Done(w))
    BY <1>6, WorkerQuiet DEF handlers, sockets
  <2>2. \A d \in Clients : writer[d] # w
    BY <2>1 DEF HeldInv, Sends
  <2>. QED
    BY <1>1, <2>1, <2>2 DEF HeldInv
<1>. QED
  BY <1>2, <1>3, <1>4, <1>5, <1>6 DEF Next, BroadcastStep, TypeOK

-----------------------------------------------------------------------------
(* Lines stay whole.                                                       *)

\* Heads and tails alternate when the piece that is due is put at the end.
LEMMA WholeGrows ==
    ASSUME NEW s \in Seq(Piece), Whole(s), NEW p \in Piece,
           \/ Len(s) % 2 = 0 /\ p.part = "head"
           \/ Len(s) % 2 = 1 /\ p.part = "tail" /\ p.line = Last(s).line
    PROVE  /\ Whole(Append(s, p)) /\ Last(Append(s, p)) = p
           /\ Len(Append(s, p)) % 2 = 1 <=> Len(s) % 2 = 0
<1>1. /\ Append(s, p) \in Seq(Piece) /\ Len(Append(s, p)) = Len(s) + 1
      /\ \A i \in 1..Len(s) : Append(s, p)[i] = s[i]
      /\ Append(s, p)[Len(s) + 1] = p /\ Len(s) \in Nat
  BY AppendProperties, LenProperties
<1>2. (Len(s) + 1) % 2 = 1 <=> Len(s) % 2 = 0
  BY <1>1
<1>3. Len(s) % 2 = 1 => Len(s) \in 1..Len(s)
  BY <1>1
<1>4. ASSUME NEW i \in 1..(Len(s) + 1)
      PROVE  /\ Append(s, p)[i].part = IF i % 2 = 1 THEN "head" ELSE "tail"
             /\ i % 2 = 0 => Append(s, p)[i].line = Append(s, p)[i - 1].line
  <2>1. CASE i \in 1..Len(s)
    <3>1. i % 2 = 0 => i - 1 \in 1..Len(s)
      BY <2>1
    <3>. QED
      BY <1>1, <2>1, <3>1 DEF Whole
  <2>2. CASE i = Len(s) + 1
    <3>1. (i % 2 = 1 <=> Len(s) % 2 = 0) /\ (i % 2 = 0 <=> Len(s) % 2 = 1) /\ i - 1 = Len(s)
      BY <1>1, <1>2, <2>2
    <3>. QED
      <4>1. Append(s, p)[i] = p /\ (i % 2 = 0 => Append(s, p)[i - 1] = Last(s))
        BY <1>1, <1>3, <2>2, <3>1 DEF Last
      <4>. QED
        BY <3>1, <4>1
  <2>. QED
    BY <1>1, <2>1, <2>2
<1>5. Last(Append(s, p)) = p
  BY <1>1 DEF Last
<1>. QED
  BY <1>1, <1>2, <1>4, <1>5 DEF Whole

LEMMA AppendAfter ==
    ASSUME NEW S, NEW s \in Seq(S), NEW t \in Seq(S), NEW p \in S
    PROVE  s \o Append(t, p) = Append(s \o t, p)
<1>. DEFINE l == s \o Append(t, p)
            r == Append(s \o t, p)
<1>1. /\ Append(t, p) \in Seq(S) /\ Len(Append(t, p)) = Len(t) + 1
      /\ \A i \in 1..Len(t) : Append(t, p)[i] = t[i]
      /\ Append(t, p)[Len(t) + 1] = p
  BY AppendProperties
<1>2. /\ s \o t \in Seq(S) /\ Len(s \o t) = Len(s) + Len(t)
      /\ \A i \in 1..(Len(s) + Len(t)) :
             (s \o t)[i] = IF i <= Len(s) THEN s[i] ELSE t[i - Len(s)]
  BY ConcatProperties
<1>3. /\ l \in Seq(S) /\ Len(l) = Len(s) + (Len(t) + 1)
      /\ \A i \in 1..(Len(s) + (Len(t) + 1)) :
             l[i] = IF i <= Len(s) THEN s[i] ELSE Append(t, p)[i - Len(s)]
  BY <1>1, ConcatProperties
<1>4. /\ r \in Seq(S) /\ Len(r) = (Len(s) + Len(t)) + 1
      /\ \A i \in 1..(Len(s) + Len(t)) : r[i] = (s \o t)[i]
      /\ r[(Len(s) + Len(t)) + 1] = p
  BY <1>2, AppendProperties
<1>. HIDE DEF l, r
<1>5. Len(s) \in Nat /\ Len(t) \in Nat
  BY LenProperties
<1>6. Len(l) = Len(r)
  BY <1>3, <1>4, <1>5
<1>7. ASSUME NEW i \in 1..Len(l)
      PROVE  l[i] = r[i]
  <2>1. CASE i <= Len(s)
    <3>1. i \in 1..(Len(s) + Len(t)) /\ i \in 1..(Len(s) + (Len(t) + 1))
      BY <1>3, <1>5, <2>1
    <3>. QED
      BY <1>2, <1>3, <1>4, <2>1, <3>1
  <2>2. CASE i > Len(s) /\ i <= Len(s) + Len(t)
    <3>1. i - Len(s) \in 1..Len(t) /\ i \in 1..(Len(s) + Len(t)) /\ ~(i <= Len(s))
      BY <1>3, <1>5, <2>2
    <3>. QED
      BY <1>1, <1>2, <1>3, <1>4, <1>5, <3>1
  <2>3. CASE i = Len(s) + Len(t) + 1
    <3>1. i - Len(s) = Len(t) + 1 /\ ~(i <= Len(s))
      BY <1>5, <2>3
    <3>. QED
      BY <1>1, <1>3, <1>4, <1>5, <2>3, <3>1
  <2>. QED
    <3>1. i \in Nat /\ i <= Len(s) + Len(t) + 1
      BY <1>3, <1>5
    <3>2. i <= Len(s) \/ (i > Len(s) /\ i <= Len(s) + Len(t)) \/ i = Len(s) + Len(t) + 1
      BY <1>5, <3>1
    <3>. QED
      BY <2>1, <2>2, <2>3, <3>2
<1>8. l = r
  BY <1>3, <1>4, <1>6, <1>7, SeqEqual
<1>. QED
  BY <1>8 DEF l, r

\* A piece that goes into the socket comes after all there is.
LEMMA PiecesGrow ==
    ASSUME TypeOK, NEW c \in Clients, NEW p \in Piece,
           stream'[c] = Append(stream[c], p), buf'[c] = buf[c]
    PROVE  Pieces(c) \in Seq(Piece) /\ Pieces(c)' = Append(Pieces(c), p)
<1>1. stream[c] \in Seq(Piece) /\ buf[c] \in Seq(Piece)
  BY Typed
<1>2. buf[c] \o Append(stream[c], p) = Append(buf[c] \o stream[c], p)
  <2>1. ASSUME NEW b \in Seq(Piece), NEW z \in Seq(Piece)
        PROVE  b \o Append(z, p) = Append(b \o z, p)
    BY AppendAfter
  <2>. QED
    BY <1>1, <2>1
<1>. QED
  BY <1>1, <1>2, ConcatProperties DEF Pieces

LEMMA LostStays ==
    ASSUME TypeOK, AwayInv, [Next]_vars, NEW d \in Clients
    PROVE  (Lost(d) => Lost(d)') /\ (peer[d] = "gone" => peer'[d] = "gone")
<1>. DEFINE Stays == (Lost(d) => Lost(d)') /\ (peer[d] = "gone" => peer'[d] = "gone")
<1>1. CASE UNCHANGED vars
  BY <1>1 DEF Lost, vars, ipcVars, handlers, sockets
<1>2. ASSUME NEW c \in Clients, HandlerStep(c)
      PROVE  Stays
  <2>1. CASE SendReply(c)
    BY <2>1, ReplySent DEF Lost
  <2>2. CASE ~SendReply(c)
    BY <1>2, <2>2, HandlerQuiet DEF Lost, sockets
  <2>. QED
    BY <2>1, <2>2
<1>3. ASSUME NEW c \in Clients, Connect(c) \/ ReadStep(c) \/ GivesUp(c) \/ Pauses(c)
      PROVE  Stays
  BY <1>3, ClientStep DEF Lost
<1>4. ASSUME NEW w \in Workers, SendSpot(w)
      PROVE  Stays
  BY <1>4, SpotSent DEF Lost, handlers
<1>5. ASSUME NEW w \in Workers,
             Decoded(w) \/ CopyList(w) \/ BroadcastEnds(w) \/ WorkerEnds(w)
      PROVE  Stays
  BY <1>5, WorkerQuiet DEF Lost, handlers, sockets
<1>. QED
  BY <1>1, <1>2, <1>3, <1>4, <1>5 DEF Next, BroadcastStep, TypeOK

\* A connection that a step leaves alone, with its lock.
LEMMA PiecesStay ==
    ASSUME NEW c \in Clients, PiecesFit(c), peer[c] = "gone" => peer'[c] = "gone",
           stream'[c] = stream[c], buf'[c] = buf[c],
           peer'[c] # "gone" => (HalfSent(c)' <=> HalfSent(c)),
           HalfSent(c) => InFlight(c)' = InFlight(c)
    PROVE  PiecesFit(c)'
<1>1. Pieces(c)' = Pieces(c)
  BY DEF Pieces
<1>2. PICK half : half = HalfSent(c)
  OBVIOUS
<1>. QED
  BY <1>1, <1>2 DEF PiecesFit

\* A connection that thread x sends a piece of its line to.
LEMMA PiecesSent ==
    ASSUME TypeOK, NEW c \in Clients, PiecesFit(c), NEW x \in Clients \cup Workers,
           NEW e \in Events, buf'[c] = buf[c], peer'[c] = peer[c],
           \/ HeadGoes(x, c, e) /\ ~HalfSent(c) /\ HalfSent(c)' /\ InFlight(c)' = e
           \/ TailGoes(x, c, e) /\ HalfSent(c) /\ ~HalfSent(c)' /\ InFlight(c) = e
    PROVE  PiecesFit(c)'
<1>. USE NamesAssumption, NobodyAssumption
<1>1. HeadOf(e) \in Piece /\ TailOf(e) \in Piece
  BY DEF HeadOf, TailOf, Piece
<1>2. CASE HeadGoes(x, c, e) /\ ~HalfSent(c) /\ HalfSent(c)' /\ InFlight(c)' = e
  <2>1. Pieces(c) \in Seq(Piece) /\ Pieces(c)' = Append(Pieces(c), HeadOf(e))
    BY <1>1, <1>2, PiecesGrow DEF HeadGoes
  <2>2. Whole(Pieces(c)) /\ Len(Pieces(c)) % 2 = 0
    <3>1. Len(Pieces(c)) % 2 # 1 /\ Whole(Pieces(c))
      BY <1>2 DEF PiecesFit, HeadGoes, Lost
    <3>2. Len(Pieces(c)) \in Nat
      BY <2>1, LenProperties
    <3>. QED
      BY <3>1, <3>2
  <2>3. /\ Whole(Pieces(c)') /\ Last(Pieces(c)') = HeadOf(e)
        /\ Len(Pieces(c)') % 2 = 1
    BY <1>1, <2>1, <2>2, WholeGrows DEF HeadOf
  <2>. QED
    BY <1>2, <2>3 DEF PiecesFit, HeadGoes, HeadOf
<1>3. CASE TailGoes(x, c, e) /\ HalfSent(c) /\ ~HalfSent(c)' /\ InFlight(c) = e
  <2>1. Pieces(c) \in Seq(Piece) /\ Pieces(c)' = Append(Pieces(c), TailOf(e))
    BY <1>1, <1>3, PiecesGrow DEF TailGoes
  <2>2. Whole(Pieces(c)) /\ Len(Pieces(c)) % 2 = 1 /\ Last(Pieces(c)).line = e
    BY <1>3 DEF PiecesFit, TailGoes
  <2>3. Whole(Pieces(c)') /\ Len(Pieces(c)') % 2 # 1
    BY <1>1, <2>1, <2>2, WholeGrows DEF TailOf
  <2>. QED
    BY <1>3, <2>3 DEF PiecesFit, TailGoes
<1>. QED
  BY <1>2, <1>3

\* A connection whose client reads: of a line it has not all of, it keeps the
\* piece.
LEMMA PiecesRead ==
    ASSUME TypeOK, NEW c \in Clients, PiecesFit(c), ReadOn(c),
           peer' = peer, HalfSent(c)' <=> HalfSent(c), InFlight(c)' = InFlight(c)
    PROVE  PiecesFit(c)'
<1>. DEFINE s == Pieces(c)
            p == Last(stream[c])
<1>1. /\ stream[c] \in Seq(Piece) /\ buf[c] \in Seq(Piece) /\ Len(stream[c]) \in Nat \ {0}
      /\ Pieces(c) \in Seq(Piece)
  BY Typed, EmptySeq, LenProperties, ConcatProperties DEF ReadOn, Pieces
<1>2. /\ p \in Piece /\ Last(Pieces(c)) = p
      /\ Len(Pieces(c)) \in Nat \ {0}
  <2>1. /\ Len(buf[c]) \in Nat /\ Len(Pieces(c)) = Len(buf[c]) + Len(stream[c])
        /\ Pieces(c)[Len(buf[c]) + Len(stream[c])] = stream[c][Len(stream[c])]
        /\ Len(buf[c]) + Len(stream[c]) \in Nat \ {0}
    <3>1. ASSUME NEW b \in Seq(Piece), NEW z \in Seq(Piece), Len(z) \in Nat \ {0}
          PROVE  /\ Len(b) \in Nat /\ Len(b \o z) = Len(b) + Len(z)
                 /\ (b \o z)[Len(b) + Len(z)] = z[Len(z)]
                 /\ Len(b) + Len(z) \in Nat \ {0}
      BY <3>1, LenProperties, ConcatProperties
    <3>. QED
      BY <1>1, <3>1 DEF Pieces
  <2>2. stream[c][Len(stream[c])] \in Piece
    BY <1>1, ElementOfSeq
  <2>. QED
    <3>1. Len(Pieces(c)) \in Nat \ {0}
      BY <2>1, Zenon
    <3>2. p = stream[c][Len(stream[c])] /\ Last(Pieces(c)) = Pieces(c)[Len(Pieces(c))]
      BY DEF Last
    <3>. HIDE DEF p
    <3>. QED
      BY <2>1, <2>2, <3>1, <3>2
<1>3. /\ Len(Pieces(c)) % 2 = 1 <=> p.part = "head"
      /\ p.part \in {"head", "tail"}
  <2>1. p.part = IF Len(Pieces(c)) % 2 = 1 THEN "head" ELSE "tail"
    BY <1>2 DEF PiecesFit, Whole, Last
  <2>. QED
    BY <2>1
<1>4. stream'[c] = <<>> /\ buf'[c] = IF p.part = "head" THEN <<p>> ELSE <<>>
  BY Typed DEF ReadOn
<1>5. Pieces(c)' = IF p.part = "head" THEN <<p>> ELSE <<>>
  BY <1>2, <1>4 DEF Pieces
<1>. HIDE DEF p
<1>7. Whole(Pieces(c)')
  BY <1>5, <1>3 DEF Whole
<1>8. Len(Pieces(c)') % 2 = 1 <=> Len(Pieces(c)) % 2 = 1
  BY <1>3, <1>5
<1>9. p.part = "head" => Last(Pieces(c)') = p
  BY <1>5 DEF Last
<1>. QED
  BY <1>2, <1>3, <1>7, <1>8, <1>9 DEF PiecesFit

\* A connection whose client leaves.
LEMMA PiecesLeft ==
    ASSUME NEW c \in Clients, peer'[c] = "gone", stream'[c] = <<>>, buf'[c] = <<>>
    PROVE  PiecesFit(c)'
<1>1. Pieces(c)' = <<>>
  BY DEF Pieces
<1>. QED
  BY <1>1 DEF PiecesFit, Whole

LEMMA PieceStep ==
    ASSUME TypeOK, AwayInv, HeldInv, PieceInv, [Next]_vars
    PROVE  PieceInv'
<1>. USE NamesAssumption, NobodyAssumption
<1>1. SUFFICES ASSUME NEW d \in Clients PROVE PiecesFit(d)'
  BY DEF PieceInv
<1>2. PiecesFit(d) /\ (peer[d] = "gone" => peer'[d] = "gone")
  BY LostStays DEF PieceInv
\* A connection whose line in flight stays what it is.
<1>3. ASSUME stream'[d] = stream[d], buf'[d] = buf[d], writer'[d] = writer[d],
             writer[d] = d =>
                 (pc'[d] = "rest" <=> pc[d] = "rest") /\ reply'[d] = reply[d],
             \A w \in Workers : writer[d] = w =>
                 (news'[w].at = "rest" <=> news[w].at = "rest") /\ news'[w].spot = news[w].spot
      PROVE  PiecesFit(d)'
  <2>1. HalfSent(d)' <=> HalfSent(d)
    BY <1>3 DEF HalfSent
  <2>2. HalfSent(d) => InFlight(d)' = InFlight(d)
    <3>1. CASE writer[d] = d
      BY <1>3, <3>1 DEF InFlight
    <3>2. CASE writer[d] # d /\ writer[d] \in Workers
      <4>1. news'[writer[d]].spot = news[writer[d]].spot
        BY <1>3, <3>2
      <4>. QED
        BY <1>3, <3>2, <4>1 DEF InFlight
    <3>. QED
      BY <3>1, <3>2 DEF HalfSent
  <2>. QED
    BY <1>2, <1>3, <2>1, <2>2, PiecesStay
\* A connection that somebody is about to send to, or cannot.
<1>4. ASSUME NEW x \in Clients \cup Workers, NothingGoes(x, d) \/ Waits(x, d),
             buf'[d] = buf[d],
             Waits(x, d) => ~HalfSent(d)'
      PROVE  PiecesFit(d)'
  <2>1. stream'[d] = stream[d]
    BY <1>4 DEF NothingGoes, Waits
  <2>2. CASE peer[d] = "gone"
    <3>1. Pieces(d)' = Pieces(d) /\ peer'[d] = "gone"
      BY <1>2, <1>4, <2>1, <2>2 DEF Pieces
    <3>. QED
      BY <1>2, <3>1 DEF PiecesFit
  <2>3. CASE peer[d] # "gone"
    <3>1. ~HalfSent(d) /\ ~HalfSent(d)'
      BY <1>4, <2>3 DEF NothingGoes, Waits, HalfSent
    <3>. QED
      BY <1>2, <1>4, <2>1, <3>1, PiecesStay
  <2>. QED
    BY <2>2, <2>3
<1>5. CASE UNCHANGED vars
  BY <1>3, <1>5 DEF vars, ipcVars, handlers, sockets
<1>6. ASSUME NEW c \in Clients, HandlerStep(c)
      PROVE  PiecesFit(d)'
  <2>1. CASE SendReply(c) /\ c = d
    <3>1. /\ buf'[d] = buf[d] /\ reply[d] \in Events /\ peer' = peer
          /\ \/ HeadGoes(d, d, reply[d]) /\ reply'[d] = reply[d] /\ pc'[d] = "rest"
                /\ pc[d] = "send"
             \/ TailGoes(d, d, reply[d]) /\ pc'[d] = "recv" /\ pc[d] = "rest"
             \/ NothingGoes(d, d)
             \/ Waits(d, d) /\ pc'[d] = "send"
      BY <2>1, ReplySent, Typed
    <3>2. CASE HeadGoes(d, d, reply[d]) /\ reply'[d] = reply[d] /\ pc'[d] = "rest"
               /\ pc[d] = "send"
      <4>1. ~HalfSent(d) /\ HalfSent(d)' /\ InFlight(d)' = reply[d]
        BY <3>2 DEF HeadGoes, HalfSent, InFlight
      <4>. QED
        BY <1>2, <3>1, <3>2, <4>1, PiecesSent
    <3>3. CASE TailGoes(d, d, reply[d]) /\ pc'[d] = "recv" /\ pc[d] = "rest"
      <4>1. HalfSent(d) /\ ~HalfSent(d)' /\ InFlight(d) = reply[d]
        BY <3>3 DEF TailGoes, HalfSent, InFlight
      <4>. QED
        BY <1>2, <3>1, <3>3, <4>1, PiecesSent
    <3>4. CASE NothingGoes(d, d) \/ (Waits(d, d) /\ pc'[d] = "send")
      <4>1. Waits(d, d) /\ pc'[d] = "send" => ~HalfSent(d)'
        BY DEF Waits, HalfSent
      <4>2. ~(NothingGoes(d, d) /\ Waits(d, d))
        BY DEF NothingGoes, Waits
      <4>. QED
        BY <1>4, <3>1, <3>4, <4>1, <4>2
    <3>. QED
      BY <3>1, <3>2, <3>3, <3>4
  <2>2. CASE SendReply(c) /\ c # d
    BY <1>3, <2>2, ReplySent
  <2>3. CASE ~SendReply(c)
    <3>1. UNCHANGED <<sockets, news>>
      BY <1>6, <2>3, HandlerQuiet
    <3>2. writer[d] = d => pc'[d] = pc[d] /\ reply'[d] = reply[d]
      BY <1>6, <2>3, HandlerQuiet DEF HeldInv
    <3>. QED
      BY <1>3, <3>1, <3>2 DEF sockets
  <2>. QED
    BY <2>1, <2>2, <2>3
<1>7. ASSUME NEW c \in Clients, Connect(c) \/ ReadStep(c) \/ GivesUp(c) \/ Pauses(c)
      PROVE  PiecesFit(d)'
  <2>1. writer' = writer /\ news' = news /\ reply' = reply
        /\ (pc'[d] = "rest" <=> pc[d] = "rest")
    BY <1>7, ClientStep
  <2>2. CASE c = d /\ ReadOn(d)
    <3>1. peer' = peer
      BY <2>2 DEF ReadOn
    <3>2. InFlight(d)' = InFlight(d) /\ (HalfSent(d)' <=> HalfSent(d))
      BY <2>1 DEF InFlight, HalfSent
    <3>. QED
      BY <1>2, <2>2, <3>1, <3>2, PiecesRead
  <2>3. CASE c = d /\ peer'[d] = "gone" /\ stream'[d] = <<>> /\ buf'[d] = <<>>
    BY <2>3, PiecesLeft
  <2>4. CASE stream'[d] = stream[d] /\ buf'[d] = buf[d]
    BY <1>3, <2>1, <2>4
  <2>. QED
    BY <1>7, <2>2, <2>3, <2>4, ClientStep
<1>8. ASSUME NEW w \in Workers, SendSpot(w)
      PROVE  PiecesFit(d)'
  <2>1. /\ UNCHANGED <<pc, peer, reply>> /\ buf'[d] = buf[d]
        /\ \A v \in Workers : news'[v].spot = news[v].spot
        /\ \A v \in Workers \ {w} : news'[v] = news[v]
    BY <1>8, SpotSent DEF handlers
  <2>2. CASE d = Turn(w)
    <3>. DEFINE e == SpotEvent(news[w].spot)
    <3>1. e \in Events
      BY Typed, LinesAreEvents
    <3>. HIDE DEF e
    <3>2. \/ HeadGoes(w, d, e) /\ news[w].at = "send" /\ news'[w].at = "rest"
          \/ TailGoes(w, d, e) /\ news[w].at = "rest"
          \/ NothingGoes(w, d)
          \/ Waits(w, d) /\ news'[w].at = "send"
      BY <1>8, <2>2, SpotSent DEF e
    <3>3. CASE HeadGoes(w, d, e) /\ news[w].at = "send" /\ news'[w].at = "rest"
      <4>1. ~HalfSent(d) /\ HalfSent(d)'
        BY <3>3 DEF HeadGoes, HalfSent
      <4>2. InFlight(d)' = e
        BY <2>1, <3>3 DEF HeadGoes, InFlight, e
      <4>. QED
        BY <1>2, <2>1, <3>1, <3>3, <4>1, <4>2, PiecesSent
    <3>4. CASE TailGoes(w, d, e) /\ news[w].at = "rest"
      <4>1. HalfSent(d) /\ ~HalfSent(d)'
        BY <3>4 DEF TailGoes, HalfSent
      <4>2. InFlight(d) = e
        BY <3>4 DEF TailGoes, InFlight, e
      <4>. QED
        BY <1>2, <2>1, <3>1, <3>4, <4>1, <4>2, PiecesSent
    <3>5. CASE NothingGoes(w, d) \/ (Waits(w, d) /\ news'[w].at = "send")
      <4>1. Waits(w, d) /\ news'[w].at = "send" => ~HalfSent(d)'
        BY DEF Waits, HalfSent
      <4>2. ~(NothingGoes(w, d) /\ Waits(w, d))
        BY DEF NothingGoes, Waits
      <4>. QED
        BY <1>4, <2>1, <3>5, <4>1, <4>2
    <3>. QED
      BY <3>2, <3>3, <3>4, <3>5
  <2>3. CASE d # Turn(w)
    <3>1. stream'[d] = stream[d] /\ writer'[d] = writer[d]
      BY <1>8, <2>3, SpotSent
    <3>2. writer[d] # w
      BY <2>3 DEF HeldInv, Sends
    <3>3. \A v \in Workers : writer[d] = v => news'[v] = news[v]
      BY <2>1, <3>2
    <3>. QED
      BY <1>3, <2>1, <3>1, <3>3
  <2>. QED
    BY <2>2, <2>3
<1>9. ASSUME NEW w \in Workers,
             Decoded(w) \/ CopyList(w) \/ BroadcastEnds(w) \/ WorkerEnds(w)
      PROVE  PiecesFit(d)'
  <2>1. /\ UNCHANGED <<handlers, sockets>> /\ \A v \in Workers \ {w} : news'[v] = news[v]
        /\ news[w].at # "rest" /\ (news[w].at = "send" => Done(w))
    BY <1>9, WorkerQuiet
  <2>2. writer[d] # w
    BY <2>1 DEF HeldInv, Sends
  <2>3. \A v \in Workers : writer[d] = v => news'[v] = news[v]
    BY <2>1, <2>2
  <2>. QED
    BY <1>3, <2>1, <2>3 DEF handlers, sockets
<1>. QED
  BY <1>5, <1>6, <1>7, <1>8, <1>9 DEF Next, BroadcastStep, TypeOK

LEMMA PieceInit == Init => AwayInv /\ HeldInv /\ PieceInv
<1>1. SUFFICES ASSUME Init PROVE AwayInv /\ HeldInv /\ PieceInv
  OBVIOUS
<1>. USE NamesAssumption, NobodyAssumption
<1>2. AwayInv
  BY <1>1 DEF Init, AwayInv
<1>3. HeldInv
  <2>1. /\ \A c \in Clients : writer[c] = NoOne /\ pc[c] = "away"
        /\ \A w \in Workers : news[w].at = "quiet"
    BY <1>1 DEF Init, Quiet
  <2>. QED
    BY <2>1 DEF HeldInv
<1>4. \A c \in Clients : Pieces(c) = <<>> /\ writer[c] = NoOne
  <2>1. \A c \in Clients : buf[c] = <<>> /\ stream[c] = <<>> /\ writer[c] = NoOne
    BY <1>1 DEF Init
  <2>2. <<>> \o <<>> = <<>>
    BY ConcatEmptySeq, EmptySeq
  <2>. QED
    BY <2>1, <2>2 DEF Pieces
<1>5. PieceInv
  <2>1. Len(<<>>) = 0 /\ 0 % 2 # 1
    OBVIOUS
  <2>2. ASSUME NEW c \in Clients
        PROVE  PiecesFit(c)
    <3>1. Pieces(c) = <<>> /\ writer[c] = NoOne
      BY <1>4
    <3>. QED
      BY <2>1, <3>1 DEF PiecesFit, Whole, HalfSent
  <2>. QED
    BY <2>2 DEF PieceInv
<1>. QED
  BY <1>2, <1>3, <1>5

\* No two threads mix their lines on one connection, however many write to it,
\* block in it or give up: what a client receives is whole lines.
THEOREM LinesStayWhole == Spec => []LinesWhole
<1>1. PieceInv => LinesWhole
  BY DEF PieceInv, PiecesFit, LinesWhole, Whole, Pieces
<1>2. Init => AwayInv /\ HeldInv /\ PieceInv
  BY PieceInit
<1>3. TypeOK /\ AwayInv /\ HeldInv /\ PieceInv /\ [Next]_vars
          => AwayInv' /\ HeldInv' /\ PieceInv'
  BY AwayStep, HeldStep, PieceStep
<1>. QED
  BY <1>1, <1>2, <1>3, TypeInit, TypeStep, PTL DEF Spec

-----------------------------------------------------------------------------
(* What a status says.                                                     *)

LEMMA NumberedStep ==
    ASSUME SessionType, NumberedInv, NEW t \in Threads, SessionStep(t),
           inherited' = inherited \/ ~listening'
    PROVE  NumberedInv' /\ (session # 0 => session' # 0)
<1>. USE DEF NumberedInv
<1>1. CASE BeginStart(t) \/ BeginStop(t)
  BY <1>1 DEF BeginStart, BeginStop, Enter
<1>2. CASE NumberIt(t)
  <2>1. session \in Nat /\ session' \in Nat /\ session' > session
    BY <1>2, NobodyAssumption DEF NumberIt, SessionType
  <2>. QED
    BY <2>1
<1>3. CASE ResetCount(t) \/ StartWorker(t) \/ BeginListening(t)
  BY <1>3 DEF ResetCount, StartWorker, BeginListening, Step
<1>4. CASE EndListening(t)
  BY <1>4 DEF EndListening, Step
<1>5. CASE GiveUp(t) \/ Saved(t)
  BY <1>5 DEF GiveUp, Saved, Release
<1>. QED
  BY <1>1, <1>2, <1>3, <1>4, <1>5 DEF SessionStep

\* What a handler does to the session is what Session.tla lets a thread do.
LEMMA HandlerSession ==
    ASSUME TypeOK, NEW c \in Clients, HandlerStep(c)
    PROVE  \/ SessionStep(c) /\ (inherited' = inherited \/ ~listening')
           \/ UNCHANGED <<sessionVars, inherited>>
<1>1. CASE SendReply(c)
  BY <1>1, ReplySent
<1>2. CASE Add(c) \/ ReadListening(c) \/ ReadSession(c) \/ TakeLine(c) \/ Close(c)
  BY <1>2 DEF Add, ReadListening, ReadSession, TakeLine, Close, Elsewhere
<1>3. CASE Unlist(c) \/ NothingToDo(c)
  BY <1>3 DEF Unlist, NothingToDo
<1>4. CASE Begin(c) \/ Inside(c) \/ EndStop(c) \/ Finish(c) \/ Fails(c)
  BY <1>4 DEF Begin, Inside, EndStop, EndListening, Finish, Fails, SessionStep
<1>. QED
  BY <1>1, <1>2, <1>3, <1>4 DEF HandlerStep

\* A handler makes a status of what it reads, and listening is read before
\* session.
LEMMA ReplyStep ==
    ASSUME TypeOK, NumberedInv, ReplyInv, NEW c \in Clients, HandlerStep(c)
    PROVE  Claims(reply'[c]) =>
               session # 0 /\ (pc'[c] = "session" \/ reply'[c].session # 0)
<1>1. /\ reply \in [Clients -> Events] /\ pc \in [Clients -> HandlerSteps]
      /\ reply[c] \in Events
      /\ Claims(reply[c]) => session # 0 /\ (pc[c] = "session" \/ reply[c].session # 0)
  BY Typed DEF TypeOK, ReplyInv
<1>2. \A step : Goto(c, step) => pc'[c] = step
  BY <1>1 DEF Goto
<1>3. \A e, step : Answer(c, e, step) => pc'[c] = step /\ reply'[c] = e
  BY <1>1, <1>2 DEF Answer
<1>4. ~Claims(None) /\ \A kind : ~Claims(Plain(kind))
  BY DEF Claims, None, Plain, Event
<1>5. CASE SendReply(c)
  BY <1>1, <1>4, <1>5, ReplySent
<1>6. CASE Add(c) \/ NothingToDo(c) \/ Finish(c)
  BY <1>3, <1>4, <1>6 DEF Add, NothingToDo, Finish
<1>7. CASE ReadListening(c)
  <2>1. pc'[c] = "session" /\ reply'[c] =
            [reply[c] EXCEPT !.listening = listening, !.inherited = inherited]
    BY <1>3, <1>7 DEF ReadListening
  <2>2. Claims(reply'[c]) <=> listening /\ ~inherited
    BY <1>1, <2>1 DEF Claims, Events
  <2>. QED
    BY <2>1, <2>2 DEF NumberedInv
<1>8. CASE ReadSession(c)
  <2>1. reply'[c] = [reply[c] EXCEPT !.session = session]
    BY <1>3, <1>8 DEF ReadSession
  <2>2. (Claims(reply'[c]) <=> Claims(reply[c])) /\ reply'[c].session = session
    BY <1>1, <2>1 DEF Claims, Events
  <2>. QED
    BY <1>1, <2>2
<1>9. CASE TakeLine(c)
  <2>1. pc[c] # "session"
    BY <1>9 DEF TakeLine
  <2>2. reply'[c] = reply[c] \/ \E kind : reply'[c] = Plain(kind)
    BY <1>1, <1>9 DEF TakeLine
  <2>. QED
    BY <1>1, <1>4, <2>1, <2>2
<1>10. CASE Unlist(c) \/ Close(c) \/ Begin(c) \/ Fails(c) \/ Inside(c) \/ EndStop(c)
  <2>1. reply' = reply /\ pc[c] # "session"
    BY <1>10 DEF Unlist, AtEnd, Close, Begin, Fails, Inside, EndStop, Moves, handlers
  <2>. QED
    BY <1>1, <2>1
<1>. QED
  BY <1>5, <1>6, <1>7, <1>8, <1>9, <1>10 DEF HandlerStep

\* A line that is put at the end says what the others in the socket do.
LEMMA StatusGrows ==
    ASSUME NEW s \in Seq(Piece), NEW p \in Piece,
           \A i \in 1..Len(s) : Claims(s[i].line) => s[i].line.session # 0,
           Claims(p.line) => p.line.session # 0
    PROVE  \A i \in 1..Len(Append(s, p)) : Claims(Append(s, p)[i].line) =>
               Append(s, p)[i].line.session # 0
<1>1. /\ Len(Append(s, p)) = Len(s) + 1 /\ Append(s, p)[Len(s) + 1] = p
      /\ \A i \in 1..Len(s) : Append(s, p)[i] = s[i]
      /\ Len(s) \in Nat
  BY AppendProperties, LenProperties
<1>2. ASSUME NEW i \in 1..(Len(s) + 1)
      PROVE  i \in 1..Len(s) \/ i = Len(s) + 1
  BY <1>1
<1>. QED
  BY <1>1, <1>2

LEMMA StatusStep ==
    ASSUME TypeOK, AwayInv, NumberedInv, ReplyInv, StatusInv, [Next]_vars
    PROVE  NumberedInv' /\ ReplyInv' /\ StatusInv'
<1>1. SessionType
  BY DEF TypeOK, SessionType
<1>2. ASSUME NEW e \in Events
      PROVE  HeadOf(e) \in Piece /\ TailOf(e) \in Piece
             /\ HeadOf(e).line = e /\ TailOf(e).line = e
  BY DEF HeadOf, TailOf, Piece
<1>3. ASSUME NEW x, NEW c \in Clients, NEW e \in Events, Claims(e) => e.session # 0,
             \/ HeadGoes(x, c, e) \/ TailGoes(x, c, e)
             \/ NothingGoes(x, c) \/ Waits(x, c),
             \A d \in Clients \ {c} : stream'[d] = stream[d]
      PROVE  StatusInv'
  <2>1. \A i \in 1..Len(stream[c]) :
            Claims(stream[c][i].line) => stream[c][i].line.session # 0
    BY DEF StatusInv
  <2>2. stream[c] \in Seq(Piece)
    BY Typed
  <2>3. ASSUME NEW i \in 1..Len(stream'[c])
        PROVE  Claims(stream'[c][i].line) => stream'[c][i].line.session # 0
    <3>1. CASE HeadGoes(x, c, e)
      BY <1>2, <1>3, <2>1, <2>2, <2>3, <3>1, StatusGrows DEF HeadGoes
    <3>2. CASE TailGoes(x, c, e)
      BY <1>2, <1>3, <2>1, <2>2, <2>3, <3>2, StatusGrows DEF TailGoes
    <3>3. CASE NothingGoes(x, c) \/ Waits(x, c)
      BY <2>1, <2>3, <3>3 DEF NothingGoes, Waits
    <3>. QED
      BY <1>3, <3>1, <3>2, <3>3
  <2>. QED
    BY <1>3, <2>3 DEF StatusInv
<1>4. CASE UNCHANGED vars
  BY <1>4 DEF NumberedInv, ReplyInv, StatusInv, vars, ipcVars, handlers, sockets, sessionVars
<1>5. ASSUME NEW c \in Clients, HandlerStep(c)
      PROVE  NumberedInv' /\ ReplyInv' /\ StatusInv'
  <2>1. NumberedInv' /\ (session # 0 => session' # 0)
    <3>1. CASE SessionStep(c) /\ (inherited' = inherited \/ ~listening')
      BY <1>1, <3>1, NumberedStep
    <3>2. CASE UNCHANGED <<sessionVars, inherited>>
      BY <3>2 DEF sessionVars, NumberedInv
    <3>. QED
      BY <1>5, <3>1, <3>2, HandlerSession
  <2>2. \A d \in Clients \ {c} : reply'[d] = reply[d] /\ pc'[d] = pc[d]
    BY <1>5, ReplySent, HandlerQuiet
  <2>3. ReplyInv'
    BY <1>5, <2>1, <2>2, ReplyStep DEF ReplyInv
  <2>4. StatusInv'
    <3>1. CASE SendReply(c)
      <4>1. pc[c] \in {"send", "rest"}
            /\ \/ HeadGoes(c, c, reply[c]) \/ TailGoes(c, c, reply[c])
               \/ NothingGoes(c, c) \/ Waits(c, c)
            /\ \A d \in Clients \ {c} : stream'[d] = stream[d]
        BY <3>1, ReplySent
      <4>2. reply[c] \in Events /\ (Claims(reply[c]) => reply[c].session # 0)
        BY <4>1, Typed DEF ReplyInv
      <4>. QED
        BY <1>3, <4>1, <4>2
    <3>2. CASE ~SendReply(c)
      BY <1>5, <3>2, HandlerQuiet DEF StatusInv, sockets
    <3>. QED
      BY <3>1, <3>2
  <2>. QED
    BY <2>1, <2>3, <2>4
<1>6. ASSUME NEW c \in Clients, Connect(c) \/ ReadStep(c) \/ GivesUp(c) \/ Pauses(c)
      PROVE  NumberedInv' /\ ReplyInv' /\ StatusInv'
  <2>1. UNCHANGED <<sessionVars, reply, inherited>>
        /\ \A d \in Clients : pc'[d] = pc[d] \/ pc[d] = "away"
    BY <1>6, ClientStep
  <2>2. NumberedInv' /\ ReplyInv'
    BY <2>1 DEF NumberedInv, ReplyInv, sessionVars
  <2>3. \A d \in Clients : stream'[d] = stream[d] \/ stream'[d] = <<>>
    <3>1. ReadOn(c) => stream'[c] = <<>>
      BY Typed DEF ReadOn
    <3>. QED
      BY <1>6, <3>1, ClientStep
  <2>. QED
    BY <2>2, <2>3 DEF StatusInv
<1>7. ASSUME NEW w \in Workers, SendSpot(w)
      PROVE  NumberedInv' /\ ReplyInv' /\ StatusInv'
  <2>1. UNCHANGED <<sessionVars, handlers, inherited>>
    BY <1>7, SpotSent
  <2>2. SpotEvent(news[w].spot) \in Events /\ ~Claims(SpotEvent(news[w].spot))
    BY Typed, LinesAreEvents DEF Claims, SpotEvent, Event
  <2>3. StatusInv'
    <3>. DEFINE e == SpotEvent(news[w].spot)
    <3>1. e \in Events /\ (Claims(e) => e.session # 0)
      BY <2>2
    <3>2. /\ Turn(w) \in Clients
          /\ \/ HeadGoes(w, Turn(w), e) \/ TailGoes(w, Turn(w), e)
             \/ NothingGoes(w, Turn(w)) \/ Waits(w, Turn(w))
          /\ \A d \in Clients \ {Turn(w)} : stream'[d] = stream[d]
      BY <1>7, SpotSent
    <3>. HIDE DEF e
    <3>. QED
      BY <1>3, <3>1, <3>2
  <2>. QED
    BY <2>1, <2>3 DEF NumberedInv, ReplyInv, sessionVars, handlers
<1>8. ASSUME NEW w \in Workers,
             Decoded(w) \/ CopyList(w) \/ BroadcastEnds(w) \/ WorkerEnds(w)
      PROVE  NumberedInv' /\ ReplyInv' /\ StatusInv'
  BY <1>8, WorkerQuiet DEF NumberedInv, ReplyInv, StatusInv, handlers, sockets
<1>. QED
  BY <1>4, <1>5, <1>6, <1>7, <1>8 DEF Next, BroadcastStep, TypeOK

\* A status that says the daemon is listening names a session, although its
\* fields are read one by one while any number of others start and stop, unless
\* the process has listened only because config.json had said so at its boot.
THEOREM StatusNamesSession == Spec => []ListeningHasSession
<1>1. Init => AwayInv /\ NumberedInv /\ ReplyInv /\ StatusInv
  <2>1. SUFFICES ASSUME Init PROVE NumberedInv /\ ReplyInv /\ StatusInv
    BY PieceInit
  <2>2. /\ inherited = listening /\ phase = "free"
        /\ \A c \in Clients : reply[c] = None /\ stream[c] = <<>>
    BY <2>1 DEF Init, Fresh
  <2>3. ~Claims(None) /\ 1..Len(<<>>) = {}
    BY DEF Claims, None, Plain, Event
  <2>. QED
    BY <2>2, <2>3 DEF NumberedInv, ReplyInv, StatusInv
<1>2. TypeOK /\ AwayInv /\ NumberedInv /\ ReplyInv /\ StatusInv /\ [Next]_vars
          => AwayInv' /\ NumberedInv' /\ ReplyInv' /\ StatusInv'
  BY AwayStep, StatusStep
<1>3. TypeOK /\ StatusInv => ListeningHasSession
  <2>1. SUFFICES ASSUME TypeOK, StatusInv, NEW c \in Clients, NEW p \in ToSet(stream[c])
                 PROVE  Claims(p.line) => p.line.session # 0
    BY DEF ListeningHasSession, Claims
  <2>2. PICK i \in DOMAIN stream[c] : p = stream[c][i]
    BY DEF ToSet
  <2>3. i \in 1..Len(stream[c])
    BY <2>1, Typed, LenProperties
  <2>. QED
    BY <2>1, <2>2, <2>3 DEF StatusInv
<1>. QED
  BY <1>1, <1>2, <1>3, TypeInit, TypeStep, PTL DEF Spec

-----------------------------------------------------------------------------
(* Answers come in order.                                                  *)

\* What a client expects: a greeting and then as many answers as it has lines.
LEMMA ExpectedKinds ==
    ASSUME TypeOK, NEW c \in Clients
    PROVE  /\ Len(job[c]) \in Nat /\ Len(Expected(c)) = Len(job[c]) + 1
           /\ Expected(c)[1] = "status"
           /\ \A k \in 1..Len(job[c]) :
                  /\ job[c][k] \in {"start", "stop"} => Expected(c)[k + 1] = "ack"
                  /\ job[c][k] = "status" => Expected(c)[k + 1] = "status"
                  /\ job[c][k] = "junk" => Expected(c)[k + 1] = "error"
           /\ \A k \in 1..(Len(job[c]) + 1) : Expected(c)[k] # "spot"
<1>. DEFINE kind(l) == CASE l \in {"start", "stop"} -> "ack"
                         [] l = "status" -> "status"
                         [] l = "junk"   -> "error"
                         [] OTHER        -> "none"
            Kinds == {"ack", "status", "error", "none"}
            rest == [i \in DOMAIN job[c] |-> kind(job[c][i])]
<1>1. job[c] \in Seq(Lines) /\ DOMAIN job[c] = 1..Len(job[c]) /\ Len(job[c]) \in Nat
  BY Typed, LenProperties
<1>2. rest \in Seq(Kinds) /\ Len(rest) = Len(job[c])
      /\ \A k \in 1..Len(job[c]) : rest[k] = kind(job[c][k])
  <2>1. \A l : kind(l) \in Kinds
    OBVIOUS
  <2>. HIDE DEF kind
  <2>2. rest = [i \in 1..Len(job[c]) |-> kind(job[c][i])]
    BY <1>1
  <2>. HIDE DEF Kinds
  <2>. QED
    BY <1>1, <2>1, <2>2, IsASeq
<1>3. <<"status">> \in Seq(Kinds) /\ Len(<<"status">>) = 1 /\ <<"status">>[1] = "status"
  OBVIOUS
<1>4. Expected(c) = <<"status">> \o rest
  BY DEF Expected
<1>. HIDE DEF rest, kind, Kinds
<1>5. /\ Len(Expected(c)) = 1 + Len(job[c])
      /\ \A i \in 1..(1 + Len(job[c])) :
             Expected(c)[i] = IF i <= 1 THEN "status" ELSE rest[i - 1]
  BY <1>1, <1>2, <1>3, <1>4, ConcatProperties
<1>6. \A k \in 1..Len(job[c]) :
          /\ k + 1 \in 1..(1 + Len(job[c])) /\ ~(k + 1 <= 1) /\ (k + 1) - 1 = k
  BY <1>1
<1>7. \A k \in 1..Len(job[c]) : Expected(c)[k + 1] = kind(job[c][k])
  BY <1>2, <1>5, <1>6
<1>8. \A l \in Lines : kind(l) # "spot"
  BY DEF kind, Lines
<1>9. ASSUME NEW i \in 1..(Len(job[c]) + 1)
      PROVE  Expected(c)[i] # "spot"
  <2>1. CASE i = 1
    BY <1>1, <1>5, <2>1
  <2>2. CASE i # 1
    <3>1. i - 1 \in 1..Len(job[c]) /\ i \in 1..(1 + Len(job[c])) /\ ~(i <= 1)
      BY <1>1, <2>2
    <3>2. Expected(c)[i] = kind(job[c][i - 1]) /\ job[c][i - 1] \in Lines
      BY <1>1, <1>2, <1>5, <3>1
    <3>. QED
      BY <1>8, <3>2
  <2>. QED
    BY <2>1, <2>2
<1>10. 1 \in 1..(1 + Len(job[c])) /\ Len(Expected(c)) = Len(job[c]) + 1
  BY <1>1, <1>5
<1>. QED
  BY <1>1, <1>5, <1>7, <1>9, <1>10 DEF kind

\* A head completes no line, and a tail completes one more.
LEMMA ArrivingHead ==
    ASSUME TypeOK, NEW c \in Clients, NEW e \in Events,
           stream'[c] = Append(stream[c], HeadOf(e))
    PROVE  /\ Arriving(c)' = Arriving(c) /\ Answers(c)' = Answers(c)
           /\ \A i \in Arriving(c) : stream'[c][i] = stream[c][i]
<1>. DEFINE n == Len(stream[c]) + 1
<1>1. HeadOf(e) \in Piece /\ HeadOf(e).part = "head"
  BY DEF HeadOf, Piece
<1>2. /\ DOMAIN stream[c] = 1..Len(stream[c]) /\ DOMAIN stream'[c] = 1..n
      /\ Len(stream[c]) \in Nat
      /\ \A i \in 1..Len(stream[c]) : stream'[c][i] = stream[c][i]
      /\ stream'[c][n] = HeadOf(e)
  BY <1>1, Typed, AppendProperties, LenProperties
<1>3. \A i : i \in 1..n <=> i \in 1..Len(stream[c]) \/ i = n
  BY <1>2
<1>. HIDE DEF n
<1>4. Arriving(c)' = Arriving(c)
  BY <1>1, <1>2, <1>3 DEF Arriving
<1>5. \A i \in Arriving(c) : stream'[c][i] = stream[c][i]
  BY <1>2 DEF Arriving
<1>. QED
  BY <1>4, <1>5 DEF Answers

LEMMA ArrivingTail ==
    ASSUME TypeOK, NEW c \in Clients, NEW e \in Events,
           stream'[c] = Append(stream[c], TailOf(e))
    PROVE  LET n == Len(stream[c]) + 1
           IN /\ n \notin Arriving(c) /\ Arriving(c)' = Arriving(c) \cup {n}
              /\ Answers(c)' = Answers(c) \cup (IF e.kind = "spot" THEN {} ELSE {n})
              /\ stream'[c][n].line = e
              /\ \A i \in Arriving(c) : stream'[c][i] = stream[c][i]
<1>. DEFINE n == Len(stream[c]) + 1
<1>1. TailOf(e) \in Piece /\ TailOf(e).part = "tail" /\ TailOf(e).line = e
  BY DEF TailOf, Piece
<1>2. /\ DOMAIN stream[c] = 1..Len(stream[c]) /\ DOMAIN stream'[c] = 1..n
      /\ Len(stream[c]) \in Nat
      /\ \A i \in 1..Len(stream[c]) : stream'[c][i] = stream[c][i]
      /\ stream'[c][n] = TailOf(e)
  BY <1>1, Typed, AppendProperties, LenProperties
<1>3. \A i : i \in 1..n <=> i \in 1..Len(stream[c]) \/ i = n
  BY <1>2
<1>4. n \notin 1..Len(stream[c])
  BY <1>2
<1>. HIDE DEF n
<1>5. n \notin Arriving(c) /\ Arriving(c)' = Arriving(c) \cup {n}
  BY <1>1, <1>2, <1>3, <1>4 DEF Arriving
<1>6. \A i \in Arriving(c) : stream'[c][i] = stream[c][i]
  BY <1>2 DEF Arriving
<1>7. Answers(c)' = Answers(c) \cup (IF e.kind = "spot" THEN {} ELSE {n})
  BY <1>1, <1>2, <1>5, <1>6 DEF Answers
<1>. QED
  BY <1>1, <1>2, <1>5, <1>6, <1>7 DEF n

\* A connection whose answers a step leaves as they are.
LEMMA OrderKept ==
    ASSUME NEW c \in Clients, job' = job, heard'[c].own = heard[c].own,
           Answers(c)' = Answers(c),
           \A i \in Answers(c) : stream'[c][i] = stream[c][i]
    PROVE  Total(c)' = Total(c) /\ (InOrder(c) => InOrder(c)')
<1>1. Expected(c)' = Expected(c) /\ \A i : Rank(c, i)' = Rank(c, i)
  BY DEF Expected, Rank
<1>. QED
  BY <1>1 DEF Total, InOrder

\* A connection to which the answer that is due is sent.
LEMMA OrderGrows ==
    ASSUME TypeOK, NEW c \in Clients, NEW e \in Events, job' = job, heard'[c] = heard[c],
           stream'[c] = Append(stream[c], TailOf(e)), e.kind # "spot",
           Total(c) + 1 <= Len(Expected(c)), e.kind = Expected(c)[Total(c) + 1]
    PROVE  Total(c)' = Total(c) + 1 /\ (InOrder(c) => InOrder(c)')
<1>0. PICK n : n = Len(stream[c]) + 1
  OBVIOUS
<1>1. /\ Answers(c)' = Answers(c) \cup {n} /\ n \notin Answers(c)
      /\ stream'[c][n].line = e
      /\ \A i \in Answers(c) : stream'[c][i] = stream[c][i]
  BY <1>0, ArrivingTail DEF Answers
<1>2. /\ IsFiniteSet(Answers(c)) /\ Cardinality(Answers(c)) \in Nat
      /\ Answers(c) \in SUBSET (1..Len(stream[c])) /\ Len(stream[c]) \in Nat
      /\ heard[c].own \in Nat
  BY AnswersFinite, Typed, LenProperties
<1>3. Cardinality(Answers(c)') = Cardinality(Answers(c)) + 1
  <2>1. Cardinality(Answers(c) \cup {n}) = Cardinality(Answers(c)) + 1
    BY <1>1, <1>2, FS_AddElement
  <2>. QED
    BY <1>1, <2>1
<1>4. Total(c)' = Total(c) + 1
  <2>1. Total(c)' = heard[c].own + (Cardinality(Answers(c)) + 1)
    BY <1>3 DEF Total
  <2>2. Total(c) = heard[c].own + Cardinality(Answers(c))
    BY DEF Total
  <2>3. \A a, b \in Nat : a + (b + 1) = (a + b) + 1
    OBVIOUS
  <2>. QED
    BY <1>2, <2>1, <2>2, <2>3, Zenon
<1>5. \A i \in Answers(c) : i < n /\ i # n
  BY <1>0, <1>2
<1>6. \A i \in Answers(c) : {j \in Answers(c)' : j <= i} = {j \in Answers(c) : j <= i}
  <2>1. \A i \in Answers(c) : ~(n <= i)
    BY <1>0, <1>2
  <2>. QED
    BY <1>1, <2>1
<1>7. {j \in Answers(c)' : j <= n} = Answers(c)'
  <2>1. \A j \in Answers(c) : j <= n
    BY <1>0, <1>2
  <2>2. n <= n
    BY <1>0, <1>2
  <2>. QED
    BY <1>1, <2>1, <2>2
<1>8. Expected(c)' = Expected(c)
  BY DEF Expected
<1>9. (\A i \in Answers(c) : Rank(c, i)' = Rank(c, i)) /\ Rank(c, n)' = Total(c) + 1
  <2>1. \A i \in Answers(c) : Rank(c, i)' = Rank(c, i)
    BY <1>6 DEF Rank
  <2>2. Rank(c, n)' = heard[c].own + Cardinality(Answers(c)')
    <3>1. Rank(c, n)' = heard[c].own + Cardinality({j \in Answers(c)' : j <= n})
      BY DEF Rank
    <3>. QED
      BY <1>7, <3>1
  <2>. QED
    BY <1>4, <2>1, <2>2 DEF Total
<1>10. ASSUME InOrder(c), NEW i \in Answers(c)'
       PROVE  /\ Rank(c, i)' <= Len(Expected(c))
              /\ stream'[c][i].line.kind = Expected(c)[Rank(c, i)']
  BY <1>1, <1>9, <1>10 DEF InOrder
<1>11. InOrder(c) => InOrder(c)'
  BY <1>8, <1>10 DEF InOrder
<1>. QED
  BY <1>4, <1>11

\* A step of a handler that sends nothing goes on to the answer that is due.
LEMMA HandlesStep ==
    ASSUME TypeOK, NEW c \in Clients, Handles(c), Counted(c), HandlerStep(c), ~SendReply(c)
    PROVE  Handles(c)' /\ Counted(c)'
<1>. USE DEF Answering
<1>1. /\ pc \in [Clients -> HandlerSteps] /\ reply \in [Clients -> Events]
      /\ handled \in [Clients -> Nat] /\ job[c] \in Seq(Lines)
      /\ reply[c] \in Events /\ handled[c] \in Nat /\ Len(job[c]) \in Nat
  BY Typed, LenProperties DEF TypeOK
<1>2. \A step : Goto(c, step) => pc'[c] = step
  BY <1>1 DEF Goto
<1>3. \A e, step : Answer(c, e, step) =>
          /\ pc'[c] = step /\ reply'[c] = e /\ UNCHANGED <<job, handled>>
  BY <1>1, <1>2 DEF Answer
<1>4. Plain("status").kind = "status" /\ Plain("ack").kind = "ack"
      /\ Plain("error").kind = "error"
  BY DEF Plain, Event
<1>5. job' = job /\ Expected(c)' = Expected(c) /\ Total(c)' = Total(c)
  <2>1. UNCHANGED <<job, stream, heard>>
    BY HandlerQuiet DEF sockets
  <2>. QED
    BY <2>1 DEF Expected, Total, Answers, Arriving
<1>6. Expected(c)[1] = "status"
      /\ \A k \in 1..Len(job[c]) :
             /\ job[c][k] \in {"start", "stop"} => Expected(c)[k + 1] = "ack"
             /\ job[c][k] = "status" => Expected(c)[k + 1] = "status"
             /\ job[c][k] = "junk" => Expected(c)[k + 1] = "error"
  BY ExpectedKinds
<1>7. Lost(c) => Lost(c)'
  BY HandlerQuiet DEF Lost, sockets
\* Where only the place in an answer changes, the count does not.
<1>8. ASSUME handled'[c] = handled[c], pc[c] \in Answering \cup {"add"},
             pc'[c] \in Answering \cup {"close"},
             pc'[c] \in {"start", "stop", "busy"} => Expected(c)[handled[c] + 1] = "ack",
             pc'[c] \in {"snapshot", "session", "send", "rest"} =>
                 reply'[c].kind = Expected(c)[handled[c] + 1]
      PROVE  Handles(c)' /\ Counted(c)'
  BY <1>5, <1>7, <1>8 DEF Handles, Counted
<1>9. CASE Add(c)
  <2>1. /\ pc[c] = "add" /\ pc'[c] = "snapshot" /\ reply'[c] = Plain("status")
        /\ handled'[c] = handled[c]
    BY <1>3, <1>9 DEF Add
  <2>2. handled[c] = 0
    BY <2>1 DEF Handles
  <2>3. Expected(c)[handled[c] + 1] = "status"
    BY <1>6, <2>2
  <2>. QED
    BY <1>4, <1>8, <2>1, <2>3
<1>10. CASE ReadListening(c) \/ ReadSession(c)
  <2>1. /\ pc[c] \in {"snapshot", "session"} /\ pc'[c] \in {"session", "send"}
        /\ handled'[c] = handled[c]
        /\ \/ reply'[c] = [reply[c] EXCEPT !.listening = listening, !.inherited = inherited]
           \/ reply'[c] = [reply[c] EXCEPT !.session = session]
    BY <1>3, <1>10 DEF ReadListening, ReadSession
  <2>2. reply'[c].kind = reply[c].kind
    BY <1>1, <2>1 DEF Events
  <2>. QED
    BY <1>8, <2>1, <2>2 DEF Handles
<1>11. CASE TakeLine(c)
  <2>. DEFINE k == handled[c] + 1
  <2>1. /\ pc[c] = "recv" /\ handled'[c] = k /\ k \in 1..Len(job[c])
        /\ pc'[c] = Handling(job[c][k])
        /\ reply'[c] = CASE job[c][k] = "junk" -> Plain("error")
                         [] job[c][k] = "status" -> Plain("status")
                         [] OTHER -> reply[c]
    BY <1>1, <1>2, <1>11 DEF TakeLine
  <2>2. job[c][k] \in Lines
    BY <1>1, <2>1
  <2>. HIDE DEF k
  <2>3. pc'[c] \in {"start", "stop", "snapshot", "send", "close"}
    BY <2>1, <2>2 DEF Handling, Lines
  <2>4. pc'[c] \in {"start", "stop"} => Expected(c)[k + 1] = "ack"
    BY <1>6, <2>1, <2>2 DEF Handling, Lines
  <2>5. pc'[c] \in {"snapshot", "send"} => reply'[c].kind = Expected(c)[k + 1]
    BY <1>4, <1>6, <2>1, <2>2 DEF Handling, Lines
  <2>6. ~Lost(c)' => Total(c) = k
    BY <1>7, <2>1 DEF Counted, k
  <2>7. Handles(c)'
    BY <1>5, <2>1, <2>3, <2>4, <2>5 DEF Handles
  <2>8. Counted(c)'
    BY <1>5, <2>1, <2>3, <2>6 DEF Counted
  <2>. QED
    BY <2>7, <2>8
<1>12. CASE Unlist(c) \/ Close(c) \/ Fails(c)
  <2>1. pc'[c] \in {"closing", "closed", "close"} /\ handled'[c] = handled[c]
    BY <1>2, <1>12 DEF Unlist, Close, Fails, Moves
  <2>. QED
    BY <1>5, <2>1 DEF Handles, Counted
<1>13. CASE NothingToDo(c) \/ Finish(c)
  <2>1. /\ pc[c] \in {"start", "stop", "busy"} /\ pc'[c] = "send"
        /\ reply'[c] = Plain("ack") /\ handled'[c] = handled[c]
    BY <1>3, <1>13 DEF NothingToDo, Finish
  <2>. QED
    BY <1>4, <1>8, <2>1 DEF Handles
<1>14. CASE Begin(c)
  <2>1. pc[c] \in {"start", "stop"} /\ pc'[c] = "busy" /\ handled'[c] = handled[c]
    BY <1>2, <1>14 DEF Begin, Moves
  <2>. QED
    BY <1>8, <2>1 DEF Handles
<1>15. CASE Inside(c) \/ EndStop(c)
  <2>1. pc[c] = "busy" /\ pc'[c] = pc[c] /\ handled'[c] = handled[c] /\ reply'[c] = reply[c]
    BY <1>15 DEF Inside, EndStop, handlers
  <2>. QED
    BY <1>8, <2>1 DEF Handles
<1>. QED
  BY <1>9, <1>10, <1>11, <1>12, <1>13, <1>14, <1>15 DEF HandlerStep

\* A connection that a step does nothing to.
LEMMA CountKept ==
    ASSUME NEW c \in Clients, Handles(c), Counted(c), InOrder(c), Lost(c) => Lost(c)',
           job' = job, stream'[c] = stream[c], heard'[c] = heard[c],
           handled'[c] = handled[c], reply'[c] = reply[c],
           pc'[c] = pc[c] \/ (pc[c] = "away" /\ pc'[c] = "add")
    PROVE  Handles(c)' /\ Counted(c)' /\ InOrder(c)'
<1>1. Expected(c)' = Expected(c) /\ Answers(c)' = Answers(c)
  BY DEF Expected, Answers, Arriving
<1>2. Total(c)' = Total(c) /\ InOrder(c)'
  BY <1>1, OrderKept
<1>3. Handles(c)'
  BY <1>1 DEF Handles
<1>4. Counted(c)'
  BY <1>2 DEF Counted, Answering
<1>. QED
  BY <1>2, <1>3, <1>4

\* A handler sends the reply.
LEMMA CountReply ==
    ASSUME TypeOK, AwayInv, NEW c \in Clients, Handles(c), Counted(c), InOrder(c),
           SendReply(c), Lost(c) => Lost(c)'
    PROVE  Handles(c)' /\ Counted(c)' /\ InOrder(c)'
<1>. USE DEF Answering
<1>1. /\ job' = job /\ handled' = handled /\ heard' = heard /\ peer' = peer
      /\ reply[c] \in Events /\ handled[c] \in Nat /\ Len(job[c]) \in Nat
      /\ Expected(c)' = Expected(c)
  <2>1. job' = job /\ handled' = handled /\ heard' = heard /\ peer' = peer
    BY ReplySent
  <2>2. reply[c] \in Events /\ Len(job[c]) \in Nat
    BY Typed, LenProperties
  <2>3. handled[c] \in Nat
    BY DEF TypeOK
  <2>4. Expected(c)' = Expected(c)
    BY <2>1 DEF Expected
  <2>. QED
    BY <2>1, <2>2, <2>3, <2>4
<1>2. CASE HeadGoes(c, c, reply[c]) /\ pc[c] = "send" /\ pc'[c] = "rest" /\ reply'[c] = reply[c]
  <2>1. Answers(c)' = Answers(c) /\ \A i \in Answers(c) : stream'[c][i] = stream[c][i]
    BY <1>1, <1>2, ArrivingHead DEF HeadGoes, Answers
  <2>2. Total(c)' = Total(c) /\ InOrder(c)'
    BY <1>1, <2>1, OrderKept
  <2>3. Handles(c)'
    BY <1>1, <1>2 DEF Handles
  <2>4. Counted(c)'
    BY <1>1, <1>2, <2>2 DEF Counted
  <2>. QED
    BY <2>2, <2>3, <2>4
<1>3. CASE TailGoes(c, c, reply[c]) /\ pc[c] = "rest" /\ pc'[c] = "recv"
  <2>1. /\ Total(c) = handled[c] /\ reply[c].kind = Expected(c)[handled[c] + 1]
        /\ handled[c] <= Len(job[c])
    BY <1>3 DEF Counted, Handles, TailGoes, Lost
  <2>2. /\ handled[c] + 1 <= Len(Expected(c)) /\ handled[c] + 1 \in 1..(Len(job[c]) + 1)
        /\ reply[c].kind # "spot"
    BY <1>1, <2>1, ExpectedKinds
  <2>3. Total(c)' = Total(c) + 1 /\ InOrder(c)'
    BY <1>1, <1>3, <2>1, <2>2, OrderGrows DEF TailGoes
  <2>4. Handles(c)'
    BY <1>1, <1>3 DEF Handles
  <2>5. Counted(c)'
    BY <1>1, <1>3, <2>1, <2>3 DEF Counted
  <2>. QED
    BY <2>3, <2>4, <2>5
<1>4. CASE NothingGoes(c, c) /\ pc'[c] = "recv"
  <2>1. Answers(c)' = Answers(c) /\ stream'[c] = stream[c] /\ Lost(c)'
    BY <1>4 DEF NothingGoes, Answers, Arriving
  <2>2. InOrder(c)'
    BY <1>1, <2>1, OrderKept
  <2>. QED
    BY <1>1, <1>4, <2>1, <2>2 DEF Handles, Counted
<1>5. CASE Waits(c, c) /\ pc'[c] = pc[c] /\ reply'[c] = reply[c]
  BY <1>1, <1>5, CountKept DEF Waits
<1>. QED
  BY <1>2, <1>3, <1>4, <1>5, ReplySent

\* A client reads on, or has left.
LEMMA CountRead ==
    ASSUME TypeOK, NEW c \in Clients, Handles(c), Counted(c), Lost(c) => Lost(c)',
           UNCHANGED <<job, handled, reply, pc>>, stream'[c] = <<>>,
           ReadOn(c) \/ peer'[c] = "gone"
    PROVE  Handles(c)' /\ Counted(c)' /\ InOrder(c)'
<1>1. Answers(c)' = {} /\ Expected(c)' = Expected(c)
  BY DEF Answers, Arriving, Expected
<1>2. Handles(c)' /\ InOrder(c)'
  BY <1>1 DEF Handles, InOrder
<1>3. CASE ReadOn(c)
  <2>1. heard'[c].own = heard[c].own + Cardinality(Answers(c))
    BY <1>3 DEF ReadOn, TypeOK
  <2>2. Cardinality(Answers(c)) \in Nat /\ heard[c].own \in Nat
    BY AnswersFinite, Typed
  <2>3. Total(c)' = heard'[c].own + 0
    BY <1>1, FS_EmptySet DEF Total
  <2>4. Total(c)' = Total(c)
    <3>1. \A n \in Nat : n + 0 = n
      OBVIOUS
    <3>2. Total(c) = heard[c].own + Cardinality(Answers(c)) /\ Total(c) \in Nat
      BY <2>2 DEF Total
    <3>. QED
      BY <2>1, <2>3, <3>1, <3>2
  <2>. QED
    BY <1>2, <2>4 DEF Counted
<1>4. CASE peer'[c] = "gone"
  BY <1>2, <1>4 DEF Counted, Lost
<1>. QED
  BY <1>3, <1>4

LEMMA CountStep ==
    ASSUME TypeOK, AwayInv, CountInv, [Next]_vars
    PROVE  CountInv'
<1>1. SUFFICES ASSUME NEW d \in Clients PROVE Handles(d)' /\ Counted(d)' /\ InOrder(d)'
  BY DEF CountInv
<1>2. Handles(d) /\ Counted(d) /\ InOrder(d) /\ (Lost(d) => Lost(d)')
  BY LostStays DEF CountInv
<1>3. CASE UNCHANGED vars
  BY <1>2, <1>3, CountKept DEF vars, ipcVars, handlers, sockets
<1>4. ASSUME NEW c \in Clients, HandlerStep(c)
      PROVE  Handles(d)' /\ Counted(d)' /\ InOrder(d)'
  <2>1. CASE SendReply(c) /\ c = d
    BY <1>2, <2>1, CountReply
  <2>2. CASE SendReply(c) /\ c # d
    BY <1>2, <2>2, ReplySent, CountKept
  <2>3. CASE ~SendReply(c) /\ c = d
    <3>1. UNCHANGED <<job, stream, heard>>
      BY <1>4, <2>3, HandlerQuiet DEF sockets
    <3>2. Answers(d)' = Answers(d)
      BY <3>1 DEF Answers, Arriving
    <3>3. InOrder(d)'
      BY <1>2, <3>1, <3>2, OrderKept
    <3>. QED
      BY <1>2, <1>4, <2>3, <3>3, HandlesStep
  <2>4. CASE ~SendReply(c) /\ c # d
    BY <1>2, <1>4, <2>4, HandlerQuiet, CountKept DEF sockets
  <2>. QED
    BY <2>1, <2>2, <2>3, <2>4
<1>5. ASSUME NEW c \in Clients, Connect(c) \/ ReadStep(c) \/ GivesUp(c) \/ Pauses(c)
      PROVE  Handles(d)' /\ Counted(d)' /\ InOrder(d)'
  <2>1. UNCHANGED <<job, handled, reply>>
        /\ (pc'[d] = pc[d] \/ (pc[d] = "away" /\ pc'[d] = "add"))
    BY <1>5, ClientStep
  <2>2. CASE stream'[d] = stream[d] /\ heard'[d] = heard[d]
    BY <1>2, <2>1, <2>2, CountKept
  <2>3. CASE c = d /\ pc' = pc /\ (ReadOn(d) \/ (peer'[d] = "gone" /\ stream'[d] = <<>>))
    <3>1. stream'[d] = <<>>
      BY <2>3, Typed DEF ReadOn
    <3>. QED
      BY <1>2, <2>1, <2>3, <3>1, CountRead
  <2>. QED
    BY <1>5, <2>2, <2>3, ClientStep
<1>6. ASSUME NEW w \in Workers, SendSpot(w)
      PROVE  Handles(d)' /\ Counted(d)' /\ InOrder(d)'
  <2>1. UNCHANGED <<pc, job, handled, reply, heard>>
    BY <1>6, SpotSent DEF handlers
  <2>2. CASE stream'[d] = stream[d]
    BY <1>2, <2>1, <2>2, CountKept
  <2>3. CASE d = Turn(w) /\ stream'[d] # stream[d]
    <3>. DEFINE e == SpotEvent(news[w].spot)
    <3>1. e \in Events /\ e.kind = "spot"
      BY Typed, LinesAreEvents DEF SpotEvent, Event
    <3>2. HeadGoes(w, d, e) \/ TailGoes(w, d, e)
      BY <1>6, <2>3, SpotSent DEF NothingGoes, Waits
    <3>. HIDE DEF e
    <3>3. /\ Answers(d)' = Answers(d)
          /\ \A i \in Answers(d) : stream'[d][i] = stream[d][i]
      <4>1. CASE HeadGoes(w, d, e)
        BY <3>1, <4>1, ArrivingHead DEF HeadGoes, Answers
      <4>2. CASE TailGoes(w, d, e)
        <5>1. stream'[d] = Append(stream[d], TailOf(e))
          BY <4>2 DEF TailGoes
        <5>2. /\ Answers(d)' = Answers(d) \cup {}
              /\ \A i \in Arriving(d) : stream'[d][i] = stream[d][i]
          BY <3>1, <5>1, ArrivingTail
        <5>. QED
          BY <5>2 DEF Answers
      <4>. QED
        BY <3>2, <4>1, <4>2
    <3>4. Total(d)' = Total(d) /\ InOrder(d)'
      BY <1>2, <2>1, <3>3, OrderKept
    <3>5. Expected(d)' = Expected(d)
      BY <2>1 DEF Expected
    <3>. QED
      BY <1>2, <2>1, <3>4, <3>5 DEF Handles, Counted
  <2>. QED
    BY <1>6, <2>2, <2>3, SpotSent
<1>7. ASSUME NEW w \in Workers,
             Decoded(w) \/ CopyList(w) \/ BroadcastEnds(w) \/ WorkerEnds(w)
      PROVE  Handles(d)' /\ Counted(d)' /\ InOrder(d)'
  <2>1. UNCHANGED <<handlers, sockets>>
    BY <1>7, WorkerQuiet
  <2>. QED
    BY <1>2, <2>1, CountKept DEF handlers, sockets
<1>. QED
  BY <1>3, <1>4, <1>5, <1>6, <1>7 DEF Next, BroadcastStep, TypeOK

LEMMA CountInit == Init => CountInv
<1>1. SUFFICES ASSUME Init, NEW c \in Clients
               PROVE  Handles(c) /\ Counted(c) /\ InOrder(c)
  BY DEF CountInv
<1>2. TypeOK
  BY <1>1, TypeInit
<1>3. /\ pc[c] = "away" /\ handled[c] = 0 /\ stream[c] = <<>> /\ heard[c].own = 0
  BY <1>1 DEF Init
<1>4. Answers(c) = {}
  BY <1>3 DEF Answers, Arriving
<1>5. Total(c) = 0
  BY <1>3, <1>4, FS_EmptySet DEF Total
<1>6. Len(job[c]) \in Nat
  BY <1>2, ExpectedKinds
<1>. QED
  BY <1>3, <1>4, <1>5, <1>6 DEF Handles, Counted, InOrder

\* A client gets its first status and then one answer to each of its lines, in
\* their order, whatever is broadcast between them and whoever else is served.
THEOREM AnswersComeInOrder == Spec => []AnswersInOrder
<1>1. Init => AwayInv /\ CountInv
  BY PieceInit, CountInit
<1>2. TypeOK /\ AwayInv /\ CountInv /\ [Next]_vars => AwayInv' /\ CountInv'
  BY AwayStep, CountStep
<1>3. CountInv => AnswersInOrder
  BY DEF CountInv, InOrder, Rank, AnswersInOrder
<1>. QED
  BY <1>1, <1>2, <1>3, TypeInit, TypeStep, PTL DEF Spec

-----------------------------------------------------------------------------
(* Every spot reaches everyone.                                            *)

LEMMA ListInit == Init => ListInv
<1>1. Init => clients = <<>> /\ Len(<<>>) = 0
  BY DEF Init
<1>2. 1..0 = {}
  OBVIOUS
<1>. QED
  BY <1>1, <1>2 DEF ListInv

\* The clients that are on the list, by their places.
LEMMA OnTheList ==
    ASSUME TypeOK
    PROVE  /\ \A i \in 1..Len(clients) : clients[i] \in Clients
           /\ \A c : c \in ToSet(clients) <=> \E i \in 1..Len(clients) : clients[i] = c
           /\ \A w \in Workers : \A c :
                  c \in ToSet(news[w].told) <=>
                      \E i \in 1..Len(news[w].told) : news[w].told[i] = c
<1>1. clients \in Seq(Clients)
  BY DEF TypeOK
<1>2. DOMAIN clients = 1..Len(clients) /\ \A i \in 1..Len(clients) : clients[i] \in Clients
  BY <1>1, LenProperties
<1>3. \A w \in Workers : DOMAIN news[w].told = 1..Len(news[w].told)
  BY Typed, LenProperties
<1>. QED
  BY <1>2, <1>3 DEF ToSet

LEMMA AddedTo ==
    ASSUME TypeOK, NEW c \in Clients, clients' = Append(clients, c)
    PROVE  /\ Len(clients') = Len(clients) + 1 /\ Len(clients) \in Nat
           /\ \A i \in 1..Len(clients) : clients'[i] = clients[i]
           /\ clients'[Len(clients) + 1] = c
BY AppendProperties, LenProperties DEF TypeOK

LEMMA ListStep ==
    ASSUME TypeOK, AwayInv, ListInv, [Next]_vars
    PROVE  ListInv' /\ \A c \in ToSet(clients)' : c \in ToSet(clients) \/ pc[c] = "add"
<1>0. TypeOK'
  BY TypeStep
<1>1. ASSUME clients' = clients,
             \A c \in Clients : pc'[c] \notin {"away", "add"} \/ pc[c] \in {"away", "add"}
      PROVE  ListInv' /\ \A c \in ToSet(clients)' : c \in ToSet(clients) \/ pc[c] = "add"
  <2>1. ListInv'
    BY <1>1, OnTheList DEF ListInv
  <2>. QED
    BY <1>1, <2>1 DEF ToSet
<1>2. CASE UNCHANGED vars
  BY <1>1, <1>2 DEF vars, ipcVars, handlers
<1>3. ASSUME NEW c \in Clients, HandlerStep(c)
      PROVE  ListInv' /\ \A d \in ToSet(clients)' : d \in ToSet(clients) \/ pc[d] = "add"
  <2>1. /\ pc'[c] \notin {"away", "add"} /\ \A d \in Clients \ {c} : pc'[d] = pc[d]
    BY <1>3, ReplySent, HandlerQuiet
  <2>2. CASE Add(c)
    <3>1. pc[c] = "add" /\ clients' = Append(clients, c)
      BY <2>2 DEF Add
    <3>2. /\ Len(clients') = Len(clients) + 1 /\ Len(clients) \in Nat
          /\ \A i \in 1..Len(clients) : clients'[i] = clients[i]
          /\ clients'[Len(clients) + 1] = c
      BY <3>1, AddedTo
    <3>3. \A i \in 1..Len(clients') : i \in 1..Len(clients) \/ i = Len(clients) + 1
      BY <3>2
    <3>4. \A i \in 1..Len(clients) : clients[i] # c /\ clients[i] \in Clients
      BY <3>1, OnTheList DEF ListInv
    <3>5. ListInv'
      <4>1. \A i, j \in 1..Len(clients') : clients'[i] = clients'[j] => i = j
        BY <3>2, <3>3, <3>4 DEF ListInv
      <4>2. \A i \in 1..Len(clients') : pc'[clients'[i]] \notin {"away", "add"}
        BY <2>1, <3>2, <3>3, <3>4 DEF ListInv
      <4>. QED
        BY <4>1, <4>2 DEF ListInv
    <3>6. ASSUME NEW d \in ToSet(clients)'
          PROVE  d \in ToSet(clients) \/ pc[d] = "add"
      <4>1. PICK i \in 1..Len(clients') : clients'[i] = d
        <5>1. DOMAIN clients' = 1..Len(clients')
          BY <1>0, LenProperties DEF TypeOK
        <5>. QED
          BY <3>6, <5>1 DEF ToSet
      <4>. QED
        BY <3>1, <3>2, <3>3, <4>1, OnTheList
    <3>. QED
      BY <3>5, <3>6
  <2>3. CASE Unlist(c)
    <3>1. clients' = RemoveFirst(clients, c)
      BY <2>3 DEF Unlist, Removed
    <3>2. CASE clients' = clients
      BY <1>1, <2>1, <3>2
    <3>3. CASE \E k \in 1..Len(clients) :
                  /\ Len(clients') = Len(clients) - 1
                  /\ \A i \in 1..(Len(clients) - 1) :
                         clients'[i] = clients[IF i < k THEN i ELSE i + 1]
      <4>1. PICK k \in 1..Len(clients) :
                  /\ Len(clients') = Len(clients) - 1
                  /\ \A i \in 1..(Len(clients) - 1) :
                         clients'[i] = clients[IF i < k THEN i ELSE i + 1]
        BY <3>3
      <4>. DEFINE at(i) == IF i < k THEN i ELSE i + 1
      <4>2. Len(clients) \in Nat
        BY LenProperties DEF TypeOK
      <4>3. /\ \A i \in 1..Len(clients') : at(i) \in 1..Len(clients)
            /\ \A i, j \in 1..Len(clients') : at(i) = at(j) => i = j
        BY <4>1, <4>2
      <4>4. \A i \in 1..Len(clients') : clients'[i] = clients[at(i)]
        BY <4>1
      <4>. HIDE DEF at
      <4>5. \A i, j \in 1..Len(clients') : clients'[i] = clients'[j] => i = j
        BY <4>3, <4>4 DEF ListInv
      <4>6. \A i \in 1..Len(clients') : pc'[clients'[i]] \notin {"away", "add"}
        BY <2>1, <4>3, <4>4, OnTheList DEF ListInv
      <4>7. \A d \in ToSet(clients)' : d \in ToSet(clients)
        <5>1. DOMAIN clients' = 1..Len(clients')
          BY <1>0, LenProperties DEF TypeOK
        <5>. QED
          BY <4>3, <4>4, <5>1, OnTheList DEF ToSet
      <4>. QED
        BY <4>5, <4>6, <4>7 DEF ListInv
    <3>4. clients \in Seq(Clients)
      BY DEF TypeOK
    <3>5. \/ RemoveFirst(clients, c) = clients
          \/ \E k \in 1..Len(clients) :
                 /\ Len(RemoveFirst(clients, c)) = Len(clients) - 1
                 /\ \A i \in 1..(Len(clients) - 1) :
                        RemoveFirst(clients, c)[i] = clients[IF i < k THEN i ELSE i + 1]
      BY <3>4, RemovedFrom
    <3>. QED
      BY <3>1, <3>2, <3>3, <3>5
  <2>4. CASE ~(Add(c) \/ Unlist(c))
    <3>1. clients' = clients
      BY <1>3, <2>4, ReplySent
         DEF HandlerStep, ReadListening, ReadSession, TakeLine, Close, Elsewhere,
             NothingToDo, Begin, Inside, EndStop, Finish, Fails, Outside
    <3>. QED
      BY <1>1, <2>1, <3>1
  <2>. QED
    BY <2>2, <2>3, <2>4
<1>4. ASSUME NEW c \in Clients, Connect(c) \/ ReadStep(c) \/ GivesUp(c) \/ Pauses(c)
      PROVE  clients' = clients /\
             \A d \in Clients : pc'[d] \notin {"away", "add"} \/ pc[d] \in {"away", "add"}
  BY <1>4, ClientStep
<1>5. ASSUME NEW w \in Workers, SendSpot(w)
      PROVE  clients' = clients /\ pc' = pc
  BY <1>5, SpotSent DEF handlers
<1>6. ASSUME NEW w \in Workers,
             Decoded(w) \/ CopyList(w) \/ BroadcastEnds(w) \/ WorkerEnds(w)
      PROVE  clients' = clients /\ pc' = pc
  BY <1>6, WorkerQuiet DEF handlers
<1>. QED
  BY <1>1, <1>2, <1>3, <1>4, <1>5, <1>6 DEF Next, BroadcastStep, TypeOK

\* A worker that a step does not move, and its spot's first clients.
LEMMA WalksOn ==
    ASSUME TypeOK, AwayInv, ListInv, [Next]_vars, NEW w \in Workers, Walks(w),
           news'[w] = news[w],
           \A c \in Clients : pc'[c] \notin {"away", "add"} \/ pc[c] \in {"away", "add"}
    PROVE  Walks(w)'
<1>1. \A c \in ToSet(clients)' : c \in ToSet(clients) \/ pc[c] = "add"
  BY ListStep
<1>2. news[w].due \subseteq Clients
  BY Typed
<1>3. ASSUME news[w].at # "quiet"
      PROVE  \A c \in news[w].due : pc'[c] \notin {"away", "add"}
  BY <1>2, <1>3 DEF Walks
<1>4. ASSUME news[w].at # "quiet", news[w].at # "copy"
      PROVE  news[w].due \cap ToSet(clients)' \subseteq ToSet(news[w].told)
  BY <1>1, <1>4 DEF Walks
<1>. QED
  BY <1>3, <1>4 DEF Walks

LEMMA WalkStep ==
    ASSUME TypeOK, AwayInv, ListInv, \A w \in Workers : Walks(w), [Next]_vars,
           NEW v \in Workers
    PROVE  Walks(v)'
<1>1. CASE UNCHANGED vars
  BY <1>1, WalksOn DEF vars, ipcVars, handlers
<1>2. ASSUME NEW c \in Clients, HandlerStep(c)
      PROVE  Walks(v)'
  BY <1>2, ReplySent, HandlerQuiet, WalksOn
<1>3. ASSUME NEW c \in Clients, Connect(c) \/ ReadStep(c) \/ GivesUp(c) \/ Pauses(c)
      PROVE  Walks(v)'
  BY <1>3, ClientStep, WalksOn
<1>4. ASSUME NEW w \in Workers, w # v, BroadcastStep(w) \/ WorkerEnds(w) \/ Decoded(w)
      PROVE  Walks(v)'
  <2>1. news'[v] = news[v] /\ pc' = pc
    BY <1>4, SpotSent, WorkerQuiet DEF BroadcastStep, handlers
  <2>. QED
    BY <2>1, WalksOn
<1>5. CASE SendSpot(v)
  <2>1. /\ news[v].at # "quiet" /\ news[v].at # "copy" /\ pc' = pc /\ clients' = clients
        /\ news'[v].at # "copy"
        /\ news'[v].due = news[v].due /\ news'[v].told = news[v].told
        /\ news'[v].next \in {news[v].next, news[v].next + 1}
        /\ news[v].next \in 1..Len(news[v].told)
    BY <1>5, SpotSent DEF handlers
  <2>2. Len(news[v].told) \in Nat
    BY Typed, LenProperties
  <2>3. news'[v].next <= Len(news'[v].told) + 1
    BY <2>1, <2>2
  <2>4. ToSet(clients)' = ToSet(clients)
    BY <2>1
  <2>. QED
    BY <2>1, <2>3, <2>4 DEF Walks
<1>6. CASE Decoded(v)
  <2>. DEFINE r == [Quiet EXCEPT !.at = "copy", !.spot = spots', !.due = ToSet(clients)]
  <2>1. r.at = "copy" /\ r.told = <<>> /\ r.next = 1 /\ r.due = ToSet(clients)
    BY DEF Quiet
  <2>2. news'[v] = r /\ pc' = pc
    BY <1>6, Typed DEF Decoded, Broadcasts, handlers
  <2>3. \A c \in ToSet(clients) : pc[c] \notin {"away", "add"}
    BY OnTheList DEF ListInv
  <2>. HIDE DEF r
  <2>4. news'[v].at = "copy" /\ news'[v].told = <<>> /\ news'[v].next = 1
        /\ news'[v].due = ToSet(clients)
    BY <2>1, <2>2
  <2>5. Len(<<>>) = 0 /\ 1..0 = {} /\ 1 <= 0 + 1
    OBVIOUS
  <2>. QED
    BY <2>2, <2>3, <2>4, <2>5 DEF Walks
<1>7. CASE CopyList(v)
  <2>1. news[v] \in News /\ news[v].at = "copy" /\ pc' = pc /\ clients' = clients
    BY <1>7, Typed DEF CopyList, Aside, handlers
  <2>2. news'[v] = [news[v] EXCEPT !.at = "send", !.told = clients]
    BY <1>7, Typed DEF CopyList, Broadcasts
  <2>3. /\ news'[v].at = "send" /\ news'[v].told = clients
        /\ news'[v].next = news[v].next /\ news'[v].due = news[v].due
    BY <2>1, <2>2 DEF News
  <2>4. news[v].next = 1 /\ \A c \in news[v].due : pc[c] \notin {"away", "add"}
    BY <2>1 DEF Walks
  <2>5. 1 <= Len(clients) + 1
    BY LenProperties DEF TypeOK
  <2>. QED
    BY <2>1, <2>3, <2>4, <2>5 DEF Walks, ListInv
<1>8. CASE BroadcastEnds(v)
  <2>1. news'[v].at = "quiet"
    BY <1>8, Typed DEF BroadcastEnds, Broadcasts, Quiet
  <2>. QED
    BY <2>1 DEF Walks
<1>9. CASE WorkerEnds(v)
  BY <1>9, WalksOn DEF WorkerEnds, ipcVars, handlers
<1>. QED
  BY <1>1, <1>2, <1>3, <1>4, <1>5, <1>6, <1>7, <1>8, <1>9
     DEF Next, BroadcastStep, TypeOK

\* The places in the socket where a spot's lines end.
Places(c, n) == {i \in Arriving(c) : stream[c][i].line = SpotEvent(n)}

LEMMA CopiesOf ==
    ASSUME TypeOK, NEW c \in Clients, NEW n
    PROVE  /\ Copies(c, n) = Cardinality(Places(c, n))
                             + (IF n \in heard[c].spots THEN 1 ELSE 0)
           /\ IsFiniteSet(Places(c, n)) /\ Cardinality(Places(c, n)) \in Nat
           /\ Cardinality(Places(c, n)) = 0 <=> Places(c, n) = {}
           /\ Places(c, n) \subseteq 1..Len(stream[c])
<1>1. stream[c] \in Seq(Piece)
  BY Typed
<1>2. Places(c, n) \in SUBSET (DOMAIN stream[c])
  BY DEF Places, Arriving
<1>3. IsFiniteSet(Places(c, n)) /\ Cardinality(Places(c, n)) \in Nat
      /\ Places(c, n) \subseteq 1..Len(stream[c])
  BY <1>1, <1>2, PlacesFinite
<1>. QED
  BY <1>3, FS_EmptySet DEF Copies, Places

LEMMA SpotEventsDiffer ==
    \A n, m : SpotEvent(n) = SpotEvent(m) <=> n = m
BY DEF SpotEvent, Event

\* A piece adds a copy of a spot just when it is the end of its line.
LEMMA CopiesSent ==
    ASSUME TypeOK, NEW x, NEW c \in Clients, NEW e \in Events, NEW n,
           heard'[c] = heard[c],
           HeadGoes(x, c, e) \/ TailGoes(x, c, e)
    PROVE  Copies(c, n)' = IF TailGoes(x, c, e) /\ e = SpotEvent(n)
                           THEN Copies(c, n) + 1 ELSE Copies(c, n)
<1>1. CASE HeadGoes(x, c, e)
  <2>1. ~TailGoes(x, c, e)
    <3>1. HeadOf(e) # TailOf(e) /\ HeadOf(e) \in Piece /\ TailOf(e) \in Piece
      BY DEF HeadOf, TailOf, Piece
    <3>2. stream[c] \in Seq(Piece)
      BY Typed
    <3>3. Append(stream[c], HeadOf(e)) # Append(stream[c], TailOf(e))
      BY <3>1, <3>2, AppendProperties
    <3>. QED
      BY <1>1, <3>3 DEF HeadGoes, TailGoes
  <2>2. Arriving(c)' = Arriving(c) /\ \A i \in Arriving(c) : stream'[c][i] = stream[c][i]
    BY <1>1, ArrivingHead DEF HeadGoes
  <2>3. Places(c, n)' = Places(c, n)
    BY <2>2 DEF Places
  <2>4. Copies(c, n)' = Copies(c, n)
    BY <2>3 DEF Copies, Places
  <2>. QED
    BY <2>1, <2>4
<1>2. CASE TailGoes(x, c, e)
  <2>1. PICK k : /\ k \notin Arriving(c) /\ Arriving(c)' = Arriving(c) \cup {k}
                 /\ stream'[c][k].line = e
                 /\ \A i \in Arriving(c) : stream'[c][i] = stream[c][i]
    BY <1>2, ArrivingTail DEF TailGoes
  <2>2. /\ k \notin Places(c, n)
        /\ Places(c, n)' = IF e = SpotEvent(n) THEN Places(c, n) \cup {k} ELSE Places(c, n)
    BY <2>1 DEF Places
  <2>3. /\ Copies(c, n) = Cardinality(Places(c, n)) + (IF n \in heard[c].spots THEN 1 ELSE 0)
        /\ IsFiniteSet(Places(c, n)) /\ Cardinality(Places(c, n)) \in Nat
    BY CopiesOf
  <2>4. Cardinality(Places(c, n) \cup {k}) = Cardinality(Places(c, n)) + 1
    BY <2>2, <2>3, FS_AddElement
  <2>5. Copies(c, n)' = Cardinality(Places(c, n)')
                        + (IF n \in heard[c].spots THEN 1 ELSE 0)
    BY DEF Copies, Places
  <2>6. CASE e = SpotEvent(n)
    BY <1>2, <2>2, <2>3, <2>4, <2>5, <2>6
  <2>7. CASE e # SpotEvent(n)
    BY <2>2, <2>3, <2>5, <2>7
  <2>. QED
    BY <2>6, <2>7
<1>. QED
  BY <1>1, <1>2

\* Reading a spot takes it from the socket to what was heard.
LEMMA CopiesRead ==
    ASSUME TypeOK, NEW c \in Clients, Known(c), ReadOn(c), NEW n,
           Copies(c, n) \in {0, 1}
    PROVE  Copies(c, n)' = Copies(c, n)
<1>1. /\ heard'[c].spots = heard[c].spots
             \cup {stream[c][i].line.spot : i \in Arriving(c) \ Answers(c)}
      /\ stream'[c] = <<>>
  <2>1. /\ heard \in [Clients -> [own : Nat, spots : SUBSET Nat]]
        /\ stream \in [Clients -> Seq(Piece)]
    BY Typed DEF TypeOK
  <2>. QED
    BY <2>1 DEF ReadOn
<1>2. Places(c, n)' = {}
  BY <1>1 DEF Places, Arriving
<1>3. \A i \in Arriving(c) \ Answers(c) :
          stream[c][i].line.spot = n <=> stream[c][i].line = SpotEvent(n)
  <2>1. \A i \in Arriving(c) : i \in 1..Len(stream[c])
    BY AnswersFinite
  <2>2. SpotEvent(n).spot = n
    BY DEF SpotEvent, Event
  <2>. QED
    BY <2>1, <2>2, SpotEventsDiffer DEF Known, Answers
<1>4. \A i \in Places(c, n) : i \in Arriving(c) \ Answers(c)
  <2>1. SpotEvent(n).kind = "spot"
    BY DEF SpotEvent, Event
  <2>. QED
    BY <2>1 DEF Places, Answers
<1>5. n \in heard'[c].spots <=> n \in heard[c].spots \/ Places(c, n) # {}
  BY <1>1, <1>3, <1>4 DEF Places
<1>6. Copies(c, n)' = 0 + (IF n \in heard'[c].spots THEN 1 ELSE 0)
  <2>1. Copies(c, n)' = Cardinality(Places(c, n)')
                        + (IF n \in heard'[c].spots THEN 1 ELSE 0)
    BY DEF Copies, Places
  <2>. QED
    BY <1>2, <2>1, FS_EmptySet
<1>7. /\ Copies(c, n) = Cardinality(Places(c, n)) + (IF n \in heard[c].spots THEN 1 ELSE 0)
      /\ Cardinality(Places(c, n)) \in Nat
      /\ Cardinality(Places(c, n)) = 0 <=> Places(c, n) = {}
  BY CopiesOf
<1>8. CASE n \in heard[c].spots
  BY <1>5, <1>6, <1>7, <1>8
<1>9. CASE n \notin heard[c].spots
  BY <1>5, <1>6, <1>7, <1>9
<1>. QED
  BY <1>8, <1>9

\* A spot that is known stays known when lines are put into the socket.
LEMMA KnownGrows ==
    ASSUME TypeOK, NEW c \in Clients, NEW e \in Events, Known(c), NEW x,
           HeadGoes(x, c, e) \/ TailGoes(x, c, e), heard'[c] = heard[c], spots' = spots,
           e.kind = "spot" => e = SpotEvent(e.spot) /\ e.spot <= spots
    PROVE  Known(c)'
<1>1. PICK p \in Piece : p.line = e /\ stream'[c] = Append(stream[c], p)
  BY DEF HeadGoes, TailGoes, HeadOf, TailOf, Piece
<1>2. stream[c] \in Seq(Piece) /\ Len(stream[c]) \in Nat
  BY Typed, LenProperties
<1>3. /\ Len(stream'[c]) = Len(stream[c]) + 1
      /\ \A i \in 1..Len(stream[c]) : stream'[c][i] = stream[c][i]
      /\ stream'[c][Len(stream[c]) + 1] = p
  BY <1>1, <1>2, AppendProperties
<1>4. \A i \in 1..Len(stream'[c]) : i \in 1..Len(stream[c]) \/ i = Len(stream[c]) + 1
  BY <1>2, <1>3
<1>. QED
  BY <1>1, <1>3, <1>4 DEF Known

LEMMA KnownStays ==
    ASSUME NEW c \in Clients, Known(c), spots' = spots,
           stream'[c] = stream[c], heard'[c] = heard[c]
    PROVE  Known(c)'
BY DEF Known

\* What a handler sends is an answer.
LEMMA ReplyIsNoSpot ==
    ASSUME TypeOK, CountInv, NEW d \in Clients, pc[d] \in {"send", "rest"}
    PROVE  reply[d].kind # "spot" /\ reply[d] \in Events
<1>1. /\ handled[d] <= Len(job[d]) /\ handled[d] \in Nat
      /\ reply[d].kind = Expected(d)[handled[d] + 1]
  BY DEF CountInv, Handles, TypeOK
<1>2. /\ Len(job[d]) \in Nat
      /\ \A k \in 1..(Len(job[d]) + 1) : Expected(d)[k] # "spot"
  BY ExpectedKinds
<1>3. handled[d] + 1 \in 1..(Len(job[d]) + 1)
  BY <1>1, <1>2
<1>. QED
  BY <1>1, <1>2, <1>3, Typed

LEMMA KnownStep ==
    ASSUME TypeOK, AwayInv, CountInv, SpotsInv, [Next]_vars, NEW d \in Clients
    PROVE  Known(d)'
<1>1. Known(d)
  BY DEF SpotsInv
<1>2. CASE UNCHANGED vars
  BY <1>1, <1>2, KnownStays DEF vars, ipcVars, sockets
<1>3. ASSUME NEW c \in Clients, HandlerStep(c)
      PROVE  Known(d)'
  <2>1. CASE SendReply(c) /\ (c # d \/ NothingGoes(c, c) \/ Waits(c, c))
    BY <1>1, <2>1, ReplySent, KnownStays DEF NothingGoes, Waits
  <2>2. CASE SendReply(c) /\ c = d /\ ~NothingGoes(c, c) /\ ~Waits(c, c)
    <3>1. /\ pc[d] \in {"send", "rest"} /\ heard' = heard /\ spots' = spots
          /\ HeadGoes(d, d, reply[d]) \/ TailGoes(d, d, reply[d])
      BY <2>2, ReplySent
    <3>2. reply[d].kind # "spot" /\ reply[d] \in Events
      BY <3>1, ReplyIsNoSpot
    <3>. QED
      BY <1>1, <3>1, <3>2, KnownGrows
  <2>3. CASE ~SendReply(c)
    BY <1>1, <1>3, <2>3, HandlerQuiet, KnownStays DEF sockets
  <2>. QED
    BY <2>1, <2>2, <2>3
<1>4. ASSUME NEW c \in Clients, Connect(c) \/ ReadStep(c) \/ GivesUp(c) \/ Pauses(c)
      PROVE  Known(d)'
  <2>1. spots' = spots
    BY <1>4, ClientStep
  <2>2. CASE stream'[d] = stream[d] /\ heard'[d] = heard[d]
    BY <1>1, <2>1, <2>2, KnownStays
  <2>3. CASE c = d /\ ReadOn(d)
    <3>1. /\ heard'[d].spots = heard[d].spots
                 \cup {stream[d][i].line.spot : i \in Arriving(d) \ Answers(d)}
          /\ stream'[d] = <<>>
      <4>1. /\ heard \in [Clients -> [own : Nat, spots : SUBSET Nat]]
            /\ stream \in [Clients -> Seq(Piece)]
        BY Typed DEF TypeOK
      <4>. QED
        BY <2>3, <4>1 DEF ReadOn
    <3>2. \A i \in Arriving(d) \ Answers(d) : stream[d][i].line.spot <= spots
      BY <1>1, AnswersFinite DEF Known, Answers
    <3>. QED
      BY <1>1, <2>1, <3>1, <3>2 DEF Known
  <2>4. CASE c = d /\ stream'[d] = <<>> /\ heard'[d] = [own |-> 0, spots |-> {}]
    BY <2>4 DEF Known
  <2>. QED
    BY <1>4, <2>2, <2>3, <2>4, ClientStep
<1>5. ASSUME NEW w \in Workers, SendSpot(w)
      PROVE  Known(d)'
  <2>1. spots' = spots /\ heard' = heard /\ news[w].at # "quiet"
    BY <1>5, SpotSent
  <2>2. CASE stream'[d] = stream[d]
    BY <1>1, <2>1, <2>2, KnownStays
  <2>3. CASE stream'[d] # stream[d]
    <3>. DEFINE e == SpotEvent(news[w].spot)
    <3>1. /\ e \in Events /\ e = SpotEvent(e.spot) /\ e.spot <= spots
      BY <2>1, Typed, LinesAreEvents DEF SpotsInv, SpotEvent, Event
    <3>2. HeadGoes(w, d, e) \/ TailGoes(w, d, e)
      BY <1>5, <2>3, SpotSent DEF NothingGoes, Waits
    <3>. HIDE DEF e
    <3>. QED
      BY <1>1, <2>1, <3>1, <3>2, KnownGrows
  <2>. QED
    BY <2>2, <2>3
<1>6. ASSUME NEW w \in Workers,
             Decoded(w) \/ CopyList(w) \/ BroadcastEnds(w) \/ WorkerEnds(w)
      PROVE  Known(d)'
  <2>1. stream' = stream /\ heard' = heard
    BY <1>6, WorkerQuiet DEF sockets
  <2>2. spots \in Nat /\ (spots' = spots \/ spots' = spots + 1)
    BY <1>6 DEF Decoded, CopyList, BroadcastEnds, WorkerEnds, Aside, ipcVars, TypeOK
  <2>3. /\ \A i \in 1..Len(stream[d]) :
               stream[d][i].line.kind = "spot" => stream[d][i].line.spot \in Nat
        /\ \A n \in heard[d].spots : n \in Nat
    <3>1. \A i \in 1..Len(stream[d]) : stream[d][i] \in Piece
      BY Typed, ElementOfSeq
    <3>2. \A p \in Piece : p.line.spot \in Nat
      BY DEF Piece, Events
    <3>. QED
      BY <3>1, <3>2, Typed
  <2>4. \A n \in Nat : n <= spots => n <= spots'
    BY <2>2
  <2>. QED
    BY <1>1, <2>1, <2>3, <2>4 DEF Known
<1>. QED
  BY <1>2, <1>3, <1>4, <1>5, <1>6 DEF Next, BroadcastStep, TypeOK

LEMMA SpotsStep ==
    ASSUME TypeOK, AwayInv, CountInv, SpotsInv, [Next]_vars
    PROVE  SpotsInv'
<1>1. \A c \in Clients : Known(c)'
  BY KnownStep
\* A broadcast goes on with the spot it has, and a new one has a new spot.
<1>2. ASSUME \A w \in Workers : news'[w].at # "quiet" =>
                 news[w].at # "quiet" /\ news'[w].spot = news[w].spot,
             spots' = spots
      PROVE  SpotsInv'
  BY <1>1, <1>2 DEF SpotsInv
<1>3. CASE UNCHANGED vars
  BY <1>2, <1>3 DEF vars, ipcVars
<1>4. ASSUME NEW c \in Clients, HandlerStep(c)
      PROVE  SpotsInv'
  BY <1>2, <1>4, ReplySent, HandlerQuiet
<1>5. ASSUME NEW c \in Clients, Connect(c) \/ ReadStep(c) \/ GivesUp(c) \/ Pauses(c)
      PROVE  SpotsInv'
  BY <1>2, <1>5, ClientStep
<1>6. ASSUME NEW w \in Workers, SendSpot(w)
      PROVE  SpotsInv'
  <2>1. news[w].at # "quiet" /\ news'[w].spot = news[w].spot /\ spots' = spots
        /\ \A v \in Workers \ {w} : news'[v] = news[v]
    BY <1>6, SpotSent
  <2>. QED
    BY <1>2, <2>1
<1>7. ASSUME NEW w \in Workers, CopyList(w) \/ BroadcastEnds(w) \/ WorkerEnds(w)
      PROVE  SpotsInv'
  <2>1. spots' = spots /\ \A v \in Workers \ {w} : news'[v] = news[v]
    BY <1>7, WorkerQuiet DEF CopyList, BroadcastEnds, WorkerEnds, Aside, ipcVars
  <2>2. news'[w].at # "quiet" => news[w].at # "quiet" /\ news'[w].spot = news[w].spot
    <3>1. CASE CopyList(w)
      <4>1. news[w] \in News /\ news[w].at = "copy"
            /\ news'[w] = [news[w] EXCEPT !.at = "send", !.told = clients]
        BY <3>1, Typed DEF CopyList, Broadcasts
      <4>. QED
        BY <4>1 DEF News
    <3>2. CASE BroadcastEnds(w)
      BY <3>2, Typed DEF BroadcastEnds, Broadcasts, Quiet
    <3>3. CASE WorkerEnds(w)
      BY <3>3 DEF WorkerEnds, ipcVars
    <3>. QED
      BY <1>7, <3>1, <3>2, <3>3
  <2>. QED
    BY <1>2, <2>1, <2>2
<1>8. ASSUME NEW w \in Workers, Decoded(w)
      PROVE  SpotsInv'
  <2>. DEFINE r == [Quiet EXCEPT !.at = "copy", !.spot = spots', !.due = ToSet(clients)]
  <2>1. r.at = "copy" /\ r.spot = spots'
    BY DEF Quiet
  <2>2. news'[w] = r /\ \A v \in Workers \ {w} : news'[v] = news[v]
    BY <1>8, Typed DEF Decoded, Broadcasts
  <2>. HIDE DEF r
  <2>3. spots \in Nat /\ spots' = spots + 1 /\ \A v \in Workers : news[v].spot \in Nat
    BY <1>8, Typed DEF Decoded, TypeOK
  <2>4. \A v \in Workers \ {w} : news[v].at # "quiet" =>
            news[v].spot <= spots' /\ news[v].spot # spots'
    <3>1. \A v \in Workers : news[v].at # "quiet" => news[v].spot <= spots
      BY DEF SpotsInv
    <3>. QED
      BY <2>3, <3>1
  <2>5. spots' <= spots'
    BY <2>3
  <2>6. /\ news'[w].at = "copy" /\ news'[w].spot = spots'
        /\ \A v \in Workers \ {w} :
               news'[v].at = news[v].at /\ news'[v].spot = news[v].spot
    BY <2>1, <2>2
  <2>7. ASSUME NEW u \in Workers, news'[u].at # "quiet"
        PROVE  news'[u].spot <= spots'
    BY <2>4, <2>5, <2>6, <2>7
  <2>8. ASSUME NEW u \in Workers, NEW v \in Workers, news'[u].at # "quiet",
               news'[v].at # "quiet", news'[u].spot = news'[v].spot
        PROVE  u = v
    <3>1. CASE u = w \/ v = w
      BY <2>4, <2>6, <2>8, <3>1
    <3>2. CASE u # w /\ v # w
      BY <2>6, <2>8, <3>2 DEF SpotsInv
    <3>. QED
      BY <3>1, <3>2
  <2>. QED
    BY <1>1, <2>7, <2>8 DEF SpotsInv
<1>. QED
  BY <1>3, <1>4, <1>5, <1>6, <1>7, <1>8 DEF Next, BroadcastStep, TypeOK

\* Where neither the connection nor the worker changes, nor what was served.
LEMMA DeliveredOn ==
    ASSUME TypeOK, AwayInv, [Next]_vars, NEW v \in Workers, NEW d \in Clients,
           Delivered(v, d), stream'[d] = stream[d], heard'[d] = heard[d],
           news'[v].at # "quiet" =>
               /\ news[v].at # "quiet" /\ news'[v].spot = news[v].spot
               /\ d \in Served(v)' <=> d \in Served(v)
    PROVE  Delivered(v, d)'
<1>1. \A n : Copies(d, n)' = Copies(d, n)
  BY DEF Copies, Arriving
<1>2. Lost(d) => Lost(d)'
  BY LostStays
<1>3. SUFFICES ASSUME news'[v].at # "quiet", ~Lost(d)'
               PROVE  Copies(d, news[v].spot)' = IF d \in Served(v)' THEN 1 ELSE 0
  BY DEF Delivered
<1>4. PICK n : n = news[v].spot
  OBVIOUS
<1>5. news'[v].spot = n /\ Copies(d, n) = IF d \in Served(v) THEN 1 ELSE 0
  BY <1>2, <1>3, <1>4 DEF Delivered
<1>. QED
  BY <1>1, <1>3, <1>4, <1>5

\* The worker's own step to a client: who has been served has the spot.
LEMMA DeliveredSent ==
    ASSUME TypeOK, AwayInv, [Next]_vars, NEW v \in Workers, NEW d \in Clients,
           Walks(v), Delivered(v, d), SendSpot(v)
    PROVE  Delivered(v, d)'
<1>1. /\ news[v].at # "quiet" /\ news[v].next \in 1..Len(news[v].told)
      /\ news'[v].spot = news[v].spot /\ news'[v].told = news[v].told
      /\ heard' = heard /\ Turn(v) = news[v].told[news[v].next]
      /\ \A i, j \in 1..Len(news[v].told) : news[v].told[i] = news[v].told[j] => i = j
  BY SpotSent DEF Walks, Turn, Recipients
<1>2. Len(news[v].told) \in Nat
  BY Typed, LenProperties
<1>0. CASE Lost(d)
  BY <1>0, LostStays DEF Delivered
<1>3. CASE ~Lost(d) /\ HeadGoes(v, Turn(v), SpotEvent(news[v].spot)) /\ news'[v].next = news[v].next
  <2>1. Served(v)' = Served(v)
    BY <1>1, <1>3 DEF Served
  <2>2. CASE d # Turn(v)
    BY <1>1, <2>1, <2>2, SpotSent, DeliveredOn
  <2>3. CASE d = Turn(v)
    <3>1. PICK n \in Nat : n = news[v].spot
      BY Typed
    <3>2. SpotEvent(n) \in Events /\ HeadGoes(v, d, SpotEvent(n))
      BY <1>3, <2>3, <3>1, LinesAreEvents
    <3>3. ~TailGoes(v, d, SpotEvent(n))
      <4>1. writer'[d] = v /\ v # NoOne
        BY <3>2, NamesAssumption DEF HeadGoes
      <4>. QED
        BY <4>1 DEF TailGoes
    <3>4. Copies(d, n)' = Copies(d, n)
      BY <1>1, <3>2, <3>3, CopiesSent
    <3>5. Copies(d, n) = IF d \in Served(v) THEN 1 ELSE 0
      BY <1>1, <1>3, <3>1 DEF Delivered
    <3>6. Copies(d, news[v].spot)' = Copies(d, n)'
      BY <1>1, <3>1
    <3>. QED
      BY <2>1, <3>4, <3>5, <3>6 DEF Delivered
  <2>. QED
    BY <2>2, <2>3
<1>4. ASSUME news'[v].next = news[v].next + 1
      PROVE  Served(v)' = Served(v) \cup {Turn(v)} /\ Turn(v) \notin Served(v)
  <2>1. /\ news[v].next \in Nat /\ 1 <= news[v].next
        /\ \A k \in 1..(news[v].next - 1) :
               k \in 1..Len(news[v].told) /\ k # news[v].next
        /\ \A k : k \in 1..((news[v].next + 1) - 1)
                      <=> k \in 1..(news[v].next - 1) \/ k = news[v].next
    BY <1>1, <1>2
  <2>2. Turn(v) \notin Served(v)
    BY <1>1, <2>1 DEF Served
  <2>3. Served(v)' = {news[v].told[k] : k \in 1..((news[v].next + 1) - 1)}
    BY <1>1, <1>4 DEF Served
  <2>4. Served(v)' = Served(v) \cup {Turn(v)}
    <3>1. \A c : c \in Served(v)' <=>
              \/ \E k \in 1..(news[v].next - 1) : c = news[v].told[k]
              \/ c = news[v].told[news[v].next]
      BY <2>1, <2>3
    <3>2. \A c : c \in Served(v) <=> \E k \in 1..(news[v].next - 1) : c = news[v].told[k]
      BY DEF Served
    <3>3. Turn(v) = news[v].told[news[v].next]
      BY <1>1
    <3>. QED
      BY <3>1, <3>2, <3>3
  <2>. QED
    BY <2>2, <2>4
<1>5. CASE ~Lost(d) /\ TailGoes(v, Turn(v), SpotEvent(news[v].spot))
           /\ news'[v].next = news[v].next + 1
  <2>1. CASE d # Turn(v)
    BY <1>1, <1>4, <1>5, <2>1, SpotSent, DeliveredOn
  <2>2. CASE d = Turn(v)
    <3>1. PICK n \in Nat : n = news[v].spot
      BY Typed
    <3>2. SpotEvent(n) \in Events /\ TailGoes(v, d, SpotEvent(n))
      BY <1>5, <2>2, <3>1, LinesAreEvents
    <3>3. Copies(d, n)' = Copies(d, n) + 1
      BY <1>1, <3>2, CopiesSent
    <3>4. Copies(d, n) = 0
      BY <1>1, <1>4, <1>5, <2>2, <3>1, <3>2 DEF TailGoes, Delivered
    <3>5. Copies(d, news[v].spot)' = Copies(d, n)'
      BY <1>1, <3>1
    <3>6. d \in Served(v)'
      BY <1>4, <1>5, <2>2
    <3>. QED
      BY <3>3, <3>4, <3>5, <3>6 DEF Delivered
  <2>. QED
    BY <2>1, <2>2
<1>6. CASE NothingGoes(v, Turn(v)) /\ news'[v].next = news[v].next + 1
  <2>1. CASE d # Turn(v)
    BY <1>1, <1>4, <1>6, <2>1, SpotSent, DeliveredOn
  <2>2. CASE d = Turn(v)
    BY <1>6, <2>2, LostStays DEF NothingGoes, Delivered
  <2>. QED
    BY <2>1, <2>2
<1>7. CASE Waits(v, Turn(v)) /\ news'[v] = news[v]
  <2>1. stream'[d] = stream[d] /\ Served(v)' = Served(v)
    BY <1>7, SpotSent DEF Waits, Served
  <2>. QED
    BY <1>1, <1>7, <2>1, DeliveredOn
<1>. QED
  BY <1>0, <1>3, <1>5, <1>6, <1>7, SpotSent

LEMMA DeliveredStep ==
    ASSUME TypeOK, AwayInv, CountInv, SpotsInv, ServedInv, [Next]_vars,
           NEW v \in Workers, NEW d \in Clients
    PROVE  Delivered(v, d)'
<1>1. Delivered(v, d) /\ Walks(v) /\ Known(d)
  BY DEF ServedInv, SpotsInv
<1>2. ASSUME news'[v] = news[v], stream'[d] = stream[d], heard'[d] = heard[d]
      PROVE  Delivered(v, d)'
  <2>1. Served(v)' = Served(v)
    BY <1>2 DEF Served
  <2>. QED
    BY <1>1, <1>2, <2>1, DeliveredOn
\* Where a spot of another number, or none, is put into the socket or read.
<1>3. ASSUME news'[v] = news[v],
             ~Lost(d) /\ news[v].at # "quiet" =>
                 \A n : n = news[v].spot => Copies(d, n)' = Copies(d, n)
      PROVE  Delivered(v, d)'
  <2>1. Served(v)' = Served(v)
    BY <1>3 DEF Served
  <2>2. SUFFICES ASSUME news[v].at # "quiet", ~Lost(d)'
                 PROVE  Copies(d, news[v].spot)' = IF d \in Served(v)' THEN 1 ELSE 0
    BY <1>3 DEF Delivered
  <2>3. ~Lost(d)
    BY <2>2, LostStays
  <2>4. PICK n : n = news[v].spot
    OBVIOUS
  <2>5. Copies(d, news[v].spot)' = Copies(d, n)'
    BY <1>3, <2>4
  <2>6. Copies(d, n) = IF d \in Served(v) THEN 1 ELSE 0
    BY <1>1, <2>2, <2>3, <2>4 DEF Delivered
  <2>. QED
    BY <1>3, <2>1, <2>2, <2>3, <2>4, <2>5, <2>6
<1>4. CASE UNCHANGED vars
  BY <1>2, <1>4 DEF vars, ipcVars, sockets
<1>5. ASSUME NEW c \in Clients, HandlerStep(c)
      PROVE  Delivered(v, d)'
  <2>1. CASE SendReply(c) /\ (c # d \/ NothingGoes(c, c) \/ Waits(c, c))
    BY <1>2, <2>1, ReplySent DEF NothingGoes, Waits
  <2>2. CASE SendReply(c) /\ c = d /\ ~NothingGoes(c, c) /\ ~Waits(c, c)
    <3>1. /\ pc[d] \in {"send", "rest"} /\ heard' = heard /\ news' = news
          /\ HeadGoes(d, d, reply[d]) \/ TailGoes(d, d, reply[d])
      BY <2>2, ReplySent
    <3>2. reply[d].kind # "spot" /\ reply[d] \in Events
      BY <3>1, ReplyIsNoSpot
    <3>3. \A n : reply[d] # SpotEvent(n)
      BY <3>2 DEF SpotEvent, Event
    <3>4. \A n : Copies(d, n)' = Copies(d, n)
      BY <3>1, <3>2, <3>3, CopiesSent
    <3>. QED
      BY <1>3, <3>1, <3>4
  <2>3. CASE ~SendReply(c)
    BY <1>2, <1>5, <2>3, HandlerQuiet DEF sockets
  <2>. QED
    BY <2>1, <2>2, <2>3
<1>6. ASSUME NEW c \in Clients, Connect(c) \/ ReadStep(c) \/ GivesUp(c) \/ Pauses(c)
      PROVE  Delivered(v, d)'
  <2>1. news' = news
    BY <1>6, ClientStep
  <2>2. CASE stream'[d] = stream[d] /\ heard'[d] = heard[d]
    BY <1>2, <2>1, <2>2
  <2>3. CASE c = d /\ ReadOn(d)
    <3>1. ASSUME NEW n, n = news[v].spot, ~Lost(d), news[v].at # "quiet"
          PROVE  Copies(d, n)' = Copies(d, n)
      <4>1. Copies(d, n) \in {0, 1}
        BY <1>1, <3>1 DEF Delivered
      <4>. QED
        BY <1>1, <2>3, <4>1, CopiesRead
    <3>. QED
      BY <1>3, <2>1, <3>1
  <2>4. CASE c = d /\ peer'[d] = "gone"
    BY <2>4 DEF Delivered, Lost
  <2>. QED
    BY <1>6, <2>2, <2>3, <2>4, ClientStep
<1>7. CASE SendSpot(v)
  BY <1>1, <1>7, DeliveredSent
<1>8. ASSUME NEW w \in Workers, w # v, SendSpot(w)
      PROVE  Delivered(v, d)'
  <2>1. news'[v] = news[v] /\ heard' = heard /\ news[w].at # "quiet"
    BY <1>8, SpotSent
  <2>2. CASE stream'[d] = stream[d]
    BY <1>2, <2>1, <2>2
  <2>3. CASE stream'[d] # stream[d]
    <3>1. PICK m \in Nat : m = news[w].spot
      BY Typed
    <3>2. /\ SpotEvent(m) \in Events
          /\ HeadGoes(w, d, SpotEvent(m)) \/ TailGoes(w, d, SpotEvent(m))
      BY <1>8, <2>3, <3>1, SpotSent, LinesAreEvents DEF NothingGoes, Waits
    <3>3. ASSUME NEW n, n = news[v].spot, news[v].at # "quiet"
          PROVE  Copies(d, n)' = Copies(d, n)
      <4>1. n # m
        BY <1>8, <2>1, <3>1, <3>3 DEF SpotsInv
      <4>2. SpotEvent(m) # SpotEvent(n)
        BY <4>1, SpotEventsDiffer
      <4>. QED
        BY <2>1, <3>2, <4>2, CopiesSent
    <3>. QED
      BY <1>3, <2>1, <3>3
  <2>. QED
    BY <2>2, <2>3
\* A new spot is in no socket yet, and nobody has been told of it.
<1>9. CASE Decoded(v)
  <2>. DEFINE r == [Quiet EXCEPT !.at = "copy", !.spot = spots', !.due = ToSet(clients)]
  <2>1. r.spot = spots' /\ r.next = 1
    BY DEF Quiet
  <2>2. news'[v] = r /\ stream' = stream /\ heard' = heard
    BY <1>9, Typed DEF Decoded, Broadcasts, sockets
  <2>. HIDE DEF r
  <2>3. Served(v)' = {}
    <3>1. news'[v].next = 1 /\ 1..(1 - 1) = {}
      BY <2>1, <2>2
    <3>2. 1..(news'[v].next - 1) = {}
      BY <3>1
    <3>. QED
      BY <3>2 DEF Served
  <2>4. PICK n : n = spots'
    OBVIOUS
  <2>5. spots \in Nat /\ n = spots + 1
    BY <1>9, <2>4 DEF Decoded, TypeOK
  <2>6. ~(n <= spots) /\ SpotEvent(n).kind = "spot" /\ SpotEvent(n).spot = n
    BY <2>5 DEF SpotEvent, Event
  <2>7. Places(d, n) = {} /\ n \notin heard[d].spots
    <3>1. \A i \in Places(d, n) : i \in 1..Len(stream[d]) /\ stream[d][i].line = SpotEvent(n)
      BY CopiesOf DEF Places
    <3>. QED
      BY <1>1, <2>6, <3>1 DEF Known
  <2>8. Copies(d, n) = 0
    <3>1. Copies(d, n) = Cardinality(Places(d, n)) + 0 /\ Cardinality(Places(d, n)) = 0
      BY <2>7, CopiesOf
    <3>. QED
      BY <3>1
  <2>9. Copies(d, news[v].spot)' = Copies(d, n)
    <3>1. news'[v].spot = n
      BY <2>1, <2>2, <2>4
    <3>. QED
      BY <2>2, <3>1 DEF Copies, Arriving
  <2>. QED
    BY <2>3, <2>8, <2>9 DEF Delivered
<1>10. CASE CopyList(v)
  <2>1. news[v] \in News /\ news[v].at = "copy" /\ stream' = stream /\ heard' = heard
    BY <1>10, Typed DEF CopyList, sockets
  <2>2. news'[v] = [news[v] EXCEPT !.at = "send", !.told = clients]
    BY <1>10, Typed DEF CopyList, Broadcasts
  <2>3. news'[v].spot = news[v].spot /\ news'[v].next = news[v].next
    BY <2>1, <2>2 DEF News
  <2>4. news[v].next = 1 /\ 1..(1 - 1) = {}
    BY <1>1, <2>1 DEF Walks
  <2>5. Served(v)' = {} /\ Served(v) = {}
    BY <2>3, <2>4 DEF Served
  <2>. QED
    BY <1>1, <2>1, <2>3, <2>5, DeliveredOn
<1>11. CASE BroadcastEnds(v)
  <2>1. news'[v].at = "quiet"
    BY <1>11, Typed DEF BroadcastEnds, Broadcasts, Quiet
  <2>. QED
    BY <2>1 DEF Delivered
<1>12. CASE WorkerEnds(v)
  BY <1>2, <1>12 DEF WorkerEnds, ipcVars, sockets
<1>13. ASSUME NEW w \in Workers, w # v,
              Decoded(w) \/ CopyList(w) \/ BroadcastEnds(w) \/ WorkerEnds(w)
       PROVE  Delivered(v, d)'
  BY <1>2, <1>13, WorkerQuiet DEF sockets
<1>. QED
  BY <1>4, <1>5, <1>6, <1>7, <1>8, <1>9, <1>10, <1>11, <1>12, <1>13
     DEF Next, BroadcastStep, TypeOK

\* Once a broadcast is over, the worker has been at all clients in its copy of
\* the list.
LEMMA ServedAll ==
    ASSUME TypeOK, NEW w \in Workers, Walks(w), news[w].at = "send", Done(w)
    PROVE  Served(w) = ToSet(news[w].told)
<1>1. /\ news[w].next <= Len(news[w].told) + 1 /\ news[w].next > Len(news[w].told)
      /\ news[w].next \in Nat /\ Len(news[w].told) \in Nat
  BY Typed, LenProperties DEF Walks, Done, Recipients
<1>2. news[w].next - 1 = Len(news[w].told)
  BY <1>1
<1>. QED
  BY <1>2, OnTheList DEF Served

\* Every client that was connected when a spot was decoded, and is so still when
\* it has been broadcast, has it once, and not twice.
THEOREM SpotsReachAll == Spec => []SpotReachesAll
<1>. DEFINE I == AwayInv /\ CountInv /\ ListInv /\ SpotsInv /\ ServedInv
<1>1. Init => I
  <2>1. SUFFICES ASSUME Init PROVE SpotsInv /\ ServedInv
    BY PieceInit, CountInit, ListInit
  <2>2. /\ \A w \in Workers : news[w].at = "quiet"
        /\ \A c \in Clients : stream[c] = <<>> /\ heard[c].spots = {}
    BY <2>1 DEF Init, Quiet
  <2>3. 1..Len(<<>>) = {}
    OBVIOUS
  <2>. QED
    BY <2>2, <2>3 DEF SpotsInv, Known, ServedInv, Walks, Delivered
<1>2. TypeOK /\ I /\ [Next]_vars => I'
  <2>1. SUFFICES ASSUME TypeOK, I, [Next]_vars PROVE I'
    OBVIOUS
  <2>2. \A w \in Workers : Walks(w)
    BY <2>1 DEF ServedInv
  <2>3. ServedInv'
    BY <2>1, <2>2, WalkStep, DeliveredStep DEF ServedInv
  <2>. QED
    BY <2>1, <2>3, AwayStep, CountStep, ListStep, SpotsStep
<1>3. TypeOK /\ I => SpotReachesAll
  <2>1. SUFFICES ASSUME TypeOK, I, NEW w \in Workers, news[w].at = "send", Done(w),
                        NEW c \in news[w].due, ~Lost(c), c \in ToSet(clients)
                 PROVE  Copies(c, news[w].spot) = 1
    BY DEF SpotReachesAll
  <2>2. c \in Clients /\ Walks(w)
    BY <2>1, Typed DEF ServedInv
  <2>3. c \in ToSet(news[w].told)
    BY <2>1, <2>2 DEF Walks
  <2>4. c \in Served(w)
    BY <2>1, <2>2, <2>3, ServedAll
  <2>. QED
    BY <2>1, <2>2, <2>4 DEF ServedInv, Delivered
<1>. QED
  BY <1>1, <1>2, <1>3, TypeInit, TypeStep, PTL DEF Spec
=============================================================================
