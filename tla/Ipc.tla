-------------------------------- MODULE Ipc --------------------------------
(***************************************************************************)
(* The socket of the daemon: _client_handler threads, _ClientManager and   *)
(* the broadcast of spots (src/src/hsd.py), and the programs at the other  *)
(* end (hsctl.py, watch_decodes.py, or any other).  What start, stop and a *)
(* spot do to the session is that of Session.tla, which Hsd implements.    *)
(*                                                                         *)
(* A connection is named by its client.  sendall() copies a line into the  *)
(* socket's buffer in two pieces, for another thread may run in between.   *)
(* A behaviour is the life of one process, after its boot.                 *)
(***************************************************************************)
EXTENDS Session, Sequences, SequencesExt

CONSTANTS
    Boots,     \* what a process may begin with: whether config.json says listening,
               \* and the lines that each client is about to send
    Restless,  \* the clients that may be interrupted or stop reading
    BufSize,   \* pieces of lines a socket holds
    MaxStarts, \* bound: sessions that are begun
    MaxSpots   \* bound: spots decoded in all

Clients == Threads

\* The lines a client can send: commands; "junk", which is not JSON or not a
\* command; and "odd", JSON that is not an object.
Lines == {"start", "stop", "status", "junk", "odd"}

ASSUME BootsAssumption ==
    Boots \subseteq [listening : BOOLEAN, job : [Clients -> Seq(Lines)]]
\* A thread is a client's handler or a worker.
ASSUME NamesAssumption == Workers \cap Clients = {} /\ NoOne \notin Workers
ASSUME SizesAssumption == {BufSize, MaxStarts, MaxSpots} \subseteq Nat \ {0}

VARIABLES
    pc,      \* where the handler thread of a connection is
    job,     \* the lines its client sends, once it has connected
    handled, \* how many of them the handler has taken up
    reply,   \* the event the handler is building or sending
    peer,    \* what the client is doing
    clients, \* _clients._clients
    writer,  \* who holds client.lock
    stream,  \* the pieces in the socket, written and not yet read
    buf,     \* the piece of a line the client has read without its rest
    heard,   \* what the client has read: answers in number, and spots
    news,    \* what a worker is broadcasting
    spots,   \* spots decoded so far
    inherited \* the daemon listens because config.json said so when it began,
             \* and nobody has stopped it since (not in the code)

handlers == <<pc, job, handled, reply>>
sockets == <<peer, writer, stream, buf, heard>>
ipcVars == <<handlers, sockets, clients, news, spots, inherited>>
vars == <<sessionVars, ipcVars>>

\* A line to a client.  Session 0 is null; inherited, which is not sent, goes
\* with listening.
Event(kind, n) == [kind |-> kind, listening |-> FALSE, inherited |-> FALSE,
                   session |-> 0, spot |-> n]
Plain(kind) == Event(kind, 0)
None == Plain("none")
SpotEvent(n) == Event("spot", n)

\* What a worker does with a spot: the clients there were when it was decoded
\* (not in the code), the copy of the list, the next client in it.
Quiet == [at |-> "quiet", spot |-> 0, due |-> {}, told |-> <<>>, next |-> 1]

\* main boots a process into what config.json says: start_listening returns
\* at once if that is listening, so there is no session, worker or capture.
Init ==
    /\ Fresh
    /\ \E boot \in Boots : listening = boot.listening /\ job = boot.job
    /\ inherited = listening
    /\ pc = [c \in Clients |-> "away"]
    /\ handled = [c \in Clients |-> 0]
    /\ reply = [c \in Clients |-> None]
    /\ peer = [c \in Clients |-> "away"]
    /\ clients = <<>>
    /\ writer = [c \in Clients |-> NoOne]
    /\ stream = [c \in Clients |-> <<>>]
    /\ buf = [c \in Clients |-> <<>>]
    /\ heard = [c \in Clients |-> [own |-> 0, spots |-> {}]]
    /\ news = [w \in Workers |-> Quiet]
    /\ spots = 0

-----------------------------------------------------------------------------
(* Faults: plausible slips in the operations below, one per definition.    *)

\* sendall without client.lock.
BeginsUnlocked(x, c) ==
    /\ ~(peer[c] = "gone" \/ pc[c] = "closed")
    /\ writer' = [writer EXCEPT ![c] = x]

\* A line that is not JSON is skipped like an empty one.
HandlingJunkSkipped(line) ==
    CASE line = "status" -> "snapshot"
      [] line \in {"start", "stop"} -> line
      [] line = "odd"    -> "close"
      [] line = "junk"   -> "recv"

\* join() without a timeout.
JoinReturnsOnly == worker \notin running

\* The list itself is walked, not a copy.
LiveList(w) == clients

\* Only the end of a connection takes its client off the list, an exception
\* in a command does not.
UnlistUnlessRaised(c) ==
    /\ \/ pc[c] = "close"
       \/ pc[c] = "recv" /\ handled[c] = Len(job[c]) /\ peer[c] = "gone"
    /\ clients' = IF pc[c] = "recv" THEN RemoveFirst(clients, c) ELSE clients
    /\ pc' = [pc EXCEPT ![c] = "closing"]
    /\ UNCHANGED <<sessionVars, sockets, job, handled, reply, news, spots, inherited>>

\* send() lets the OSError out.
SendRaises(x, c) == FALSE

-----------------------------------------------------------------------------
(* Sending a line.                                                         *)

\* Either end has closed the connection: sendall raises, which send() swallows.
Lost(c) == peer[c] = "gone" \/ pc[c] = "closed"
Room(c) == Len(stream[c]) < BufSize

Put(c, piece, e) ==
    stream' = [stream EXCEPT ![c] = Append(@, [part |-> piece, line |-> e])]

\* with client.lock: sendall begins, and blocks while there is no room for a
\* piece of line e in the socket of c ...
Begins(x, c) == writer[c] = NoOne /\ ~Lost(c) /\ writer' = [writer EXCEPT ![c] = x]
SendBlocks(x, c) ==
    /\ Begins(x, c) /\ ~Room(c)
    /\ UNCHANGED <<peer, stream, buf, heard>>

\* ... until both are there.  It is not woken by the daemon's own close.
SendHead(x, c, e) ==
    /\ Begins(x, c) \/ (writer[c] = x /\ peer[c] # "gone" /\ UNCHANGED writer)
    /\ Room(c)
    /\ Put(c, "head", e)
    /\ UNCHANGED <<peer, buf, heard>>

SendTail(x, c, e) ==
    /\ writer[c] = x /\ peer[c] # "gone" /\ Room(c)
    /\ writer' = [writer EXCEPT ![c] = NoOne]
    /\ Put(c, "tail", e)
    /\ UNCHANGED <<peer, buf, heard>>

\* It raises at once, or when the peer leaves, and the line is dropped.
SendDropped(x, c) ==
    /\ \/ writer[c] = NoOne /\ Lost(c)
       \/ writer[c] = x /\ peer[c] = "gone"
    /\ writer' = [writer EXCEPT ![c] = NoOne]
    /\ UNCHANGED <<peer, stream, buf, heard>>

-----------------------------------------------------------------------------
(* _client_handler.                                                        *)

Goto(c, step) == pc' = [pc EXCEPT ![c] = step]
Answer(c, e, step) ==
    Goto(c, step) /\ reply' = [reply EXCEPT ![c] = e] /\ UNCHANGED <<job, handled>>
Moves(c, step) == Goto(c, step) /\ UNCHANGED <<job, handled, reply>>
Elsewhere == UNCHANGED <<sessionVars, clients, news, spots, inherited>>

\* _clients.add, and the fields of the first status one by one.
Add(c) ==
    /\ pc[c] = "add"
    /\ clients' = Append(clients, c)
    /\ Answer(c, Plain("status"), "snapshot")
    /\ UNCHANGED <<sessionVars, sockets, news, spots, inherited>>

\* _status_snapshot, without _state_lock: config["listening"] is read first
\* and _session_seq later.
ReadListening(c) ==
    /\ pc[c] = "snapshot"
    /\ Answer(c, [reply[c] EXCEPT !.listening = listening, !.inherited = inherited],
              "session")
    /\ Elsewhere /\ UNCHANGED sockets
ReadSession(c) ==
    /\ pc[c] = "session"
    /\ Answer(c, [reply[c] EXCEPT !.session = session], "send")
    /\ Elsewhere /\ UNCHANGED sockets

SendReply(c) ==
    /\ \/ pc[c] = "send" /\ SendBlocks(c, c) /\ UNCHANGED handlers
       \/ pc[c] = "send" /\ SendHead(c, c, reply[c]) /\ Moves(c, "rest")
       \/ pc[c] = "rest" /\ SendTail(c, c, reply[c]) /\ Answer(c, None, "recv")
       \/ pc[c] \in {"send", "rest"} /\ SendDropped(c, c) /\ Answer(c, None, "recv")
    /\ Elsewhere

\* Where _handle_command goes with a line; an exception that is not an
\* OSError ends the thread, through the finally clause.
Handling(line) ==
    CASE line = "start"  -> "start"
      [] line = "stop"   -> "stop"
      [] line = "status" -> "snapshot"
      [] line = "junk"   -> "send"
      [] line = "odd"    -> "close"

TakeLine(c) ==
    /\ pc[c] = "recv" /\ handled[c] < Len(job[c])
    /\ handled' = [handled EXCEPT ![c] = @ + 1]
    /\ LET line == job[c][handled[c] + 1]
       IN /\ Goto(c, Handling(line))
          /\ reply' = [reply EXCEPT ![c] = CASE line = "junk" -> Plain("error")
                                             [] line = "status" -> Plain("status")
                                             [] OTHER -> @]
    /\ UNCHANGED job
    /\ Elsewhere /\ UNCHANGED sockets

\* recv returns nothing or raises: the client has left.
AtEnd(c) == pc[c] = "recv" /\ handled[c] = Len(job[c]) /\ peer[c] = "gone"

\* The finally clause, after that or after another exception: _clients.remove.
Removed(c) == RemoveFirst(clients, c)
Unlist(c) ==
    /\ pc[c] = "close" \/ AtEnd(c)
    /\ clients' = Removed(c)
    /\ Moves(c, "closing")
    /\ UNCHANGED <<sessionVars, sockets, news, spots, inherited>>
Close(c) ==
    /\ pc[c] = "closing"
    /\ Moves(c, "closed")
    /\ Elsewhere /\ UNCHANGED sockets

-----------------------------------------------------------------------------
(* start_listening and stop_listening in the handler's thread.             *)

Outside == UNCHANGED <<sockets, clients, news, spots>>

\* Nothing to do: the answer is the same.
NothingToDo(c) ==
    /\ lock = NoOne
    /\ pc[c] = IF listening THEN "start" ELSE "stop"
    /\ Answer(c, Plain("ack"), "send")
    /\ Outside /\ UNCHANGED <<sessionVars, inherited>>

Begin(c) ==
    /\ \/ pc[c] = "start" /\ session < MaxStarts /\ BeginStart(c)
       \/ pc[c] = "stop" /\ BeginStop(c)
    /\ Moves(c, "busy")
    /\ Outside /\ UNCHANGED inherited

\* The join of a worker's thread has a timeout, for the worker may be in a
\* sendall() that does not return.
EndOfJoin == TRUE

Inside(c) ==
    /\ pc[c] = "busy"
    /\ \/ NumberIt(c) /\ session' = session + 1
       \/ ResetCount(c) \/ StartWorker(c) \/ BeginListening(c)
    /\ Outside /\ UNCHANGED <<handlers, inherited>>
EndStop(c) ==
    /\ pc[c] = "busy"
    /\ EndOfJoin
    /\ EndListening(c)
    /\ inherited' = FALSE
    /\ Outside /\ UNCHANGED handlers

Finish(c) ==
    /\ pc[c] = "busy"
    /\ Saved(c)
    /\ Answer(c, Plain("ack"), "send")
    /\ Outside /\ UNCHANGED inherited

\* start_listening raises; at which step makes no difference here.
Fails(c) ==
    /\ pc[c] = "busy" /\ phase = "capture"
    /\ GiveUp(c)
    /\ Moves(c, "close")
    /\ Outside /\ UNCHANGED inherited

HandlerStep(c) ==
    \/ Add(c) \/ ReadListening(c) \/ ReadSession(c) \/ SendReply(c)
    \/ TakeLine(c) \/ Unlist(c) \/ Close(c)
    \/ NothingToDo(c) \/ Begin(c) \/ Inside(c) \/ EndStop(c) \/ Finish(c)
    \/ Fails(c)

-----------------------------------------------------------------------------
(* A decode worker's thread, in _on_spot.                                  *)

Broadcasts(w, record) == news' = [news EXCEPT ![w] = record]
Aside == UNCHANGED <<sessionVars, handlers, clients, spots, inherited>>

Decoded(w) ==
    /\ news[w].at = "quiet" /\ spots < MaxSpots
    /\ CountSpot(w)
    /\ spots' = spots + 1
    /\ Broadcasts(w, [Quiet EXCEPT !.at = "copy", !.spot = spots', !.due = ToSet(clients)])
    /\ UNCHANGED <<handlers, sockets, clients, inherited>>

\* broadcast: the list is copied under its lock ...
CopyList(w) ==
    /\ news[w].at = "copy"
    /\ Broadcasts(w, [news[w] EXCEPT !.at = "send", !.told = clients])
    /\ Aside /\ UNCHANGED sockets

\* ... and the clients in the copy are sent the spot one after the other.
Recipients(w) == news[w].told
Done(w) == news[w].next > Len(Recipients(w))

SendSpot(w) ==
    /\ news[w].at \in {"send", "rest"} /\ ~Done(w)
    /\ LET c == Recipients(w)[news[w].next]
           e == SpotEvent(news[w].spot)
           after == [news[w] EXCEPT !.at = "send", !.next = @ + 1]
       IN \/ /\ news[w].at = "send" /\ SendBlocks(w, c)
             /\ UNCHANGED news
          \/ /\ news[w].at = "send" /\ SendHead(w, c, e)
             /\ Broadcasts(w, [news[w] EXCEPT !.at = "rest"])
          \/ /\ news[w].at = "rest" /\ SendTail(w, c, e)
             /\ Broadcasts(w, after)
          \/ /\ SendDropped(w, c)
             /\ Broadcasts(w, after)
    /\ Aside

BroadcastEnds(w) ==
    /\ news[w].at = "send" /\ Done(w)
    /\ Broadcasts(w, Quiet)
    /\ Aside /\ UNCHANGED sockets

WorkerEnds(w) ==
    /\ w \in running /\ news[w].at = "quiet"
    /\ Exit(w)
    /\ UNCHANGED ipcVars

BroadcastStep(w) == CopyList(w) \/ SendSpot(w) \/ BroadcastEnds(w)

-----------------------------------------------------------------------------
(* The clients.                                                            *)

\* A client connects, sends its lines and begins to read.
Connect(c) ==
    /\ peer[c] = "away"
    /\ peer' = [peer EXCEPT ![c] = "reading"]
    /\ Moves(c, "add")
    /\ UNCHANGED <<sessionVars, clients, writer, stream, buf, heard, news, spots,
                   inherited>>

\* hsctl start, stop and status send one command and wait for an event of one
\* kind; for status, the greeting will do.  Other clients read on.
Awaited(c) ==
    CASE job[c] \in {<<"start">>, <<"stop">>} -> {"ack"}
      [] job[c] = <<"status">>              -> {"status"}
      [] OTHER                              -> {}

\* The lines that a read from the socket would complete, by the places where
\* they end in it.
Arriving(c) == {i \in DOMAIN stream[c] : stream[c][i].part = "tail"}
Answers(c) == {i \in Arriving(c) : stream[c][i].line.kind # "spot"}
Satisfied(c) == \E i \in Arriving(c) : stream[c][i].line.kind \in Awaited(c)

\* The client's end of the socket is closed; what was not read is lost.
Leaves(c) ==
    /\ peer' = [peer EXCEPT ![c] = "gone"]
    /\ stream' = [stream EXCEPT ![c] = <<>>]
    /\ buf' = [buf EXCEPT ![c] = <<>>]
    /\ heard' = [heard EXCEPT ![c] = [own |-> 0, spots |-> {}]]
    /\ UNCHANGED <<sessionVars, handlers, clients, writer, news, spots, inherited>>

\* recv takes what there is; whole lines are handled, a last piece is kept.
ReadOn(c) ==
    /\ peer[c] = "reading" /\ stream[c] # <<>> /\ ~Satisfied(c)
    /\ stream' = [stream EXCEPT ![c] = <<>>]
    /\ buf' = [buf EXCEPT ![c] = IF Last(stream[c]).part = "head"
                                 THEN <<Last(stream[c])>> ELSE <<>>]
    /\ heard' = [heard EXCEPT
           ![c].own = @ + Cardinality(Answers(c)),
           ![c].spots = @ \cup {stream[c][i].line.spot : i \in Arriving(c) \ Answers(c)}]
    /\ UNCHANGED <<sessionVars, handlers, clients, peer, writer, news, spots, inherited>>

ReadAnswer(c) == peer[c] = "reading" /\ Satisfied(c) /\ Leaves(c)

\* There is no more to read, for the daemon has closed the connection, which
\* the other end sees once no thread is in a sendall() to it.
ReadEnd(c) ==
    /\ peer[c] = "reading" /\ stream[c] = <<>> /\ pc[c] = "closed" /\ writer[c] = NoOne
    /\ Leaves(c)

\* The user interrupts the client; or hsctl gives up, having received nothing
\* for 5 s.  A client may also stop reading, for good as far as it matters.
GivesUp(c) == c \in Restless /\ peer[c] \in {"reading", "paused"} /\ Leaves(c)
Pauses(c) ==
    /\ c \in Restless
    /\ peer[c] = "reading"
    /\ peer' = [peer EXCEPT ![c] = "paused"]
    /\ UNCHANGED <<sessionVars, handlers, clients, writer, stream, buf, heard,
                   news, spots, inherited>>

ReadStep(c) == ReadOn(c) \/ ReadAnswer(c) \/ ReadEnd(c)

-----------------------------------------------------------------------------

Next ==
    \/ \E c \in Clients :
           Connect(c) \/ HandlerStep(c) \/ ReadStep(c) \/ GivesUp(c) \/ Pauses(c)
    \/ \E w \in Workers : BroadcastStep(w) \/ WorkerEnds(w)
    \/ \E w \in running : Decoded(w)

\* Threads that can go on do, and those that wait for a lock, which is free
\* again and again, get it in the end.  Clients that have not stopped reading
\* read.  Nothing makes clients come or go, and nothing makes spots.
Fairness ==
    /\ \A c \in Clients : SF_vars(HandlerStep(c)) /\ WF_vars(ReadStep(c))
    /\ \A w \in Workers : SF_vars(BroadcastStep(w))

Spec == Init /\ [][Next]_vars /\ Fairness

-----------------------------------------------------------------------------
(* Properties.                                                             *)

HandlerSteps == {"away", "add", "snapshot", "session", "send", "rest", "recv",
                 "start", "stop", "busy", "close", "closing", "closed"}
Events == [kind : {"none", "status", "ack", "error", "spot"}, listening : BOOLEAN,
           inherited : BOOLEAN, session : Nat, spot : Nat]

\* The type of the state.
TypeOK ==
    /\ lock \in Threads \cup {NoOne} /\ phase \in Phases
    /\ listening \in BOOLEAN /\ {session, spotCount} \subseteq Nat
    /\ worker \in Workers \cup {NoWorker} /\ running \subseteq Workers
    /\ pc \in [Clients -> HandlerSteps]
    /\ job \in [Clients -> Seq(Lines)]
    /\ handled \in [Clients -> Nat]
    /\ reply \in [Clients -> Events]
    /\ peer \in [Clients -> {"away", "reading", "paused", "gone"}]
    /\ clients \in Seq(Clients)
    /\ writer \in [Clients -> Clients \cup Workers \cup {NoOne}]
    /\ {stream, buf} \subseteq [Clients -> Seq([part : {"head", "tail"}, line : Events])]
    /\ heard \in [Clients -> [own : Nat, spots : SUBSET Nat]]
    /\ news \in [Workers -> [at : {"quiet", "copy", "send", "rest"}, spot : Nat,
                            due : SUBSET Clients, told : Seq(Clients), next : Nat \ {0}]]
    /\ spots \in Nat /\ inherited \in BOOLEAN

\* No two threads mix their lines on one connection: what a client receives
\* is whole lines, although a handler and workers write to it at a time.
LinesWhole ==
    \A c \in Clients :
        LET s == buf[c] \o stream[c]
        IN \A i \in 1..Len(s) :
               /\ s[i].part = IF i % 2 = 1 THEN "head" ELSE "tail"
               /\ i % 2 = 0 => s[i].line = s[i - 1].line

\* A client gets its first status and then one answer to each of its lines,
\* in their order, whatever is broadcast between them.
Expected(c) ==
    <<"status">> \o [i \in DOMAIN job[c] |->
        CASE job[c][i] \in {"start", "stop"} -> "ack"
          [] job[c][i] = "status" -> "status"
          [] job[c][i] = "junk"   -> "error"
          [] OTHER                -> "none"]

AnswersInOrder ==
    \A c \in Clients : \A i \in Answers(c) :
        LET n == heard[c].own + Cardinality({j \in Answers(c) : j <= i})
        IN /\ n <= Len(Expected(c))
           /\ stream[c][i].line.kind = Expected(c)[n]

\* A status that says the daemon is listening names a session, although its
\* fields are read one by one while other clients start and stop, unless the
\* daemon listened then only because config.json had said so when it began: a
\* process that has begun a session does not answer with session_seq null.
ListeningHasSession ==
    \A c \in Clients : \A p \in ToSet(stream[c]) :
        p.line.kind = "status" /\ p.line.listening /\ ~p.line.inherited
            => p.line.session # 0

\* Once a broadcast is over, every client that was there when the spot was
\* decoded and has not left since has the spot, read or in its socket, once.
Copies(c, n) ==
    Cardinality({i \in Arriving(c) : stream[c][i].line = SpotEvent(n)})
    + (IF n \in heard[c].spots THEN 1 ELSE 0)

SpotReachesAll ==
    \A w \in Workers : news[w].at = "send" /\ Done(w) =>
        \A c \in news[w].due :
            \/ Lost(c) \/ c \notin ToSet(clients)
            \/ Copies(c, news[w].spot) = 1

\* Every line a client sends is dealt with, or its connection ended, unless
\* it does not read: another client that does not read does not prevent it,
\* although it may block a worker that stop_listening waits for.
CommandsAnswered ==
    \A c \in Clients :
        pc[c] = "add" ~> \/ pc[c] = "recv" /\ handled[c] = Len(job[c])
                        \/ pc[c] = "closed"
                        \/ peer[c] = "paused"

\* A client that has left is taken off the list, whatever its handler is in.
GhostsRemoved == \A c \in Clients : peer[c] = "gone" ~> c \notin ToSet(clients)

\* A broadcast comes to its end if nobody stops reading: clients that leave in
\* the middle of it do not hold it up.
BroadcastsEnd ==
    \A w \in Workers :
        news[w].at # "quiet" ~> \/ news[w].at = "quiet"
                               \/ \E c \in Clients : peer[c] = "paused"

-----------------------------------------------------------------------------
(* What the documentation says and the code does not keep.                 *)

\* Spots are broadcast to all connected clients: one that is connected when a
\* spot is decoded, and reads, gets it.
SpotsReachReaders ==
    \A c \in Clients, w \in Workers, n \in 1..MaxSpots :
        news[w].spot = n /\ c \in news[w].due
            ~> \/ peer[c] # "reading" \/ Lost(c)
               \/ Copies(c, n) # 0
=============================================================================
