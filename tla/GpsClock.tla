------------------------------ MODULE GpsClock ------------------------------
(***************************************************************************)
(* GpsdSource and GpsClock (src/src/gps_clock.py) with the way hsd.py      *)
(* starts and asks them: the thread that polls gpsd for the offset between *)
(* GPS time and the system clock, over a connection gpsd writes to at its  *)
(* own pace, while the system clock may be set at any moment.              *)
(*                                                                         *)
(* Time is counted in whole units from the start of the model.  A line is  *)
(* modelled by its kind and the time it was sent at; one that has arrived  *)
(* in part counts as not arrived.                                          *)
(***************************************************************************)
EXTENDS Integers, Sequences, SequencesExt

CONSTANTS
    None,          \* None
    Skews,         \* what the system clock can be ahead of the true time
    MaxTime,       \* bound: the time at which the model's clock stops
    MaxQueue,      \* bound: lines sent and not handled yet
    MaxBurst,      \* bound: lines gpsd sends while a drain is under way
    MaxMisc,       \* bound: lines without a usable fix
    Malformed,     \* the malformed lines gpsd may send that are JSON all the same
    GpsdMayGo      \* whether gpsd can be down, at first or later

ASSUME SkewsAssumption == Skews \subseteq Int /\ Skews # {}
ASSUME BoundsAssumption ==
    /\ MaxTime \in Nat /\ MaxQueue \in Nat \ {0} /\ MaxBurst \in Nat /\ MaxMisc \in Nat
    /\ GpsdMayGo \in BOOLEAN
ASSUME MalformedAssumption == Malformed \subseteq {"badtime", "odd"}

VARIABLES
    now,         \* the true time
    skew,        \* the system clock minus the true time
    gpsdUp,      \* whether gpsd runs
    open,        \* whether gpsd still holds the connection
    wire,        \* lines sent and not received
    buf,         \* _buf, as lines
    pc,          \* where the polling thread is
    latest,      \* latest in next()
    offset,      \* _offset
    stopEvent,   \* _stop_event
    burst,       \* lines sent since the drain began
    misc,        \* lines without a usable fix so far
    began,       \* history: when next() was called
    floor,       \* history: when the newest report that waited then was sent
    took,        \* history: how long the poll took that got the last fix
    aged,        \* history: how old the newest report was that it found waiting
    stepped      \* history: whether the clock was set since the last fix

world == <<now, skew, stepped>>
gpsd == <<gpsdUp, open, misc>>
history == <<began, floor, took, aged>>
thread == <<pc, latest, offset, history>>
vars == <<world, gpsd, wire, buf, thread, stopEvent, burst>>

\* Reports with a fix, without one, with a time that does not parse; a line of
\* another class, one that is not JSON, and one that is JSON but no object.
TPV == {"fix", "nofix", "badtime"}
Kinds == TPV \cup {"sky", "garbled", "odd"}

\* Where an exception that nothing catches ends the thread: in next(), for a
\* line that is no object, or in poll_once(), for a time that does not parse.
Deaths == {"noobject", "notime"}
Line == [kind : Kinds, at : Nat]

ASSUME NoneAssumption == None \notin Line

\* The TPV reports among some lines.
Reports(lines) == {lines[i] : i \in {j \in 1..Len(lines) : lines[j].kind \in TPV}}

\* _start_gps_clock: without gpsd, or if it closes the connection or is silent
\* before its banner, there is no clock, for good.  A banner that is not JSON
\* raises what _start_gps_clock does not catch, and the daemon does not start.
Init ==
    /\ now = 0
    /\ skew \in Skews
    /\ gpsdUp \in BOOLEAN /\ (gpsdUp \/ GpsdMayGo)
    /\ pc \in {"noclock"} \cup (IF gpsdUp THEN {"idle", "nodaemon"} ELSE {})
    /\ open = (pc = "idle")
    /\ wire = <<>> /\ buf = <<>>
    /\ latest = None /\ offset = None
    /\ stopEvent = FALSE
    /\ burst = 0 /\ misc = 0
    /\ began = 0 /\ floor = 0 /\ took = 0 /\ aged = 0 /\ stepped = FALSE

-----------------------------------------------------------------------------
(* Faults: plausible slips in the operations below.                        *)

\* The oldest report waiting is returned.
FirstReport == "use"

\* next() returns what the drain has found, even if that is nothing.
NoWait == "use"

\* The time of a report without a fix is used.
AnyTime(line) == line.kind \in TPV

\* The loop does not look at _stop_event again.
IgnoresStop == FALSE

\* A timeout is not caught.
TimeoutKills == "dead"

-----------------------------------------------------------------------------
(* The world.                                                              *)

Tick ==
    /\ now < MaxTime
    /\ now' = now + 1
    /\ UNCHANGED <<skew, stepped, gpsd, wire, buf, thread, stopEvent, burst>>

\* Someone sets the system clock.
SetClock ==
    /\ \E s \in Skews \ {skew} : skew' = s
    /\ stepped' = TRUE
    /\ UNCHANGED <<now, gpsd, wire, buf, thread, stopEvent, burst>>

Send(kind) ==
    /\ gpsdUp /\ open
    /\ Len(wire) + Len(buf) < MaxQueue
    /\ pc = "drain" => burst < MaxBurst
    /\ wire' = Append(wire, [kind |-> kind, at |-> now])
    /\ burst' = IF pc = "drain" THEN burst + 1 ELSE burst
    /\ UNCHANGED <<world, gpsdUp, open, buf, thread, stopEvent>>

SendFix == Send("fix") /\ UNCHANGED misc

\* A report without a fix, another class of report, a malformed line.
SendMisc ==
    /\ misc < MaxMisc
    /\ misc' = misc + 1
    /\ \E kind \in Kinds \ {"fix"} :
           /\ kind \in {"badtime", "odd"} => kind \in Malformed
           /\ Send(kind)

GpsdGoes ==
    /\ GpsdMayGo /\ gpsdUp
    /\ gpsdUp' = FALSE /\ open' = FALSE
    /\ UNCHANGED <<world, misc, wire, buf, thread, stopEvent, burst>>

GpsdReturns ==
    /\ GpsdMayGo /\ ~gpsdUp
    /\ gpsdUp' = TRUE
    /\ UNCHANGED <<world, open, misc, wire, buf, thread, stopEvent, burst>>

-----------------------------------------------------------------------------
(* The polling thread.                                                     *)

SetStopEvent ==
    /\ ~stopEvent /\ pc \notin {"noclock", "nodaemon"}
    /\ stopEvent' = TRUE
    /\ UNCHANGED <<world, gpsd, wire, buf, thread, burst>>

\* while not self._stop_event.is_set()
StopSeen == stopEvent

\* The thread is at the head of its loop, the wait behind it.
BeginPoll ==
    /\ pc = "idle"
    /\ pc' = IF StopSeen THEN "ended" ELSE "drain"
    /\ latest' = None
    /\ burst' = 0
    /\ began' = now
    /\ LET queued == {l.at : l \in Reports(buf \o wire)}
       IN  floor' = IF queued = {} THEN now ELSE Max(queued)
    /\ UNCHANGED <<world, gpsd, wire, buf, offset, took, aged, stopEvent>>

\* recv() takes what has arrived, or part of it.
Receive ==
    /\ pc \in {"drain", "block"}
    /\ buf = <<>>
    /\ \E n \in 1..Len(wire) :
           /\ buf' = SubSeq(wire, 1, n)
           /\ wire' = SubSeq(wire, n + 1, Len(wire))
    /\ UNCHANGED <<world, gpsd, thread, stopEvent, burst>>

\* Where next() goes on after a report in the drain.
AfterReport == "drain"

\* The next line of the drain, or of the wait for a report: json.loads
\* raises, which ends the poll, or get() does, which ends the thread, or the
\* line is a report, or it is passed over.
TakeLine ==
    /\ pc \in {"drain", "block"}
    /\ buf # <<>>
    /\ LET line == Head(buf)
       IN  \/ /\ line.kind = "garbled"
              /\ pc' = "idle" /\ UNCHANGED latest
           \/ /\ line.kind = "odd"
              /\ pc' = "noobject" /\ UNCHANGED latest
           \/ /\ line.kind \in TPV
              /\ latest' = line
              /\ pc' = IF pc = "block" THEN "use" ELSE AfterReport
           \/ /\ line.kind = "sky"
              /\ UNCHANGED <<pc, latest>>
    /\ buf' = Tail(buf)
    /\ UNCHANGED <<world, gpsd, wire, offset, history, stopEvent, burst>>

\* if latest is None: wait for a report
AfterDrain == IF latest = None THEN "block" ELSE "use"

\* select() finds nothing more to read.
DrainEnds ==
    /\ pc = "drain"
    /\ buf = <<>> /\ wire = <<>> /\ open
    /\ pc' = AfterDrain
    /\ UNCHANGED <<world, gpsd, wire, buf, latest, offset, history, stopEvent, burst>>

\* recv() returns b"" and _readline raises ConnectionError.
Closed ==
    /\ pc \in {"drain", "block"}
    /\ buf = <<>> /\ wire = <<>> /\ ~open
    /\ pc' = "idle"
    /\ UNCHANGED <<world, gpsd, wire, buf, latest, offset, history, stopEvent, burst>>

\* Where poll_once() leaves the thread when next() raises OSError.
AfterError == "idle"

\* recv() has waited for the socket's timeout.
TimesOut ==
    /\ pc = "block"
    /\ buf = <<>> /\ wire = <<>> /\ open
    /\ pc' = AfterError
    /\ UNCHANGED <<world, gpsd, wire, buf, latest, offset, history, stopEvent, burst>>

\* mode >= 2 and a time
Usable(line) == line.kind \in {"fix", "badtime"}

\* The time a report gives; without a fix the receiver has its own idea.
StatedTime(line) == IF line.kind = "nofix" THEN 0 ELSE line.at

NoFix ==
    /\ pc = "use"
    /\ ~Usable(latest)
    /\ pc' = "idle"
    /\ UNCHANGED <<world, gpsd, wire, buf, latest, offset, history, stopEvent, burst>>

\* fromisoformat() raises outside the try; nothing catches it.
ParseRaises ==
    /\ pc = "use"
    /\ Usable(latest) /\ latest.kind = "badtime"
    /\ pc' = "notime"
    /\ UNCHANGED <<world, gpsd, wire, buf, latest, offset, history, stopEvent, burst>>

UseFix ==
    /\ pc = "use"
    /\ Usable(latest) /\ latest.kind # "badtime"
    /\ offset' = StatedTime(latest) - (now + skew)
    /\ took' = now - began
    /\ aged' = began - floor
    /\ stepped' = FALSE
    /\ pc' = "idle"
    /\ UNCHANGED <<now, skew, gpsd, wire, buf, latest, began, floor, stopEvent, burst>>

PollStep ==
    \/ BeginPoll \/ Receive \/ TakeLine \/ DrainEnds \/ Closed \/ TimesOut
    \/ NoFix \/ ParseRaises \/ UseFix

-----------------------------------------------------------------------------

Next ==
    \/ Tick \/ SetClock \/ SendFix \/ SendMisc \/ GpsdGoes \/ GpsdReturns
    \/ SetStopEvent \/ PollStep

Spec == Init /\ [][Next]_vars

\* The polling thread runs, and a gpsd that is up and can write sends a fix
\* now and then.
FairSpec == Spec /\ WF_vars(PollStep) /\ WF_vars(SendFix)

-----------------------------------------------------------------------------
(* Properties.                                                             *)

\* timestamp(), and _now_utc() in hsd.py: without an offset, or a clock at
\* all, the system's time.
timestamp == now + skew + (IF offset = None THEN 0 ELSE offset)

\* The type of the state.
TypeOK ==
    /\ now \in Nat /\ skew \in Skews /\ stepped \in BOOLEAN
    /\ gpsdUp \in BOOLEAN /\ open \in BOOLEAN /\ misc \in Nat
    /\ wire \in Seq(Line) /\ buf \in Seq(Line)
    /\ pc \in {"noclock", "nodaemon", "idle", "drain", "block", "use", "ended"} \cup Deaths
    /\ latest \in Line \cup {None} /\ (pc = "use" => latest # None)
    /\ offset \in Int \cup {None}
    /\ stopEvent \in BOOLEAN /\ burst \in Nat
    /\ {began, floor, took, aged} \subseteq Nat

\* The report next() returns is no older than any that was waiting when it
\* was called, however long the thread had slept.
NeverStale == pc = "use" => latest.at >= floor

\* Once there has been a fix, and until the system clock is set, timestamp()
\* is never ahead of the true time.  It is behind by no more than the poll that
\* got the fix took and, if reports were waiting when that began, the age the
\* newest of them had then: a report that waited for the whole of a sleep is
\* as old as its age says, and no older one is ever used.
TimestampWithin ==
    offset # None /\ ~stepped => timestamp <= now /\ now - timestamp <= took + aged

\* stop() ends the polling thread, unless it has died before, if gpsd does not
\* send lines that are no reports for ever (MaxMisc).
StopEnds == stopEvent ~> pc \in {"ended"} \cup Deaths

\* As long as gpsd keeps the connection and has a fix, a running clock gets one,
\* however many polls failed before: only a line that is no object and a report
\* whose time does not parse end the thread.
FixFollows ==
    open ~> \/ pc = "use" /\ latest.kind = "fix"
            \/ stopEvent \/ ~open
            \/ pc \in Deaths

-----------------------------------------------------------------------------
(* What the documentation says and the code does not keep.                 *)

\* No line gpsd sends ends the polling thread.
PollingGoesOn == pc \notin Deaths
=============================================================================
