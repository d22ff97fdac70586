----------------------------- MODULE NmeaReader -----------------------------
(***************************************************************************)
(* The NMEA reader of telematics-edge: a thread that reads lines from the  *)
(* receiver (serial or TCP) into a bounded queue, the coroutine that       *)
(* merges them into one reading, and the worker that starts both again     *)
(* after a line that cannot be converted.  What the worker publishes are   *)
(* the fixes of GpsTrack.                                                  *)
(*                                                                         *)
(* VTG lines carry only a speed and are left out.  A callback of the       *)
(* thread that waits for the event loop counts as queued: the loop runs it *)
(* before anything takes a line.                                           *)
(*                                                                         *)
(* Its names are such that it can be extended together with GpsTrack.      *)
(***************************************************************************)
EXTENDS Naturals, Sequences

CONSTANTS
  TalkSets,   \* the sets of sentence types a receiver may send
  QueueMax,   \* maxsize of _line_queue
  MaxBroken   \* bound: lines that cannot be converted

Emitting == {"RMC", "GGA", "GLL"}
Types == Emitting \cup {"GSA"}

ASSUME ReaderAssumption ==
  /\ TalkSets \subseteq SUBSET Types
  /\ QueueMax \in Nat \ {0}
  /\ MaxBroken \in Nat

\* A line says whether the receiver has a fix; the former ones are those of a
\* thread that has been stopped.
Line == [type : Types, fix : BOOLEAN, broken : BOOLEAN, former : BOOLEAN]

\* What is kept of a reading: whether the position is known, and whether the
\* quality and the fix type are those of a fix.
Reading == [pos : BOOLEAN, quality : BOOLEAN, typed : BOOLEAN]

VARIABLES
  talks,    \* the sentence types this receiver sends
  hasFix,     \* the receiver has a fix
  thread,   \* what the reader thread does
  stray,    \* a stopped thread has outlived its join
  queue,    \* _line_queue
  reading,  \* current_reading: position known, quality > 0, fix_type >= 2
  readLoop,   \* what read_loop and its worker wait for
  broken

receiver == <<talks, hasFix>>
readerVars == <<talks, hasFix, thread, stray, queue, reading, readLoop, broken>>

NoReading == [pos |-> FALSE, quality |-> FALSE, typed |-> FALSE]

ReaderInit ==
  /\ talks \in TalkSets
  /\ hasFix \in BOOLEAN
  /\ thread = "connecting" /\ stray = FALSE
  /\ queue = <<>>
  /\ reading = NoReading
  /\ readLoop = "get"
  /\ broken = 0

-----------------------------------------------------------------------------
(* The receiver.                                                           *)

FixChanges ==
  /\ hasFix' = ~hasFix
  /\ UNCHANGED <<talks, thread, stray, queue, reading, readLoop, broken>>

-----------------------------------------------------------------------------
(* The reader thread.  Its stop event is set while the loop joins it.      *)

Stopping == readLoop = "join"

ThreadStep(from, to) ==
  /\ thread = from
  /\ thread' = to
  /\ UNCHANGED <<receiver, stray, queue, reading, readLoop, broken>>

Connect == ~Stopping /\ ThreadStep("connecting", "reading")
ConnectFails == ~Stopping /\ ThreadStep("connecting", "backoff")
ReadFails == ~Stopping /\ ThreadStep("reading", "backoff")
BackoffOver == ~Stopping /\ ThreadStep("backoff", "connecting")
ThreadEnds == Stopping /\ \E from \in {"connecting", "reading", "backoff"} :
                             ThreadStep(from, "gone")

\* Mutant of Enqueue: the oldest line is not dropped.
EnqueueAlways(line) == queue' = Append(queue, line)

\* _enqueue_line: a full queue drops its oldest line.
Enqueue(line) ==
  queue' = Append(IF Len(queue) = QueueMax THEN Tail(queue) ELSE queue, line)

\* One line, also the one whose reading the stop event finds under way.
Receive(t) ==
  /\ thread = "reading"
  /\ t \in talks
  /\ Enqueue([type |-> t, fix |-> hasFix, broken |-> FALSE, former |-> FALSE])
  /\ UNCHANGED <<receiver, thread, stray, reading, readLoop, broken>>

\* A field of it was garbled: the checksum of a talker other than GP is not
\* checked.  Nothing is converted of a void RMC or GLL.
ReceiveBroken ==
  /\ thread = "reading"
  /\ broken < MaxBroken
  /\ broken' = broken + 1
  /\ \E t \in talks :
       /\ t \in {"RMC", "GLL"} => hasFix
       /\ Enqueue([type |-> t, fix |-> hasFix, broken |-> TRUE, former |-> FALSE])
  /\ UNCHANGED <<receiver, thread, stray, reading, readLoop>>

\* Mutant of StrayEnds: the thread tests the reader's event, which is a new one,
\* and reads on.
StrayReads ==
  /\ stray
  /\ \E t \in talks :
       Enqueue([type |-> t, fix |-> hasFix, broken |-> FALSE, former |-> TRUE])
  /\ UNCHANGED <<receiver, thread, stray, reading, readLoop, broken>>

\* The connection attempt of a stopped thread returns; the thread tests the
\* event it was given and reads nothing.
StrayEnds ==
  /\ stray
  /\ stray' = FALSE
  /\ UNCHANGED <<receiver, thread, queue, reading, readLoop, broken>>

-----------------------------------------------------------------------------
(* The coroutine: read_loop.                                               *)

\* Mutant of Rmc: status "V" is ignored, as in GLL.
RmcVoidIgnored(r, line) ==
  IF line.fix THEN [r EXCEPT !.pos = TRUE, !.typed = TRUE] ELSE r

Rmc(r, line) ==
  IF line.fix THEN [r EXCEPT !.pos = TRUE, !.typed = TRUE]
              ELSE [r EXCEPT !.pos = FALSE, !.typed = FALSE]

Gga(r, line) == [r EXCEPT !.quality = line.fix, !.pos = @ \/ line.fix]

Gsa(r, line) == [r EXCEPT !.typed = line.fix]

Gll(r, line) ==
  IF line.fix THEN [r EXCEPT !.pos = TRUE, !.typed = TRUE] ELSE r

UpdateReading(r, line) ==
  CASE line.type = "RMC" -> Rmc(r, line)
    [] line.type = "GGA" -> Gga(r, line)
    [] line.type = "GSA" -> Gsa(r, line)
    [] line.type = "GLL" -> Gll(r, line)

\* What a line that raises has changed before: RMC and GLL convert their
\* coordinates first; GGA has counts before and after them, GSA the PDOP last.
PartlyUpdated(r, line) ==
  {r} \cup CASE line.type = "GGA" -> {[r EXCEPT !.quality = line.fix], Gga(r, line)}
             [] line.type = "GSA" -> {Gsa(r, line)}
             [] OTHER -> {}

IsValidFix(r) == r.pos /\ (r.quality \/ r.typed)

TakeFirst ==
  /\ readLoop = "get" /\ queue # <<>>
  /\ queue' = Tail(queue)
  /\ UNCHANGED <<receiver, thread, stray, broken>>

\* A line is merged; on_reading publishes the reading if it is a valid fix.
Take(t) ==
  /\ TakeFirst
  /\ Head(queue).type = t /\ ~Head(queue).broken
  /\ reading' = UpdateReading(reading, Head(queue))
  /\ UNCHANGED readLoop

Publishes == \E t \in Emitting : Take(t) /\ IsValidFix(reading')

\* The loop is left; the thread goes on until it is stopped, a second later.
Raise ==
  /\ TakeFirst
  /\ Head(queue).broken
  /\ reading' \in PartlyUpdated(reading, Head(queue))
  /\ readLoop' = "sleep"

StopReaderThread ==
  /\ readLoop = "sleep"
  /\ readLoop' = "join"
  /\ UNCHANGED <<receiver, thread, stray, queue, reading, broken>>

Joined ==
  /\ readLoop = "join" /\ thread = "gone"
  /\ readLoop' = "restart"
  /\ UNCHANGED <<receiver, thread, stray, queue, reading, broken>>

\* A join waits 3 s, which only a TCP connection attempt (5 s) outlasts; one
\* that does has ended before the next join has.
JoinTimesOut ==
  /\ readLoop = "join" /\ thread = "connecting" /\ ~stray
  /\ readLoop' = "restart"
  /\ thread' = "gone"
  /\ stray' = TRUE
  /\ UNCHANGED <<receiver, queue, reading, broken>>

\* Mutant of Restart: the new thread is given the event that is set.
RestartStopped ==
  /\ readLoop = "restart"
  /\ readLoop' = "get"
  /\ thread' = "gone"
  /\ queue' = [i \in DOMAIN queue |-> [queue[i] EXCEPT !.former = TRUE]]
  /\ UNCHANGED <<receiver, stray, reading, broken>>

\* The worker calls read_loop again after its back-off.
Restart ==
  /\ readLoop = "restart"
  /\ readLoop' = "get"
  /\ thread' = "connecting"
  /\ queue' = [i \in DOMAIN queue |-> [queue[i] EXCEPT !.former = TRUE]]
  /\ UNCHANGED <<receiver, stray, reading, broken>>

-----------------------------------------------------------------------------
Thread ==
  \/ Connect \/ ConnectFails \/ ReadFails \/ BackoffOver \/ ThreadEnds
  \/ \E t \in Types : Receive(t)
  \/ ReceiveBroken
  \/ StrayEnds

Loop ==
  \/ \E t \in Types : Take(t)
  \/ Raise \/ StopReaderThread \/ Joined \/ JoinTimesOut \/ Restart

ReaderNext == FixChanges \/ Thread \/ Loop

ReaderSpec == ReaderInit /\ [][ReaderNext]_readerVars

\* Thread and loop are endless.  A device that is opened again and again opens
\* now and then; a sentence the receiver keeps sending is read again and again;
\* the loop, far faster than the queue fills, takes one of every kind now and
\* then.  Nothing is assumed of garbled lines, failures and the fix.
ReaderFairness ==
  /\ WF_readerVars(BackoffOver \/ ThreadEnds)
  /\ SF_readerVars(Connect)
  /\ WF_readerVars(Raise \/ StopReaderThread \/ Joined \/ JoinTimesOut \/ Restart)
  /\ \A t \in Types : SF_readerVars(Receive(t)) /\ SF_readerVars(Take(t))

ReaderFairSpec == ReaderSpec /\ ReaderFairness

-----------------------------------------------------------------------------
(* Properties.                                                             *)

\* _enqueue_line keeps the queue within its bound.
ReaderTypeOK ==
  /\ talks \in TalkSets
  /\ hasFix \in BOOLEAN
  /\ thread \in {"connecting", "reading", "backoff", "gone"}
  /\ stray \in BOOLEAN
  /\ queue \in Seq(Line) /\ Len(queue) <= QueueMax
  /\ reading \in Reading
  /\ readLoop \in {"get", "sleep", "join", "restart"}
  /\ broken \in 0..MaxBroken

\* The lines of a former thread stand first.
Ordered(q) == \A i, j \in DOMAIN q : i < j /\ q[j].former => q[i].former

\* Two threads never feed one loop, although a former one may still be alive:
\* what it sent stands before every line of its successor.
InOrder == Ordered(queue)

\* A receiver that says so when it loses its fix: with RMC ("V") or GSA (mode 1),
\* or without GLL, whose "V" changes nothing.
TellsLoss == talks \cap {"RMC", "GSA"} # {} \/ "GLL" \notin talks

\* A fix that is lost for good stops being published, as if it were a new one,
\* whatever sentence comes last, is dropped or breaks the loop.
LostFixStops == TellsLoss => (<>[]~hasFix => <>[][~Publishes]_readerVars)

\* A receiver with a fix gets it published for ever, after any line that broke
\* the loop, thread that outlived its join, and loss of the device.
ReaderRecovers == <>[]hasFix => []<><<Publishes>>_readerVars

\* Nothing is left of a fix that was lost: no line that waits says there is one,
\* and what the lines so far have set does not make a valid fix.
Quiet ==
  /\ ~hasFix
  /\ \A i \in DOMAIN queue : ~queue[i].fix
  /\ ~IsValidFix(reading)

=============================================================================
