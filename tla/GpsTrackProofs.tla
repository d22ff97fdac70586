--------------------------- MODULE GpsTrackProofs ---------------------------
(***************************************************************************)
(* Proofs about GpsTrack, for any places, thresholds and fixes: its types, *)
(* the trail that reaches the stop, what it takes for a truck that stands  *)
(* still to be seen to depart, and the stop that, once seen, lasts until   *)
(* the truck moves or a fix strays; and about NmeaReader, whose fixes      *)
(* these are, for any receivers and queue bound: its types, the order of   *)
(* its lines, and the silence after a lost fix.                            *)
(***************************************************************************)
EXTENDS GpsTrack, NmeaReader, SequenceTheorems, TLAPS

LEMMA Bounds ==
  /\ Place \subseteq Int /\ Radius \in Nat
  /\ MinTrack \in Nat /\ Hold \in Nat /\ Keepalive \in Nat
  BY TrackAssumption

LEMMA NowhereIsNoPlace == Nowhere \notin Place
  BY TrackAssumption

LEMMA NoFixTyped == NoFix \in Fix /\ Nowhere \in Position
  BY DEF NoFix, Fix, Position

LEMMA OlderTyped ==
  ASSUME NEW limit \in Nat, NEW t \in 0..limit
  PROVE  Older(t, limit) \in 0..limit
  BY DEF Older

\* Two places near the truck are within the drift radius of each other.
LEMMA NearEachOther ==
  ASSUME truck \in Place, NEW a \in Place, NEW b \in Place, Near(a), Near(b)
  PROVE  ~(Distance(a, b) > Radius)
<1>1. a \in Int /\ b \in Int /\ truck \in Int /\ Radius \in Nat
  BY Bounds
<1> QED BY <1>1 DEF Near, Distance

\* The filter keeps its types, whichever way it takes.
LEMMA ProcessTyped ==
  ASSUME TypeOK, fresh, Process
  PROVE  /\ state' \in {"none", "stationary", "moving"}
         /\ anchor' \in IF state' = "none" THEN {Nowhere} ELSE Place
         /\ progress' \in IF state' = "moving" THEN Place ELSE Position
         /\ sinceProgress' \in 0..Hold
         /\ sinceEmit' \in 0..Keepalive
         /\ live' \in Place
         /\ pc' \in {"idle", "insert"}
         /\ still' \in BOOLEAN
<1>1. fix.at \in Place
  BY DEF TypeOK, Fix, Position
<1>2. 0 \in 0..Hold /\ 0 \in 0..Keepalive
  BY Bounds
<1>3. CASE Rejected
  BY <1>1, <1>3, NowhereIsNoPlace DEF Rejected, Publish, NoEmit, TypeOK
<1>4. CASE FirstFix
  BY <1>1, <1>2, <1>4, NowhereIsNoPlace DEF FirstFix, AnchorHere, Publish, Emit, TypeOK
<1>5. CASE Departs
  BY <1>1, <1>2, <1>5 DEF Departs, Publish, Emit, TypeOK
<1>6. CASE StaysPinned
  BY <1>2, <1>6 DEF StaysPinned, Publish, Emit, NoEmit, TypeOK
<1>7. ASSUME state = "moving", Advances
      PROVE  progress' \in Place /\ sinceProgress' \in 0..Hold
  BY <1>1, <1>2, <1>7 DEF Advances, TypeOK
<1>8. CASE KeepsMoving
  BY <1>1, <1>2, <1>7, <1>8 DEF KeepsMoving, Publish, Emit, TypeOK
<1>9. CASE Arrives
  BY <1>1, <1>2, <1>7, <1>9 DEF Arrives, AnchorHere, Publish, Emit, TypeOK, Position
<1> QED BY <1>3, <1>4, <1>5, <1>6, <1>8, <1>9 DEF Process

LEMMA TypeStep ==
  ASSUME TypeOK, [Next]_vars
  PROVE  TypeOK'
<1>1. CASE UNCHANGED vars
  BY <1>1 DEF TypeOK, vars
<1>2. CASE Move
  <2>1. truck' \in Place
    BY <1>2 DEF Move
  <2> QED BY <1>2, <2>1 DEF Move, TypeOK, filter
<1>3. ASSUME NEW poor \in BOOLEAN, Read(poor) PROVE TypeOK'
  <2>1. fix' \in Fix /\ fix'.at # Nowhere
    BY <1>3, NowhereIsNoPlace DEF Read, Fix, Position
  <2> QED BY <1>3, <2>1 DEF Read, TypeOK, world, filter
<1>4. CASE Tick
  BY <1>4, OlderTyped, Bounds DEF Tick, TypeOK, world, reader
<1>5. CASE ParkedChanges
  BY <1>5 DEF ParkedChanges, TypeOK, reader, filter
<1>6. CASE Sample
  BY <1>6, ProcessTyped DEF Sample, TypeOK, world, reader, Position
<1>7. CASE Inserted
  BY <1>7 DEF Inserted, TypeOK, world, reader, filter
<1>8. CASE InsertFails
  BY <1>8 DEF InsertFails, TypeOK, world, reader, filter
<1>9. CASE EdgeRestarts
  <2>1. Hold \in 0..Hold /\ Keepalive \in 0..Keepalive
    BY Bounds
  <2> QED BY <1>9, <2>1, NoFixTyped DEF EdgeRestarts, TypeOK
<1> QED BY <1>1, <1>2, <1>3, <1>4, <1>5, <1>6, <1>7, <1>8, <1>9 DEF Next

\* The anchor is known while the filter works, and ages stay within their bounds.
THEOREM TypeCorrect == Spec => []TypeOK
<1>1. Init => TypeOK
  <2>1. Hold \in 0..Hold /\ Keepalive \in 0..Keepalive
    BY Bounds
  <2> QED BY <2>1, NoFixTyped DEF Init, TypeOK
<1>2. TypeOK /\ [Next]_vars => TypeOK'
  BY TypeStep
<1> QED BY <1>1, <1>2, PTL DEF Spec

-----------------------------------------------------------------------------
(* The trail.                                                              *)

LEMMA PinnedStep ==
  ASSUME TypeOK, PinnedInv, [Next]_vars
  PROVE  PinnedInv'
<1> USE DEF PinnedInv, TrailReachesStop
<1>1. CASE UNCHANGED vars
  BY <1>1 DEF vars
<1>2. CASE Sample
  <2>1. pc = "idle" /\ stored' = stored /\ lost' = lost
    BY <1>2 DEF Sample
  <2>2. state = "stationary" => anchor # Nowhere
    BY NowhereIsNoPlace DEF TypeOK
  <2>3. CASE Rejected \/ StaysPinned
    BY <2>1, <2>2, <2>3 DEF Rejected, StaysPinned, Publish, Emit, NoEmit
  <2>4. CASE Departs \/ KeepsMoving
    BY <2>4 DEF Departs, KeepsMoving
  <2>5. CASE FirstFix \/ Arrives
    BY <2>5 DEF FirstFix, Arrives, AnchorHere, Publish, Emit
  <2> QED BY <1>2, <2>3, <2>4, <2>5 DEF Sample, Process
<1>3. CASE Inserted \/ InsertFails \/ EdgeRestarts
  BY <1>3 DEF Inserted, InsertFails, EdgeRestarts, filter
<1>4. CASE Move \/ Tick \/ ParkedChanges \/ \E poor \in BOOLEAN : Read(poor)
  BY <1>4 DEF Move, Tick, ParkedChanges, Read, filter
<1> QED BY <1>1, <1>2, <1>3, <1>4 DEF Next

\* While the truck is parked, the newest point of its track is the place it is
\* pinned to, unless the store refused it.
THEOREM TrailComplete == Spec => []TrailReachesStop
<1>1. Init => PinnedInv
  BY DEF Init, PinnedInv, TrailReachesStop
<1>2. TypeOK /\ PinnedInv /\ [Next]_vars => PinnedInv'
  BY PinnedStep
<1>3. PinnedInv => TrailReachesStop
  BY DEF PinnedInv
<1> QED BY <1>1, <1>2, <1>3, TypeCorrect, PTL DEF Spec

-----------------------------------------------------------------------------
(* No starburst.                                                           *)

LEMMA NearStep ==
  ASSUME TypeOK, NearInv, [Next]_vars
  PROVE  NearInv'
<1> USE DEF NearInv
<1>1. ASSUME UNCHANGED <<truck, anchor>> PROVE Near(anchor) => Near(anchor)'
  BY <1>1 DEF Near, Distance
<1>2. CASE UNCHANGED vars
  BY <1>1, <1>2 DEF vars
<1>3. CASE Move
  BY <1>3 DEF Move
<1>4. CASE Sample
  <2>1. truck' = truck /\ fix' = fix /\ fixStill' = fixStill /\ ~fresh'
        /\ fix.at # Nowhere
    BY <1>4 DEF Sample, world, reader, TypeOK
  <2>2. \/ anchor' = anchor /\ still' = still
        \/ anchor' = fix.at /\ still' = (fixStill /\ Near(fix.at))
    BY <1>4 DEF Sample, Process, Rejected, FirstFix, Departs, StaysPinned,
       KeepsMoving, Arrives, AnchorHere
  <2>3. Near(fix.at)' = Near(fix.at)
    BY <2>1 DEF Near, Distance
  <2>4. CASE anchor' = anchor /\ still' = still
    BY <1>1, <2>1, <2>4
  <2>5. CASE anchor' = fix.at /\ still' = (fixStill /\ Near(fix.at))
    BY <2>1, <2>3, <2>5 DEF Near
  <2> QED BY <2>2, <2>4, <2>5
<1>5. CASE Tick \/ ParkedChanges \/ Inserted \/ InsertFails
            \/ \E poor \in BOOLEAN : Read(poor)
  BY <1>1, <1>5 DEF Tick, ParkedChanges, Inserted, InsertFails, Read, world,
     reader, filter
<1>6. CASE EdgeRestarts
  BY <1>6 DEF EdgeRestarts
<1> QED BY <1>2, <1>3, <1>4, <1>5, <1>6 DEF Next

\* Only a fix that strays, and was read since the truck stands, takes a truck
\* off the place that a near fix pinned it to.
LEMMA OnlyStrayDeparts ==
  ASSUME TypeOK, NearInv, Sample, Departs, still
  PROVE  fixStill /\ ~Near(fix.at) /\ ~fix.poor
<1>1. fresh /\ ~fix.poor /\ Distance(anchor, fix.at) > Radius
  BY DEF Sample, Departs, Confirmed
<1>2. Near(anchor) /\ fixStill
  BY <1>1 DEF NearInv
<1>3. anchor \in Place /\ fix.at \in Place /\ truck \in Place
  BY <1>1 DEF TypeOK, NearInv, Fix, Position, Departs
<1> QED BY <1>1, <1>2, <1>3, NearEachOther

\* A truck that has not moved since a near fix pinned it is seen to depart only
\* by a fix that strays and that the gate lets pass.
THEOREM NoStarburst == Spec => StillStaysPinned
<1>1. Init => NearInv
  BY DEF Init, NearInv
<1>2. TypeOK /\ NearInv /\ [Next]_vars => NearInv'
  BY NearStep
<1>3. TypeOK /\ NearInv /\ [Next]_vars =>
        [state = "stationary" /\ state' = "moving" =>
           ~still \/ (fixStill /\ ~Near(fix.at) /\ ~fix.poor)]_vars
  <2> SUFFICES ASSUME TypeOK, NearInv, Next, state = "stationary", state' = "moving",
                      still
               PROVE  fixStill /\ ~Near(fix.at) /\ ~fix.poor
    OBVIOUS
  <2>1. Sample /\ Departs
    BY DEF Next, Move, Tick, ParkedChanges, Read, Inserted, InsertFails, EdgeRestarts,
       filter, Sample, Process, Rejected, FirstFix, StaysPinned, KeepsMoving, Arrives,
       AnchorHere
  <2> QED BY <2>1, OnlyStrayDeparts
<1> QED BY <1>1, <1>2, <1>3, TypeCorrect, PTL DEF Spec, StillStaysPinned

-----------------------------------------------------------------------------
(* A stop lasts: the safety half of StopIsSeen.                            *)

\* Not moving, and nothing that was read before the truck's last move, or far
\* from the truck, is left to be sampled or pinned to.
Stands ==
  /\ state # "moving"
  /\ state = "stationary" => still
  /\ fresh => fixStill

\* No fix to be sampled strays, but for those that the gate keeps out.
NoStray == fresh => Near(fix.at) \/ fix.poor

LEMMA StandsStep ==
  ASSUME TypeOK, NearInv, Stands, NoStray, truck' = truck, [Next]_vars
  PROVE  Stands'
<1> USE DEF Stands
<1>1. CASE UNCHANGED vars
  BY <1>1 DEF vars
<1>2. CASE Move
  BY <1>2 DEF Move
<1>3. ASSUME NEW poor \in BOOLEAN, Read(poor) PROVE Stands'
  BY <1>3 DEF Read, filter
<1>4. CASE Sample
  <2>1. ~fresh' /\ fixStill' = fixStill /\ fixStill
        /\ (Near(fix.at) \/ fix.poor)
    BY <1>4 DEF Sample, reader, NoStray
  <2>2. ~Departs
    BY <1>4, <2>1, OnlyStrayDeparts DEF Departs
  <2>3. \/ UNCHANGED <<state, still>>
        \/ state' = "stationary" /\ still' = (fixStill /\ Near(fix.at)) /\ ~fix.poor
    BY <1>4, <2>2 DEF Sample, Process, Rejected, FirstFix, StaysPinned,
       KeepsMoving, Arrives, AnchorHere
  <2> QED BY <2>1, <2>3
<1>5. CASE Tick \/ ParkedChanges \/ Inserted \/ InsertFails
  BY <1>5 DEF Tick, ParkedChanges, Inserted, InsertFails, reader, filter
<1>6. CASE EdgeRestarts
  BY <1>6 DEF EdgeRestarts
<1> QED BY <1>1, <1>2, <1>3, <1>4, <1>5, <1>6 DEF Next

\* A truck that has been seen to stand is not seen to move again as long as it
\* stands and no fix strays that the gate lets pass, whatever its speed reads,
\* parked mode and restarts included: no fix of before the stop is left that
\* could make it depart.
THEOREM StopLasts ==
  Spec => [](Stands /\ [][truck' = truck]_vars /\ []NoStray
               => [](state # "moving"))
<1>1. Init => NearInv
  BY DEF Init, NearInv
<1>2. TypeOK /\ NearInv /\ [Next]_vars => NearInv'
  BY NearStep
<1>3. TypeOK /\ NearInv /\ Stands /\ NoStray /\ [Next]_vars
        /\ [truck' = truck]_vars => Stands'
  BY StandsStep DEF vars
<1>4. Stands => state # "moving"
  BY DEF Stands
<1> QED BY <1>1, <1>2, <1>3, <1>4, TypeCorrect, PTL DEF Spec

-----------------------------------------------------------------------------
(* The reader that feeds the track.                                        *)

\* A line of the thread that the loop has started.
Fresh == {line \in Line : ~line.former}

LEMMA FreshTyped ==
  ASSUME NEW t \in Types, NEW f \in BOOLEAN, NEW b \in BOOLEAN
  PROVE  [type |-> t, fix |-> f, broken |-> b, former |-> FALSE] \in Fresh
  BY DEF Fresh, Line

\* Whichever line is merged, in whole or in part, a reading stays one.
LEMMA MergedTyped ==
  ASSUME NEW r \in Reading, NEW line \in Line
  PROVE  /\ UpdateReading(r, line) \in Reading
         /\ PartlyUpdated(r, line) \subseteq Reading
<1>1. Gga(r, line) \in Reading /\ Gsa(r, line) \in Reading
  BY DEF Gga, Gsa, Reading, Line
<1>2. Rmc(r, line) \in Reading /\ Gll(r, line) \in Reading
  BY DEF Rmc, Gll, Reading, Line
<1>3. [r EXCEPT !.quality = line.fix] \in Reading
  BY DEF Reading, Line
<1>4. line.type \in {"RMC", "GGA", "GSA", "GLL"}
  BY DEF Line, Types, Emitting
<1> QED BY <1>1, <1>2, <1>3, <1>4 DEF UpdateReading, PartlyUpdated

\* No line that says there is no fix makes a valid fix, whatever was merged
\* before and wherever it breaks.
LEMMA MergedQuiet ==
  ASSUME NEW r \in Reading, NEW line \in Line, ~line.fix, ~IsValidFix(r)
  PROVE  /\ ~IsValidFix(UpdateReading(r, line))
         /\ \A s \in PartlyUpdated(r, line) : ~IsValidFix(s)
<1>1. ~IsValidFix(Gga(r, line)) /\ ~IsValidFix(Gsa(r, line))
  BY DEF Gga, Gsa, Reading, Line, IsValidFix
<1>2. ~IsValidFix(Rmc(r, line)) /\ ~IsValidFix(Gll(r, line))
  BY DEF Rmc, Gll, Reading, Line, IsValidFix
<1>3. ~IsValidFix([r EXCEPT !.quality = line.fix])
  BY DEF Reading, Line, IsValidFix
<1>4. line.type \in {"RMC", "GGA", "GSA", "GLL"}
  BY DEF Line, Types, Emitting
<1> QED BY <1>1, <1>2, <1>3, <1>4 DEF UpdateReading, PartlyUpdated

\* A line of the new thread goes behind those of the former ones.
LEMMA AppendOrdered ==
  ASSUME NEW q \in Seq(Line), NEW line \in Fresh, Ordered(q)
  PROVE  /\ Append(q, line) \in Seq(Line) /\ Len(Append(q, line)) = Len(q) + 1
         /\ Ordered(Append(q, line))
         /\ \A i \in DOMAIN Append(q, line) :
              \/ Append(q, line)[i] = line
              \/ \E j \in DOMAIN q : Append(q, line)[i] = q[j]
<1>1. line \in Line /\ ~line.former
  BY DEF Fresh
<1>2. /\ Append(q, line) \in Seq(Line) /\ Len(Append(q, line)) = Len(q) + 1
      /\ \A i \in 1..Len(q) : Append(q, line)[i] = q[i]
      /\ Append(q, line)[Len(q) + 1] = line
      /\ DOMAIN q = 1..Len(q) /\ DOMAIN Append(q, line) = 1..(Len(q) + 1)
      /\ Len(q) \in Nat
  BY <1>1, AppendProperties, LenProperties
<1>3. \A i \in 1..(Len(q) + 1) : i \in 1..Len(q) \/ i = Len(q) + 1
  BY <1>2
<1> QED BY <1>1, <1>2, <1>3 DEF Ordered

\* Order is kept when the first line is taken or dropped.
LEMMA TailOrdered ==
  ASSUME NEW q \in Seq(Line), q # <<>>, Ordered(q)
  PROVE  /\ Tail(q) \in Seq(Line) /\ Len(Tail(q)) = Len(q) - 1
         /\ Ordered(Tail(q))
         /\ \A i \in DOMAIN Tail(q) : i + 1 \in DOMAIN q /\ Tail(q)[i] = q[i + 1]
<1>1. /\ Tail(q) \in Seq(Line) /\ Len(Tail(q)) = Len(q) - 1
      /\ \A i \in 1..Len(Tail(q)) : Tail(q)[i] = q[i + 1]
      /\ DOMAIN q = 1..Len(q) /\ DOMAIN Tail(q) = 1..Len(Tail(q))
      /\ Len(q) \in Nat
  BY HeadTailProperties, LenProperties
<1> QED BY <1>1 DEF Ordered

\* A full queue makes room, whatever stands first in it.
LEMMA EnqueueTyped ==
  ASSUME ReaderTypeOK, InOrder, NEW line \in Fresh, Enqueue(line)
  PROVE  /\ queue' \in Seq(Line) /\ Len(queue') <= QueueMax
         /\ InOrder'
         /\ \A i \in DOMAIN queue' :
              queue'[i] = line \/ \E j \in DOMAIN queue : queue'[i] = queue[j]
<1> DEFINE kept == IF Len(queue) = QueueMax THEN Tail(queue) ELSE queue
<1>1. queue \in Seq(Line) /\ Len(queue) <= QueueMax /\ QueueMax \in Nat \ {0}
  BY ReaderAssumption DEF ReaderTypeOK
<1>2. Len(queue) \in Nat /\ (Len(queue) = QueueMax => queue # <<>>)
  BY <1>1, LenProperties, EmptySeq
<1>3. /\ kept \in Seq(Line) /\ Len(kept) < QueueMax /\ Len(kept) \in Nat
      /\ Ordered(kept)
      /\ \A i \in DOMAIN kept : \E j \in DOMAIN queue : kept[i] = queue[j]
  <2>1. CASE Len(queue) = QueueMax
    BY <1>1, <1>2, <2>1, TailOrdered DEF InOrder
  <2>2. CASE Len(queue) # QueueMax
    BY <1>1, <1>2, <2>2 DEF InOrder
  <2> QED BY <2>1, <2>2
<1>4. queue' = Append(kept, line)
  BY DEF Enqueue
<1> HIDE DEF kept
<1>5. /\ queue' \in Seq(Line) /\ Len(queue') = Len(kept) + 1 /\ Ordered(queue')
      /\ \A i \in DOMAIN queue' :
           queue'[i] = line \/ \E j \in DOMAIN kept : queue'[i] = kept[j]
  BY <1>3, <1>4, AppendOrdered
<1> QED BY <1>1, <1>3, <1>5 DEF InOrder

\* What the thread does to queue and types.
LEMMA ThreadKeeps ==
  ASSUME ReaderTypeOK, InOrder, FixChanges \/ Thread
  PROVE  ReaderTypeOK' /\ InOrder'
<1> USE ReaderAssumption
<1>1. CASE FixChanges
  <2>1. hasFix' \in BOOLEAN
    BY <1>1, Zenon DEF FixChanges
  <2> QED BY <1>1, <2>1 DEF FixChanges, ReaderTypeOK, InOrder
<1>2. CASE Connect \/ ConnectFails \/ ReadFails \/ BackoffOver \/ ThreadEnds
  <2>1. /\ thread' \in {"connecting", "reading", "backoff", "gone"}
        /\ UNCHANGED <<receiver, stray, queue, reading, readLoop, broken>>
    BY <1>2 DEF Connect, ConnectFails, ReadFails, BackoffOver, ThreadEnds,
                ThreadStep
  <2> QED BY <2>1 DEF ReaderTypeOK, InOrder, receiver
<1>3. ASSUME NEW t \in Types, Receive(t)
      PROVE  ReaderTypeOK' /\ InOrder'
  <2>1. queue' \in Seq(Line) /\ Len(queue') <= QueueMax /\ InOrder'
    BY <1>3, EnqueueTyped, FreshTyped DEF Receive, ReaderTypeOK
  <2> QED BY <1>3, <2>1 DEF Receive, ReaderTypeOK, receiver
<1>4. CASE ReceiveBroken
  <2>1. PICK t \in talks :
          Enqueue([type |-> t, fix |-> hasFix, broken |-> TRUE, former |-> FALSE])
    BY <1>4 DEF ReceiveBroken
  <2>2. t \in Types /\ hasFix \in BOOLEAN
    BY <2>1 DEF ReaderTypeOK
  <2>3. queue' \in Seq(Line) /\ Len(queue') <= QueueMax /\ InOrder'
    BY <2>1, <2>2, EnqueueTyped, FreshTyped
  <2>4. broken' \in 0..MaxBroken
    BY <1>4 DEF ReceiveBroken, ReaderTypeOK
  <2> QED BY <1>4, <2>3, <2>4 DEF ReceiveBroken, ReaderTypeOK, receiver
<1>5. CASE StrayEnds
  <2>1. stray' \in BOOLEAN
    BY <1>5, Zenon DEF StrayEnds
  <2> QED BY <1>5, <2>1 DEF StrayEnds, ReaderTypeOK, InOrder, receiver
<1> QED BY <1>1, <1>2, <1>3, <1>4, <1>5 DEF Thread

\* The loop takes the first line.
LEMMA TakeFirstTyped ==
  ASSUME ReaderTypeOK, InOrder, TakeFirst
  PROVE  /\ queue' \in Seq(Line) /\ Len(queue') <= QueueMax /\ InOrder'
         /\ Head(queue) \in Line /\ Head(queue) = queue[1] /\ 1 \in DOMAIN queue
         /\ \A i \in DOMAIN queue' : \E j \in DOMAIN queue : queue'[i] = queue[j]
<1>1. /\ queue \in Seq(Line) /\ queue # <<>> /\ queue' = Tail(queue)
      /\ Len(queue) <= QueueMax /\ QueueMax \in Nat
  BY ReaderAssumption DEF ReaderTypeOK, TakeFirst
<1>2. Head(queue) \in Line /\ Head(queue) = queue[1] /\ 1 \in DOMAIN queue
  BY <1>1, HeadTailProperties, LenProperties, EmptySeq
<1>3. Len(queue) \in Nat
  BY <1>1, LenProperties
<1> QED BY <1>1, <1>2, <1>3, TailOrdered DEF InOrder

\* A queue all of whose lines are of a thread that was stopped.
LEMMA AllFormer ==
  ASSUME NEW q \in Seq(Line), NEW u,
         u = [i \in DOMAIN q |-> [q[i] EXCEPT !.former = TRUE]]
  PROVE  /\ u \in Seq(Line) /\ Len(u) = Len(q)
         /\ Ordered(u)
<1>1. /\ DOMAIN q = 1..Len(q) /\ Len(q) \in Nat
      /\ \A i \in 1..Len(q) : q[i] \in Line
  BY LenProperties
<1>2. \A i \in 1..Len(q) : u[i] \in Line /\ u[i].former
  BY <1>1 DEF Line
<1>3. u \in [1..Len(q) -> Line]
  BY <1>1, <1>2
<1>4. u \in Seq(Line) /\ Len(u) = Len(q)
  BY <1>1, <1>3
<1> QED BY <1>1, <1>2, <1>4 DEF Ordered

\* What the loop does to queue and types.
LEMMA LoopKeeps ==
  ASSUME ReaderTypeOK, InOrder, Loop
  PROVE  ReaderTypeOK' /\ InOrder'
<1>1. ASSUME NEW t \in Types, Take(t)
      PROVE  ReaderTypeOK' /\ InOrder'
  <2>1. TakeFirst /\ reading' = UpdateReading(reading, Head(queue))
    BY <1>1 DEF Take
  <2>2. reading' \in Reading
    BY <2>1, TakeFirstTyped, MergedTyped DEF ReaderTypeOK
  <2> QED
    BY <1>1, <2>1, <2>2, TakeFirstTyped
    DEF Take, TakeFirst, ReaderTypeOK, receiver
<1>2. CASE Raise
  <2>1. TakeFirst /\ reading' \in PartlyUpdated(reading, Head(queue))
    BY <1>2 DEF Raise
  <2>2. reading' \in Reading
    BY <2>1, TakeFirstTyped, MergedTyped DEF ReaderTypeOK
  <2> QED
    BY <1>2, <2>1, <2>2, TakeFirstTyped
    DEF Raise, TakeFirst, ReaderTypeOK, receiver
<1>3. CASE StopReaderThread \/ Joined
  BY <1>3 DEF StopReaderThread, Joined, ReaderTypeOK, InOrder, receiver
<1>4. CASE JoinTimesOut
  <2>1. stray' \in BOOLEAN
    BY <1>4, Zenon DEF JoinTimesOut
  <2> QED BY <1>4, <2>1 DEF JoinTimesOut, ReaderTypeOK, InOrder, receiver
<1>5. CASE Restart
  <2>1. queue' \in Seq(Line) /\ Len(queue') = Len(queue) /\ Ordered(queue')
    BY <1>5, AllFormer DEF Restart, ReaderTypeOK
  <2> QED BY <1>5, <2>1 DEF Restart, ReaderTypeOK, InOrder, receiver
<1> QED BY <1>1, <1>2, <1>3, <1>4, <1>5 DEF Loop

\* Types and order support each other.
LEMMA ReaderInvariant == ReaderSpec => [](ReaderTypeOK /\ InOrder)
<1>1. ReaderInit => ReaderTypeOK /\ InOrder
  <2> SUFFICES ASSUME ReaderInit
               PROVE  ReaderTypeOK /\ InOrder
    OBVIOUS
  <2>1. queue \in Seq(Line) /\ Len(queue) = 0
    BY EmptySeq DEF ReaderInit
  <2>2. stray \in BOOLEAN /\ hasFix \in BOOLEAN
    BY Zenon DEF ReaderInit
  <2>3. reading \in Reading
    BY DEF ReaderInit, NoReading, Reading
  <2>4. InOrder
    BY DEF ReaderInit, InOrder, Ordered
  <2> QED
    BY <2>1, <2>2, <2>3, <2>4, ReaderAssumption DEF ReaderInit, ReaderTypeOK
<1>2. ReaderTypeOK /\ InOrder /\ [ReaderNext]_readerVars
        => ReaderTypeOK' /\ InOrder'
  <2>1. CASE UNCHANGED readerVars
    BY <2>1 DEF readerVars, ReaderTypeOK, InOrder
  <2> QED BY <2>1, ThreadKeeps, LoopKeeps DEF ReaderNext
<1> QED BY <1>1, <1>2, PTL DEF ReaderSpec

\* The reader keeps its types and the queue its bound, for any receiver.
THEOREM ReaderTypeCorrect == ReaderSpec => []ReaderTypeOK
  BY ReaderInvariant, PTL

\* What a former thread sent stands before every line of its successor.
THEOREM LinesInOrder == ReaderSpec => []InOrder
  BY ReaderInvariant, PTL

\* As long as the receiver has no fix, nothing makes one of what is left.
LEMMA QuietStep ==
  ASSUME ReaderTypeOK, InOrder, Quiet, ~hasFix', [ReaderNext]_readerVars
  PROVE  Quiet' /\ ~Publishes
<1> SUFFICES Quiet'
  BY DEF Quiet, Publishes
<1>0. queue \in Seq(Line) /\ reading \in Reading
  BY DEF ReaderTypeOK
<1>1. CASE FixChanges
  BY <1>1 DEF FixChanges, Quiet
<1>2. ASSUME TakeFirst
      PROVE  /\ \A i \in DOMAIN queue' : ~queue'[i].fix
             /\ Head(queue) \in Line /\ ~Head(queue).fix
             /\ ~hasFix'
  BY <1>2, TakeFirstTyped DEF Quiet
<1>3. ASSUME NEW t \in Types, Take(t)
      PROVE  Quiet'
  <2>1. TakeFirst /\ reading' = UpdateReading(reading, Head(queue))
    BY <1>3 DEF Take
  <2>2. ~IsValidFix(reading')
    BY <1>0, <1>2, <2>1, MergedQuiet DEF Quiet
  <2> QED BY <1>2, <2>1, <2>2 DEF Quiet, IsValidFix
<1>4. CASE Raise
  <2>1. TakeFirst /\ reading' \in PartlyUpdated(reading, Head(queue))
    BY <1>4 DEF Raise
  <2>2. ~IsValidFix(reading')
    BY <1>0, <1>2, <2>1, MergedQuiet DEF Quiet
  <2> QED BY <1>2, <2>1, <2>2 DEF Quiet, IsValidFix
<1>5. ASSUME NEW t \in Types, NEW b \in BOOLEAN,
             Enqueue([type |-> t, fix |-> hasFix, broken |-> b, former |-> FALSE])
      PROVE  \A i \in DOMAIN queue' : ~queue'[i].fix
  <2> DEFINE line == [type |-> t, fix |-> hasFix, broken |-> b, former |-> FALSE]
  <2>1. line \in Fresh /\ ~line.fix
    BY FreshTyped DEF ReaderTypeOK, Quiet
  <2> HIDE DEF line
  <2>2. \A i \in DOMAIN queue' :
          queue'[i] = line \/ \E j \in DOMAIN queue : queue'[i] = queue[j]
    BY <1>5, <2>1, EnqueueTyped DEF line
  <2> QED BY <2>1, <2>2 DEF Quiet
<1>6. ASSUME NEW t \in Types, Receive(t)
      PROVE  Quiet'
  <2>1. \A i \in DOMAIN queue' : ~queue'[i].fix
    BY <1>5, <1>6 DEF Receive
  <2> QED BY <1>6, <2>1 DEF Receive, Quiet, IsValidFix, receiver
<1>7. CASE ReceiveBroken
  <2>1. PICK t \in talks :
          Enqueue([type |-> t, fix |-> hasFix, broken |-> TRUE, former |-> FALSE])
    BY <1>7 DEF ReceiveBroken
  <2>2. t \in Types
    BY ReaderAssumption DEF ReaderTypeOK
  <2>3. \A i \in DOMAIN queue' : ~queue'[i].fix
    BY <1>5, <2>1, <2>2
  <2> QED BY <1>7, <2>3 DEF ReceiveBroken, Quiet, IsValidFix, receiver
<1>8. CASE Restart
  <2>1. queue' = [i \in DOMAIN queue |-> [queue[i] EXCEPT !.former = TRUE]]
    BY <1>8 DEF Restart
  <2>2. DOMAIN queue' = DOMAIN queue
    BY <2>1
  <2>3. \A i \in DOMAIN queue' : queue'[i].fix = queue[i].fix
    <3> TAKE i \in DOMAIN queue'
    <3>1. queue[i] \in Line
      BY <1>0, <2>2, ElementOfSeq, LenProperties
    <3>2. queue'[i] = [queue[i] EXCEPT !.former = TRUE]
      BY <2>1, <2>2
    <3> QED BY <3>1, <3>2 DEF Line
  <2> QED BY <1>8, <2>2, <2>3 DEF Restart, Quiet, IsValidFix, receiver
<1>9. CASE StopReaderThread \/ Joined \/ JoinTimesOut
  BY <1>9 DEF StopReaderThread, Joined, JoinTimesOut, Quiet, IsValidFix,
              receiver
<1>10. CASE Connect \/ ConnectFails \/ ReadFails \/ BackoffOver \/ ThreadEnds
              \/ StrayEnds
  BY <1>10 DEF Connect, ConnectFails, ReadFails, BackoffOver, ThreadEnds,
               ThreadStep, StrayEnds, Quiet, IsValidFix, receiver
<1>11. CASE UNCHANGED readerVars
  BY <1>11 DEF readerVars, Quiet, IsValidFix
<1> QED
  BY <1>1, <1>3, <1>4, <1>6, <1>7, <1>8, <1>9, <1>10, <1>11
  DEF ReaderNext, Thread, Loop

\* Once nothing is left of a lost fix, nothing is published until the receiver
\* has a new one, whatever breaks, is dropped or restarts meanwhile.
THEOREM SilenceLasts ==
  ReaderSpec => [](Quiet /\ []~hasFix => [][~Publishes]_readerVars)
<1>1. ReaderTypeOK /\ InOrder /\ Quiet /\ ~hasFix' /\ [ReaderNext]_readerVars
        => Quiet' /\ [~Publishes]_readerVars
  BY QuietStep
<1> QED BY <1>1, ReaderInvariant, PTL DEF ReaderSpec

=============================================================================
