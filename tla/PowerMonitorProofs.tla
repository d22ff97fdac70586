-------------------------- MODULE PowerMonitorProofs -------------------------
(***************************************************************************)
(* Proofs that PowerMonitor keeps its types, that a poweroff it asks for   *)
(* has a cause, that it asks in time, and that a pack above the trip keeps *)
(* the host up if the sensor is at the battery, for every pack, threshold, *)
(* interval, number of samples, queue and lock timeout.                    *)
(***************************************************************************)
EXTENDS PowerMonitor, SequenceTheorems, TLAPS

-----------------------------------------------------------------------------
(* The helpers.                                                            *)

LEMMA FaultType == Fault \in Sample
  BY PowerAssumption DEF Fault, Sample, Charge, Flow

LEMMA ReadingType ==
  ASSUME charge \in Charge, rail \in BOOLEAN, NEW n \in Charge, NEW f \in Flow
  PROVE  Reading(n, f) \in Sample
  BY PowerAssumption DEF Reading, Sample

LEMMA AfterType ==
  ASSUME NEW n \in 0..Samples, NEW s PROVE After(n, s) \in 0..Samples
  BY PowerAssumption DEF After

\* A sample queued is one read, with its place in the history.
LEMMA TookType ==
  ASSUME TypeOK, NEW s \in Sample, Took(s)
  PROVE  /\ out' \in Sample /\ run' \in 0..Samples
         /\ status' \in {"ok", "fault"}
         /\ out'.ok = s.ok /\ out'.level = s.level /\ out'.flow = s.flow
         /\ out'.run = run' /\ run' = After(run, s)
  BY AfterType DEF TypeOK, Took, Sample

LEMMA CountedType ==
  ASSUME NEW n \in Charge, NEW f PROVE Counted(n, f) \subseteq Charge
  BY DEF Counted

LEMMA TowardsType ==
  ASSUME NEW f \in Flow, flow \in Flow PROVE Towards(f) \subseteq Flow
  BY DEF Towards, Flow

LEMMA NextIntervalType ==
  ASSUME NEW s, NEW b PROVE NextInterval(s, b) \in Nat
  BY PowerAssumption DEF NextInterval

LEMMA ReinitType ==
  ASSUME TypeOK, NEW i \in Drivers, Reinit(i)
  PROVE  ina' \in Drivers /\ total' \in Charge
  BY PowerAssumption DEF Reinit, Charge

-----------------------------------------------------------------------------
(* The types.                                                              *)

TypeInv == TypeOK /\ DownIsEmpty

LEMMA TypeInit == Init => TypeInv
<1> SUFFICES ASSUME Init PROVE TypeInv
  OBVIOUS
<1>1. /\ total \in Charge /\ flow \in Flow /\ filtered \in Flow
      /\ waited \in 0..Busy /\ counter \in 0..Samples /\ run \in 0..Samples
      /\ lowFor \in Nat
  BY PowerAssumption DEF Init, Flow, Charge
<1>2. queue \in Seq(Sample) /\ Len(queue) <= QueueMax
  BY PowerAssumption DEF Init
<1>3. out \in Sample /\ cur \in Sample
  BY FaultType DEF Init
<1> QED BY <1>1, <1>2, <1>3 DEF Init, TypeInv, TypeOK, DownIsEmpty, Drivers

LEMMA StopType ==
  ASSUME TypeInv, Stop, UNCHANGED <<rail, charge, sound, locked>>,
         flow' \in Flow, lowFor' \in Nat
  PROVE  TypeInv'
<1>1. /\ total' \in Charge /\ filtered' \in Flow /\ waited' \in 0..Busy
      /\ counter' \in 0..Samples /\ run' \in 0..Samples
  BY PowerAssumption DEF Stop, Flow, Charge
<1>2. queue' \in Seq(Sample) /\ Len(queue') <= QueueMax
  BY PowerAssumption DEF Stop
<1>3. out' \in Sample /\ cur' \in Sample
  BY FaultType DEF Stop
<1> QED BY <1>1, <1>2, <1>3
        DEF TypeInv, TypeOK, DownIsEmpty, Stop, Drivers

LEMMA TickType ==
  ASSUME TypeInv, Tick, lowFor' \in Nat
  PROVE  TypeInv'
<1> USE DEF TypeInv, TypeOK, DownIsEmpty, Tick
<1>1. charge' \in Charge /\ flow' \in Flow /\ sound' \in BOOLEAN
      /\ locked' \in BOOLEAN /\ nap' \in Nat /\ held' \in BOOLEAN
  OBVIOUS
<1>2. waited' \in 0..Busy
  BY PowerAssumption DEF EngineBlocked
<1>3. DownIsEmpty'
  OBVIOUS
<1> QED BY <1>1, <1>2, <1>3 DEF driver

LEMMA SamplingType ==
  ASSUME TypeInv, Sampling, lowFor' \in Nat
  PROVE  TypeInv'
<1> USE DEF TypeInv, TypeOK, DownIsEmpty
<1>1. CASE ReadSucceeds
  <2>1. filtered' \in Flow /\ total' \in Charge
    BY <1>1, TowardsType, CountedType DEF ReadSucceeds
  <2>2. Reading(total', filtered') \in Sample
    BY <2>1, ReadingType
  <2>3. out' \in Sample /\ run' \in 0..Samples /\ status' \in {"ok", "fault"}
    BY <1>1, <2>2, TookType DEF ReadSucceeds
  <2> QED BY <1>1, <2>1, <2>3 DEF ReadSucceeds, Round, world, state
<1>2. CASE ReinitSucceeds
  <2>1. filtered' \in Flow
    BY <1>2, TowardsType DEF ReinitSucceeds, Flow
  <2>2. total' \in Charge
    BY <1>2, CountedType, PowerAssumption DEF ReinitSucceeds, Charge
  <2>3. Reading(total', filtered') \in Sample
    BY <2>1, <2>2, ReadingType
  <2>4. out' \in Sample /\ run' \in 0..Samples /\ status' \in {"ok", "fault"}
    BY <1>2, <2>3, TookType DEF ReinitSucceeds
  <2> QED BY <1>2, <2>1, <2>2, <2>4
          DEF ReinitSucceeds, Round, world, state, Drivers
<1>3. CASE LadderFails
  <2>1. ina' \in Drivers /\ total' \in Charge
    BY <1>3, ReinitType DEF LadderFails
  <2>2. filtered' \in Flow
    BY <1>3 DEF LadderFails, Flow
  <2>3. out' \in Sample /\ run' \in 0..Samples /\ status' \in {"ok", "fault"}
    BY <1>3, FaultType, TookType DEF LadderFails
  <2> QED BY <1>3, <2>1, <2>2, <2>3 DEF LadderFails, Round, world, state
<1>4. CASE Put
  <2>1. queue' \in Seq(Sample) /\ Len(queue') = Len(queue) + 1
    BY <1>4 DEF Put
  <2>2. nap' \in Nat
    BY <1>4, NextIntervalType DEF Put
  <2>3. wasCharging' \in {"unknown", "yes", "no"}
    BY <1>4 DEF Put
  <2>4. UNCHANGED <<rail, world, up, driver, held, status, run, state>>
        /\ sensor = "putting" /\ sensor' = "asleep" /\ out' = Fault
        /\ Len(queue) < QueueMax
    BY <1>4 DEF Put
  <2> QED BY <2>1, <2>2, <2>3, <2>4, FaultType, PowerAssumption
          DEF world, driver, state
<1> QED BY <1>1, <1>2, <1>3, <1>4 DEF Sampling

LEMMA DecidingType ==
  ASSUME TypeInv, Deciding, lowFor' \in Nat
  PROVE  TypeInv'
<1> USE DEF TypeInv, TypeOK, DownIsEmpty
<1>1. CASE Get
  <2>1. queue' \in Seq(Sample) /\ Len(queue') = Len(queue) - 1
        /\ cur' \in Sample
    BY <1>1 DEF Get
  <2>2. up
    BY <1>1 DEF Get
  <2>3. engine' = "storing" /\ waited' = 0
        /\ UNCHANGED <<rail, world, up, driver, loop, counter, requested>>
    BY <1>1 DEF Get
  <2> QED BY <2>1, <2>2, <2>3, PowerAssumption DEF world, driver, loop
<1>2. CASE Judging
  <2>1. Stored
    BY <1>2 DEF Judging, Counts, Trips, Recovers, Ignores
  <2>2. up
    BY <2>1 DEF Stored
  <2>3. counter' \in 0..Samples
    BY <1>2, PowerAssumption
    DEF Judging, Counts, Trips, Recovers, Ignores, Count
  <2>4. requested' \in BOOLEAN /\ engine' \in {"waiting", "asking"}
    BY <1>2 DEF Judging, Counts, Trips, Recovers, Ignores
  <2> QED BY <2>1, <2>2, <2>3, <2>4, FaultType, PowerAssumption
          DEF Stored, world, driver, loop
<1>3. CASE PoweroffFails
  BY <1>3 DEF PoweroffFails, world, driver, loop
<1>4. CASE PoweroffAccepted
  BY <1>4, StopType DEF PoweroffAccepted, world
<1> QED BY <1>1, <1>2, <1>3, <1>4 DEF Deciding

LEMMA LivesType ==
  ASSUME TypeInv, Lives, lowFor' \in Nat
  PROVE  TypeInv'
<1>1. CASE Boot
  <2>1. ina' \in Drivers /\ total' \in Charge
    BY <1>1, ReinitType DEF Boot, TypeInv
  <2> QED BY <1>1, <2>1
          DEF Boot, TypeInv, TypeOK, DownIsEmpty, world, loop, state
<1>2. CASE Crash
  BY <1>2, StopType DEF Crash, world, TypeInv, TypeOK
<1>3. CASE PackEmpty
  BY <1>3, StopType DEF PackEmpty, Flow
<1> QED BY <1>1, <1>2, <1>3 DEF Lives

LEMMA TypeStep == TypeInv /\ [Next]_vars => TypeInv'
<1> SUFFICES ASSUME TypeInv, [Next]_vars PROVE TypeInv'
  OBVIOUS
<1>1. CASE Next
  <2>1. lowFor' \in Nat
    BY <1>1 DEF Next, Timed, TypeInv, TypeOK
  <2> QED BY <1>1, <2>1, TickType, SamplingType, DecidingType, LivesType
          DEF Next, Timed
<1>2. CASE UNCHANGED vars
  BY <1>2 DEF TypeInv, TypeOK, DownIsEmpty, vars, world, driver, loop, state
<1> QED BY <1>1, <1>2

LEMMA TypeInvHolds == Spec => []TypeInv
  BY TypeInit, TypeStep, PTL DEF Spec

\* The charge read off the counter stays on the scale, the queue within its
\* bound, the insert gives up, and a service that is down keeps nothing.
THEOREM TypeCorrect == Spec => []TypeOK
<1>1. TypeInv => TypeOK
  BY DEF TypeInv
<1> QED BY <1>1, TypeInvHolds, PTL

-----------------------------------------------------------------------------
(* A poweroff has a cause.                                                 *)

\* The history is monotone in what was there before.
LEMMA AfterMonotone ==
  ASSUME NEW m \in 0..Samples, NEW n \in 0..Samples, m <= n, NEW s
  PROVE  After(m, s) <= After(n, s)
  BY PowerAssumption DEF After

LEMMA JudgedType ==
  ASSUME TypeInv PROVE Judged \in 0..Samples /\ LastRun \in 0..Samples
<1>1. Judged \in 0..Samples
  BY DEF TypeInv, TypeOK, Sample, Judged
<1>2. queue # <<>> => queue[Len(queue)] \in Sample
  BY DEF TypeInv, TypeOK
<1> QED BY <1>1, <1>2 DEF LastRun, Sample

LEMMA CauseInit == Init => CauseInv
  BY PowerAssumption DEF Init, CauseInv, Judged, LastRun

LEMMA StopCause ==
  ASSUME Stop PROVE CauseInv'
  BY PowerAssumption DEF Stop, CauseInv, Judged, LastRun

\* A sample that is read goes behind all that are under way.
LEMMA TookCause ==
  ASSUME TypeInv, CauseInv, NEW s \in Sample, Took(s), sensor # "putting",
         sensor' = "putting", UNCHANGED <<queue, state>>
  PROVE  CauseInv'
<1>1. Judged' = Judged /\ LastRun' = LastRun
  BY DEF Judged, LastRun, state
<1>2. After(LastRun, s) <= After(run, s)
  BY JudgedType, AfterMonotone DEF CauseInv, TypeInv, TypeOK
<1>3. After(LastRun, out') = After(LastRun, s)
  BY TookType DEF After, Recovery, TypeInv
<1>4. out'.run = After(run, s) /\ run' = After(run, s) /\ run' \in 0..Samples
  BY TookType DEF TypeInv
<1>5. LastRun' = LastRun /\ After(LastRun', out') <= out'.run /\ run' >= out'.run
  BY <1>1, <1>2, <1>3, <1>4
<1>6. (engine = "storing" => After(counter, cur) <= cur.run)'
  BY DEF CauseInv, state
<1>7. (\A i \in 1..Len(queue) :
         After(IF i = 1 THEN Judged ELSE queue[i - 1].run, queue[i])
           <= queue[i].run)'
  BY <1>1 DEF CauseInv, After, Recovery
<1> QED BY <1>5, <1>6, <1>7 DEF CauseInv, After, Recovery

LEMMA PutCause ==
  ASSUME TypeInv, CauseInv, Put
  PROVE  CauseInv'
<1>1. /\ queue' = Append(queue, out) /\ queue \in Seq(Sample) /\ out \in Sample
      /\ sensor = "putting" /\ sensor' = "asleep"
      /\ run' = run /\ UNCHANGED <<engine, cur, counter>>
  BY DEF Put, TypeInv, TypeOK, state
<1>2. Judged' = Judged
  BY <1>1 DEF Judged
<1>3. /\ Len(queue') = Len(queue) + 1 /\ Len(queue) \in Nat
      /\ \A i \in 1..Len(queue) : queue'[i] = queue[i]
      /\ queue'[Len(queue) + 1] = out
  BY <1>1
<1>4. LastRun' = out.run
  BY <1>1, <1>3 DEF LastRun
<1>5. ASSUME NEW i \in 1..Len(queue')
      PROVE  After(IF i = 1 THEN Judged ELSE queue'[i - 1].run, queue'[i])
               <= queue'[i].run
  <2>1. CASE i \in 1..Len(queue)
    <3>1. i # 1 => i - 1 \in 1..Len(queue)
      BY <2>1, <1>3
    <3> QED BY <2>1, <3>1, <1>3 DEF CauseInv
  <2>2. CASE i = Len(queue) + 1
    <3>1. (IF i = 1 THEN Judged ELSE queue'[i - 1].run) = LastRun
      <4>1. CASE queue = <<>>
        BY <2>2, <4>1 DEF LastRun
      <4>2. CASE queue # <<>>
        <5>1. Len(queue) \in 1..Len(queue) /\ i # 1 /\ i - 1 = Len(queue)
          BY <1>1, <1>3, <2>2, <4>2
        <5> QED BY <1>3, <4>2, <5>1 DEF LastRun
      <4> QED BY <4>1, <4>2
    <3> QED BY <1>1, <1>3, <2>2, <3>1 DEF CauseInv
  <2> QED BY <1>3, <2>1, <2>2
<1> QED BY <1>1, <1>2, <1>4, <1>5 DEF CauseInv, After, Recovery

LEMMA SamplingCause ==
  ASSUME TypeInv, CauseInv, Sampling
  PROVE  CauseInv'
<1> USE DEF TypeInv, TypeOK
<1>1. CASE ReadSucceeds
  <2>1. filtered' \in Flow /\ total' \in Charge
    BY <1>1, TowardsType, CountedType DEF ReadSucceeds
  <2>2. Reading(total', filtered') \in Sample
    BY <2>1, ReadingType
  <2> QED BY <1>1, <2>2, TookCause DEF ReadSucceeds, Round
<1>2. CASE ReinitSucceeds
  <2>1. filtered' \in Flow
    BY <1>2, TowardsType DEF ReinitSucceeds, Flow
  <2>2. total' \in Charge
    BY <1>2, CountedType, PowerAssumption DEF ReinitSucceeds, Charge
  <2>3. Reading(total', filtered') \in Sample
    BY <2>1, <2>2, ReadingType
  <2> QED BY <1>2, <2>3, TookCause DEF ReinitSucceeds, Round
<1>3. CASE LadderFails
  BY <1>3, FaultType, TookCause DEF LadderFails, Round
<1> QED BY <1>1, <1>2, <1>3, PutCause DEF Sampling

LEMMA GetCause ==
  ASSUME TypeInv, CauseInv, Get
  PROVE  CauseInv'
<1>1. /\ engine = "waiting" /\ engine' = "storing" /\ queue # <<>>
      /\ queue \in Seq(Sample) /\ cur' = Head(queue) /\ queue' = Tail(queue)
      /\ UNCHANGED <<sensor, out, run, counter>>
  BY DEF Get, TypeInv, TypeOK, loop
<1>2. /\ cur' = queue[1] /\ Len(queue) \in Nat \ {0}
      /\ Len(queue') = Len(queue) - 1
      /\ \A i \in 1..Len(queue') : queue'[i] = queue[i + 1]
  BY <1>1
<1>3. Judged = counter /\ Judged' = queue[1].run
  BY <1>1, <1>2 DEF Judged
<1>4. After(counter', cur') <= cur'.run
  BY <1>1, <1>2, <1>3 DEF CauseInv
<1>5. LastRun' = LastRun
  <2>1. CASE Len(queue) = 1
    <3>1. queue' = <<>>
      BY <1>1, <1>2, <2>1
    <3> QED BY <1>1, <1>3, <2>1, <3>1 DEF LastRun
  <2>2. CASE Len(queue) # 1
    <3>1. queue' # <<>> /\ Len(queue') \in 1..Len(queue')
          /\ Len(queue') + 1 = Len(queue)
      <4>1. Len(queue') \in Nat \ {0}
        BY <1>2, <2>2
      <4>2. queue' # <<>>
        BY <4>1
      <4> QED BY <1>2, <4>1, <4>2
    <3>2. queue'[Len(queue')] = queue[Len(queue)]
      BY <1>2, <3>1
    <3>3. LastRun = queue[Len(queue)].run /\ LastRun' = queue'[Len(queue')].run
      BY <1>1, <3>1 DEF LastRun
    <3> QED BY <3>2, <3>3
  <2> QED BY <2>1, <2>2
<1>6. ASSUME NEW i \in 1..Len(queue')
      PROVE  After(IF i = 1 THEN Judged' ELSE queue'[i - 1].run, queue'[i])
               <= queue'[i].run
  <2>1. /\ i + 1 \in 1..Len(queue) /\ i + 1 # 1 /\ queue'[i] = queue[i + 1]
        /\ (i + 1) - 1 = i
    BY <1>2
  <2>2. After(queue[i].run, queue[i + 1]) <= queue[i + 1].run
    BY <2>1 DEF CauseInv
  <2>3. (IF i = 1 THEN Judged' ELSE queue'[i - 1].run) = queue[i].run
    BY <1>2, <1>3
  <2> QED BY <2>1, <2>2, <2>3
<1> QED BY <1>1, <1>4, <1>5, <1>6 DEF CauseInv, After, Recovery

\* What is counted is in the history of the sample that is judged.
LEMMA JudgingCause ==
  ASSUME TypeInv, CauseInv, Judging
  PROVE  CauseInv'
<1>1. /\ engine = "storing" /\ engine' \in {"waiting", "asking"}
      /\ UNCHANGED <<sensor, out, run, queue>>
  BY DEF Judging, Counts, Trips, Recovers, Ignores, Stored, loop
<1>2. counter' <= After(counter, cur) /\ counter' \in 0..Samples
  BY PowerAssumption DEF Judging, Counts, Trips, Recovers, Ignores, Count,
     After, Breach, TypeInv, TypeOK
<1>3. After(counter, cur) <= cur.run /\ cur.run \in 0..Samples
      /\ After(counter, cur) \in 0..Samples
  BY <1>1, AfterType DEF CauseInv, TypeInv, TypeOK, Sample
<1>4. Judged' = counter' /\ Judged = cur.run /\ Judged' <= Judged
      /\ Judged' \in 0..Samples /\ Judged \in 0..Samples
  BY <1>1, <1>2, <1>3, PowerAssumption DEF Judged
<1>5. LastRun' <= LastRun /\ LastRun' \in 0..Samples /\ LastRun \in 0..Samples
  <2>1. CASE queue = <<>>
    BY <1>1, <1>4, <2>1 DEF LastRun
  <2>2. CASE queue # <<>>
    BY <1>1, <2>2, JudgedType DEF LastRun
  <2> QED BY <2>1, <2>2
<1>6. ASSUME NEW i \in 1..Len(queue')
      PROVE  After(IF i = 1 THEN Judged' ELSE queue'[i - 1].run, queue'[i])
               <= queue'[i].run
  <2>1. queue' = queue /\ i \in 1..Len(queue) /\ queue[i] \in Sample
    BY <1>1 DEF TypeInv, TypeOK
  <2>2. After(IF i = 1 THEN Judged ELSE queue[i - 1].run, queue[i])
          <= queue[i].run
    BY <2>1 DEF CauseInv
  <2>3. After(Judged', queue[i]) <= After(Judged, queue[i])
        /\ After(Judged', queue[i]) \in 0..Samples
        /\ After(Judged, queue[i]) \in 0..Samples
    BY <1>4, AfterMonotone, AfterType
  <2> QED BY <2>1, <2>2, <2>3 DEF Sample
<1>7. sensor' = "putting" => After(LastRun', out') <= out'.run
  <2>1. After(LastRun', out) <= After(LastRun, out)
        /\ After(LastRun', out) \in 0..Samples
        /\ After(LastRun, out) \in 0..Samples
    BY <1>5, AfterMonotone, AfterType
  <2> QED BY <1>1, <2>1 DEF CauseInv, TypeInv, TypeOK, Sample
<1>8. run' >= (IF sensor' = "putting" THEN out'.run ELSE LastRun')
  BY <1>1, <1>5 DEF CauseInv, TypeInv, TypeOK
<1> QED BY <1>1, <1>6, <1>7, <1>8 DEF CauseInv, After, Recovery

\* A step that leaves the samples and their count alone.
SamplesKept ==
  /\ UNCHANGED <<sensor, out, run, queue, cur, counter>>
  /\ engine' = engine \/ {engine, engine'} = {"asking", "waiting"}

LEMMA KeptCause ==
  ASSUME CauseInv, SamplesKept
  PROVE  CauseInv'
<1>1. engine' = "storing" <=> engine = "storing"
  BY DEF SamplesKept
<1>2. Judged' = Judged /\ LastRun' = LastRun
  BY <1>1 DEF SamplesKept, Judged, LastRun
<1> QED BY <1>1, <1>2 DEF SamplesKept, CauseInv, After, Recovery

LEMMA CauseStep == TypeInv /\ CauseInv /\ [Next]_vars => CauseInv'
<1> SUFFICES ASSUME TypeInv, CauseInv, [Next]_vars PROVE CauseInv'
  OBVIOUS
<1>1. CASE Tick
  BY <1>1, KeptCause DEF Tick, SamplesKept
<1>2. CASE Sampling
  BY <1>2, SamplingCause
<1>3. CASE Deciding
  <2>1. CASE PoweroffFails
    BY <2>1, KeptCause DEF PoweroffFails, SamplesKept, loop
  <2> QED BY <1>3, <2>1, GetCause, JudgingCause, StopCause
          DEF Deciding, PoweroffAccepted
<1>4. CASE Lives
  <2>1. CASE Boot
    BY <2>1, KeptCause DEF Boot, SamplesKept, loop, state
  <2> QED BY <1>4, <2>1, StopCause DEF Lives, Crash, PackEmpty
<1>5. CASE UNCHANGED vars
  BY <1>5, KeptCause DEF SamplesKept, vars, loop, state
<1> QED BY <1>1, <1>2, <1>3, <1>4, <1>5 DEF Next, Timed

LEMMA CauseInvHolds == Spec => []CauseInv
  BY CauseInit, CauseStep, TypeInvHolds, PTL DEF Spec

\* Only a trip requests the poweroff.
LEMMA TripsExplained ==
  ASSUME TypeInv, CauseInv, [Next]_vars, ~requested /\ requested'
  PROVE  cur.run >= Samples
<1>1. Trips
  BY DEF Next, Timed, Tick, Sampling, ReadSucceeds, ReinitSucceeds, LadderFails,
         Put, Deciding, Get, Judging, Counts, Recovers, Ignores, PoweroffFails,
         PoweroffAccepted, Lives, Boot, Crash, PackEmpty, Stop, state, vars
<1>2. After(counter, cur) <= cur.run
  BY <1>1 DEF Trips, Stored, CauseInv
<1>3. After(counter, cur) = Count /\ Count >= Samples
  BY <1>1 DEF Trips, Breach, After, Count
<1> QED BY <1>2, <1>3, PowerAssumption DEF TypeInv, TypeOK, Sample, Count

\* Whatever the pack does, the sensor fails, the driver is replaced and the
\* queue delays: the poweroff is requested only when the sample that trips it
\* ends a run of enough low ones, taken by the present life of the service since
\* the last sign of recovery.
THEOREM PoweroffHasCause == Spec => PoweroffExplained
<1>1. TypeInv /\ CauseInv /\ [Next]_vars
        => [~requested /\ requested' => cur.run >= Samples]_vars
  BY TripsExplained
<1> QED BY <1>1, TypeInvHolds, CauseInvHolds, PTL DEF Spec, PoweroffExplained

-----------------------------------------------------------------------------
(* A pack that is not low keeps its host.                                  *)

NotLow(s) == s.ok => s.level > Trip

\* No breach is counted, and none is under way.
NothingLow ==
  /\ counter = 0 /\ ~requested
  /\ NotLow(out) /\ NotLow(cur)
  /\ \A i \in 1..Len(queue) : NotLow(queue[i])

\* The sensor is at the battery, and the pack is above the trip.
Plenty == charge > Trip /\ ~rail

LEMMA FaultNotLow == NotLow(Fault)
  BY DEF NotLow, Fault

LEMMA ReadingNotLow ==
  ASSUME Plenty, NEW n, NEW f PROVE NotLow(Reading(n, f))
  BY DEF Plenty, Reading, NotLow

LEMMA TookNotLow ==
  ASSUME TypeInv, NEW s \in Sample, NotLow(s), Took(s) PROVE NotLow(out')
  BY TookType DEF NotLow, TypeInv

LEMMA StopNothingLow == ASSUME Stop PROVE NothingLow'
  BY FaultNotLow DEF Stop, NothingLow, NotLow, Fault

LEMMA SamplingNotLow ==
  ASSUME TypeInv, NothingLow, Plenty, Sampling
  PROVE  NothingLow'
<1>1. ASSUME NotLow(out'), UNCHANGED <<queue, state>> PROVE NothingLow'
  BY <1>1 DEF NothingLow, NotLow, state
<1>2. CASE ReadSucceeds
  <2>1. filtered' \in Flow /\ total' \in Charge
    BY <1>2, TowardsType, CountedType DEF ReadSucceeds, TypeInv, TypeOK
  <2>2. Reading(total', filtered') \in Sample
    BY <2>1, ReadingType DEF TypeInv, TypeOK
  <2>3. NotLow(out')
    BY <1>2, <2>2, ReadingNotLow, TookNotLow DEF ReadSucceeds
  <2> QED BY <1>1, <1>2, <2>3 DEF ReadSucceeds
<1>3. CASE ReinitSucceeds
  <2>1. filtered' \in Flow
    BY <1>3, TowardsType DEF ReinitSucceeds, Flow, TypeInv, TypeOK
  <2>2. total' \in Charge
    BY <1>3, CountedType, PowerAssumption DEF ReinitSucceeds, Charge
  <2>3. Reading(total', filtered') \in Sample
    BY <2>1, <2>2, ReadingType DEF TypeInv, TypeOK
  <2>4. NotLow(out')
    BY <1>3, <2>3, ReadingNotLow, TookNotLow DEF ReinitSucceeds
  <2> QED BY <1>1, <1>3, <2>4 DEF ReinitSucceeds
<1>4. CASE LadderFails
  BY <1>1, <1>4, FaultNotLow, FaultType, TookNotLow DEF LadderFails
<1>5. CASE Put
  <2>1. queue' = Append(queue, out) /\ out' = Fault /\ UNCHANGED state
    BY <1>5 DEF Put
  <2>2. ASSUME NEW i \in 1..Len(queue') PROVE NotLow(queue'[i])
    BY <2>1 DEF NothingLow, TypeInv, TypeOK
  <2> QED BY <2>1, <2>2, FaultNotLow DEF NothingLow, NotLow, state
<1> QED BY <1>2, <1>3, <1>4, <1>5 DEF Sampling

LEMMA DecidingNotLow ==
  ASSUME TypeInv, NothingLow, Deciding
  PROVE  NothingLow'
<1>1. CASE Get
  <2>1. /\ queue # <<>> /\ cur' = Head(queue) /\ queue' = Tail(queue)
        /\ UNCHANGED <<loop, counter, requested>>
    BY <1>1 DEF Get
  <2>2. NotLow(cur')
    BY <2>1 DEF NothingLow, TypeInv, TypeOK
  <2>3. ASSUME NEW i \in 1..Len(queue') PROVE NotLow(queue'[i])
    BY <2>1 DEF NothingLow, TypeInv, TypeOK
  <2> QED BY <2>1, <2>2, <2>3 DEF NothingLow, NotLow, loop
<1>2. CASE Judging
  <2>1. ~Breach(cur)
    BY PowerAssumption DEF NothingLow, NotLow, Breach, TypeInv, TypeOK, Sample, Charge
  <2>2. Stored /\ counter' = 0 /\ ~requested'
    BY <1>2, <2>1 DEF Judging, Counts, Trips, Recovers, Ignores, NothingLow
  <2> QED BY <2>2, FaultNotLow DEF NothingLow, NotLow, Stored, loop
<1>3. CASE PoweroffFails
  BY <1>3 DEF PoweroffFails, NothingLow, NotLow, loop
<1>4. CASE PoweroffAccepted
  BY <1>4, StopNothingLow DEF PoweroffAccepted
<1> QED BY <1>1, <1>2, <1>3, <1>4 DEF Deciding

LEMMA NotLowStep ==
  TypeInv /\ NothingLow /\ Plenty /\ [Next]_vars => NothingLow'
<1> SUFFICES ASSUME TypeInv, NothingLow, Plenty, [Next]_vars
             PROVE  NothingLow'
  OBVIOUS
<1>1. CASE Tick
  BY <1>1 DEF Tick, NothingLow, NotLow
<1>2. CASE Sampling
  BY <1>2, SamplingNotLow
<1>3. CASE Deciding
  BY <1>3, DecidingNotLow
<1>4. CASE Lives
  <2>1. CASE Boot
    BY <2>1 DEF Boot, NothingLow, NotLow, loop, state
  <2> QED BY <1>4, <2>1, StopNothingLow DEF Lives, Crash, PackEmpty
<1>5. CASE UNCHANGED vars
  BY <1>5 DEF NothingLow, NotLow, vars, loop, state
<1> QED BY <1>1, <1>2, <1>3, <1>4, <1>5 DEF Next, Timed

\* As long as a sensor at the battery has a pack above the trip to measure, no
\* poweroff is requested: not by faults, replaced drivers, samples judged late,
\* current that reads wrong, or restarts.
THEOREM FullPackKeepsHost == Spec => [](NothingLow /\ []Plenty => []~requested)
<1>1. NothingLow => ~requested
  BY DEF NothingLow
<1> QED BY <1>1, NotLowStep, TypeInvHolds, PTL DEF Spec

-----------------------------------------------------------------------------
(* The shutdown comes in time.                                             *)

LEMMA RoundInit == Init => RoundInv
  BY DEF Init, RoundInv, NapIsSafe, OutIsCurrent

LEMMA StopRound == ASSUME Stop PROVE RoundInv'
  BY DEF Stop, RoundInv, NapIsSafe, OutIsCurrent

\* A nap and the pack get shorter together.
LEMMA TickRound ==
  ASSUME TypeInv, RoundInv, Tick
  PROVE  RoundInv'
<1> USE DEF TypeInv, TypeOK, RoundInv, NapIsSafe, OutIsCurrent, Tick
<1>1. charge' >= charge - 1
  BY PowerAssumption DEF Charge, Flow
<1>2. NapIsSafe'
  BY <1>1, PowerAssumption DEF Charge, Flow
<1>3. OutIsCurrent'
  <2>1. sensor = "putting" => nap' = 0
    OBVIOUS
  <2>2. sensor = "putting" => held'
    BY Zenon
  <2>3. sensor' = sensor
    OBVIOUS
  <2> QED BY <2>1, <2>2, <2>3
<1> QED BY <1>2, <1>3

\* An idle nap starts from a reading above the margin.
LEMMA PutNap ==
  ASSUME TypeInv, RoundInv, Put
  PROVE  NapIsSafe' /\ (out.level <= Trip => nap' = Fast)
<1>1. PICK b : nap' = NextInterval(out, b)
  BY DEF Put
<1>2. nap' = Fast \/ (nap' = Idle /\ out.ok /\ ~(out.level <= Trip + Margin))
  BY <1>1 DEF NextInterval
<1>3. out.level \in Int /\ charge \in Int
  BY PowerAssumption DEF TypeInv, TypeOK, Sample, Charge
<1>4. sensor = "putting" /\ UNCHANGED <<rail, charge, held>>
  BY DEF Put, world
<1> QED BY <1>2, <1>3, <1>4, PowerAssumption, MarginAssumption
        DEF RoundInv, NapIsSafe, OutIsCurrent

LEMMA SamplingRound ==
  ASSUME TypeInv, RoundInv, Sampling
  PROVE  RoundInv'
<1> USE DEF TypeInv, TypeOK
<1>1. CASE ReadSucceeds
  <2>1. Reading(total', filtered') \in Sample
    BY <1>1, TowardsType, CountedType, ReadingType DEF ReadSucceeds
  <2>2. ~rail => out'.level = charge
    BY <1>1, <2>1, TookType DEF ReadSucceeds, Reading
  <2> QED BY <1>1, <2>2
          DEF ReadSucceeds, Round, RoundInv, NapIsSafe, OutIsCurrent, world
<1>2. CASE ReinitSucceeds
  <2>1. filtered' \in Flow
    BY <1>2, TowardsType DEF ReinitSucceeds, Flow
  <2>2. total' \in Charge
    BY <1>2, CountedType, PowerAssumption DEF ReinitSucceeds, Charge
  <2>3. ~rail => out'.level = charge
    BY <1>2, <2>1, <2>2, ReadingType, TookType DEF ReinitSucceeds, Reading
  <2> QED BY <1>2, <2>3
          DEF ReinitSucceeds, Round, RoundInv, NapIsSafe, OutIsCurrent, world
<1>3. CASE LadderFails
  <2>1. ~out'.ok
    BY <1>3, FaultType, TookType DEF LadderFails, Fault
  <2> QED BY <1>3, <2>1
          DEF LadderFails, Round, RoundInv, NapIsSafe, OutIsCurrent, world
<1>4. CASE Put
  BY <1>4, PutNap DEF Put, RoundInv, OutIsCurrent
<1> QED BY <1>1, <1>2, <1>3, <1>4 DEF Sampling

LEMMA RoundStep == TypeInv /\ RoundInv /\ [Next]_vars => RoundInv'
<1> SUFFICES ASSUME TypeInv, RoundInv, [Next]_vars PROVE RoundInv'
  OBVIOUS
<1> USE DEF RoundInv, NapIsSafe, OutIsCurrent
<1>1. CASE Tick
  BY <1>1, TickRound
<1>2. CASE Sampling
  BY <1>2, SamplingRound
<1>3. CASE Deciding
  BY <1>3, StopRound
  DEF Deciding, Get, Judging, Counts, Trips, Recovers, Ignores, Stored,
      PoweroffFails, PoweroffAccepted, world, loop
<1>4. CASE Lives
  BY <1>4, StopRound DEF Lives, Boot, Crash, PackEmpty, world, loop
<1>5. CASE UNCHANGED vars
  BY <1>5 DEF vars, world, loop
<1> QED BY <1>1, <1>2, <1>3, <1>4, <1>5 DEF Next, Timed

LEMMA LatchedInit == Init => Latched
  BY PowerAssumption DEF Init, Latched

LEMMA LatchedStep == TypeInv /\ Latched /\ [Next]_vars => Latched'
<1> SUFFICES ASSUME TypeInv, Latched, [Next]_vars PROVE Latched'
  OBVIOUS
<1> USE DEF Latched
<1>1. CASE Tick
  BY <1>1 DEF Tick
<1>2. CASE Sampling
  BY <1>2 DEF Sampling, ReadSucceeds, ReinitSucceeds, LadderFails, Put, state
<1>3. CASE Deciding
  <2>1. CASE Judging
    BY <2>1, PowerAssumption
    DEF Judging, Counts, Trips, Recovers, Ignores, Count, TypeInv, TypeOK
  <2> QED BY <1>3, <2>1, PowerAssumption
          DEF Deciding, Get, PoweroffFails, PoweroffAccepted, Stop
<1>4. CASE Lives
  BY <1>4, PowerAssumption DEF Lives, Boot, Crash, PackEmpty, Stop, state
<1>5. CASE UNCHANGED vars
  BY <1>5 DEF vars, state
<1> QED BY <1>1, <1>2, <1>3, <1>4, <1>5 DEF Next, Timed

\* What the provers need to know of Fast * n.
LEMMA FastTimes ==
  ASSUME NEW n \in Nat
  PROVE  /\ Fast * (1 + n) \in Nat
         /\ Fast <= Fast * (1 + n)
         /\ Fast * (1 + (n + 1)) = Fast * (1 + n) + Fast
         /\ n < Samples => Fast * (1 + n) <= Samples * Fast
<1>1. Fast \in Nat /\ Samples \in Nat
  BY PowerAssumption
<1>2. Fast * (1 + n) = Fast + Fast * n /\ Fast * n \in Nat
  BY <1>1
<1>3. Fast * (1 + (n + 1)) = Fast + Fast * n + Fast
  BY <1>1
<1>4. ASSUME n < Samples PROVE Fast * (1 + n) <= Samples * Fast
  <2>1. PICK k \in Nat : Samples = 1 + n + k
    <3>1. Samples - (1 + n) \in Nat /\ Samples = 1 + n + (Samples - (1 + n))
      BY <1>1, <1>4
    <3> QED BY <3>1
  <2>2. Samples * Fast = Fast * (1 + n) + k * Fast /\ k * Fast \in Nat
    BY <1>1, <2>1
  <2> QED BY <1>1, <1>2, <2>2
<1> QED BY <1>1, <1>2, <1>3, <1>4

LEMMA TakenType == ASSUME TypeInv PROVE Taken \in Nat
  BY DEF TypeInv, TypeOK, Taken

\* A low sample of a pack that is not charging is a breach.
LEMMA LowBreaches ==
  ASSUME ~rail, NEW s, s.ok, s.level <= Trip, s.flow \in Flow, s.flow < 1
  PROVE  Breach(s)
  BY DEF Breach, PowerState, Flow

\* While a poweroff is called for, time passes only when nothing is under way.
LEMMA TickIsIdle ==
  ASSUME TypeInv, RoundInv, Latched, CallsForPoweroff, Tick
  PROVE  /\ queue = <<>> /\ engine = "waiting" /\ sensor = "asleep"
         /\ nap > 0 /\ counter < Samples
<1>1. EngineBlocked /\ LoopBlocked
  BY DEF Tick, CallsForPoweroff
<1>2. engine = "waiting" /\ queue = <<>>
  BY <1>1 DEF EngineBlocked, CallsForPoweroff, Latched
<1>3. sensor = "asleep" /\ nap > 0
  BY <1>1, <1>2, PowerAssumption DEF LoopBlocked
<1>4. counter < Samples
  BY PowerAssumption DEF Latched, CallsForPoweroff, TypeInv, TypeOK
<1> QED BY <1>2, <1>3, <1>4

LEMMA TickTrip ==
  ASSUME TypeInv, RoundInv, Latched, TripInv, Timed(Tick, 1)
  PROVE  TripInv'
<1>1. CASE ~(CallsForPoweroff /\ CallsForPoweroff')
  <2>1. lowFor' = 0
    BY <1>1 DEF Timed
  <2> QED BY <2>1, PowerAssumption DEF TripInv, TripInTime
<1>2. CASE CallsForPoweroff /\ CallsForPoweroff'
  <2>1. Tick /\ lowFor' = lowFor + 1
    BY <1>2 DEF Timed
  <2>2. /\ queue = <<>> /\ engine = "waiting" /\ sensor = "asleep"
        /\ nap > 0 /\ counter < Samples
    BY <1>2, <2>1, TickIsIdle
  <2>3. UNCHANGED <<queue, engine, sensor, counter>> /\ nap' = nap - 1
    BY <2>1, <2>2 DEF Tick, TypeInv, TypeOK
  <2>4. Taken = counter /\ Taken' = counter /\ counter \in Nat
    BY <2>2, <2>3 DEF Taken, TypeInv, TypeOK
  <2>5. lowFor + nap <= Fast * (1 + counter)
    <3>1. CASE lowFor > 0
      BY <3>1, <2>4 DEF TripInv, OnTime
    <3>2. CASE lowFor = 0
      <4>1. nap <= Fast
        BY <1>2, <2>2, PowerAssumption
        DEF CallsForPoweroff, RoundInv, NapIsSafe, TypeInv, TypeOK, Charge
      <4> QED BY <3>2, <4>1, <2>4, FastTimes, PowerAssumption
              DEF TypeInv, TypeOK
    <3> QED BY <3>1, <3>2 DEF TypeInv, TypeOK
  <2>6. OnTime'
    <3>1. lowFor' + nap' = lowFor + nap
      BY <2>1, <2>3 DEF TypeInv, TypeOK
    <3> QED BY <3>1, <2>4, <2>5 DEF OnTime
  <2>7. TripInTime'
    <3>1. Fast * (1 + counter) <= Samples * Fast /\ Fast * (1 + counter) \in Nat
          /\ Samples * Fast \in Nat
      BY <2>2, <2>4, FastTimes, PowerAssumption
    <3>2. lowFor' <= lowFor + nap
      BY <2>1, <2>2 DEF TypeInv, TypeOK
    <3> QED BY <3>1, <3>2, <2>1, <2>5 DEF TripInTime, TypeInv, TypeOK
  <2>8. AllBreach'
    BY <2>2, <2>3 DEF AllBreach
  <2> QED BY <1>2, <2>6, <2>7, <2>8 DEF TripInv
<1> QED BY <1>1, <1>2

\* A step of no duration has only to keep what is under way.
LEMMA InstantTrip ==
  ASSUME TypeInv, TripInv, NEW A, Timed(A, 0),
         lowFor > 0 /\ CallsForPoweroff'
           => AllBreach' /\ lowFor + nap' <= Fast * (1 + Taken')
  PROVE  TripInv'
<1>1. lowFor' = lowFor \/ lowFor' = 0
  BY DEF Timed, TypeInv, TypeOK
<1>2. lowFor' > 0 => lowFor' = lowFor /\ CallsForPoweroff'
  BY <1>1, PowerAssumption DEF Timed
<1>3. TripInTime'
  BY <1>1, PowerAssumption DEF TripInv, TripInTime
<1>4. lowFor' > 0 => CallsForPoweroff' /\ AllBreach' /\ OnTime'
  BY <1>2 DEF OnTime
<1> QED BY <1>3, <1>4 DEF TripInv

\* What a loop finds when it runs while time is being counted.
LEMMA Counting ==
  ASSUME TypeInv, TripInv, lowFor > 0
  PROVE  /\ CallsForPoweroff /\ AllBreach
         /\ lowFor + nap <= Fast * (1 + Taken)
  BY DEF TripInv, OnTime

LEMMA SamplingTrip ==
  ASSUME TypeInv, RoundInv, TripInv, Timed(Sampling, 0)
  PROVE  TripInv'
<1> DEFINE Kept == AllBreach' /\ lowFor + nap' <= Fast * (1 + Taken')
<1>1. SUFFICES ASSUME lowFor > 0, CallsForPoweroff' PROVE Kept
  BY InstantTrip
<1>2. /\ CallsForPoweroff /\ AllBreach
      /\ lowFor + nap <= Fast * (1 + Taken)
  BY <1>1, Counting
<1>3. Sampling
  BY DEF Timed
<1>4. CASE ReadSucceeds
  <2>1. Took(Reading(total', filtered')) /\ charge' = charge
        /\ UNCHANGED <<nap, queue, engine, cur, counter, rail>>
    BY <1>4 DEF ReadSucceeds, world, state
  <2>2. filtered' \in Flow /\ Reading(total', filtered') \in Sample
    BY <1>4, TowardsType, CountedType, ReadingType
    DEF ReadSucceeds, TypeInv, TypeOK
  <2>3. Breach(out')
    <3>1. ~rail /\ charge <= Trip /\ filtered' < 1
      BY <1>1, <1>2 DEF CallsForPoweroff
    <3>2. out'.ok /\ out'.level = charge /\ out'.flow = filtered'
      BY <2>1, <2>2, <3>1, TookType DEF Reading, TypeInv
    <3> QED BY <2>2, <3>1, <3>2, LowBreaches
  <2>4. AllBreach'
    BY <1>2, <2>1, <2>3 DEF AllBreach, Breach, PowerState
  <2>5. Taken' = Taken
    BY <2>1 DEF Taken
  <2> QED BY <1>2, <2>1, <2>4, <2>5
<1>5. CASE ReinitSucceeds \/ LadderFails
  BY <1>2, <1>5 DEF ReinitSucceeds, LadderFails, CallsForPoweroff
<1>6. CASE Put
  <2>1. /\ sensor = "putting" /\ sensor' = "asleep"
        /\ queue' = Append(queue, out)
        /\ UNCHANGED <<engine, cur, counter, rail>>
    BY <1>6 DEF Put, state
  <2>2. Breach(out) /\ queue \in Seq(Sample) /\ out \in Sample
    BY <1>2, <2>1 DEF AllBreach, TypeInv, TypeOK
  <2>3. nap' = Fast /\ nap = 0
    BY <1>6, <2>1, <2>2, PutNap DEF Breach, RoundInv, OutIsCurrent
  <2>4. AllBreach'
    <3>1. ASSUME NEW i \in 1..Len(queue') PROVE Breach(queue'[i])
      BY <1>2, <2>1, <2>2 DEF AllBreach
    <3> QED BY <1>2, <2>1, <3>1 DEF AllBreach, Breach, PowerState
  <2>5. Taken' = Taken + 1
    BY <2>1, <2>2 DEF Taken, TypeInv, TypeOK
  <2>6. Fast * (1 + Taken') = Fast * (1 + Taken) + Fast
        /\ Fast * (1 + Taken) \in Nat
    BY <2>5, TakenType, FastTimes
  <2> QED BY <1>2, <2>3, <2>4, <2>6, PowerAssumption DEF TypeInv, TypeOK
<1> QED BY <1>3, <1>4, <1>5, <1>6 DEF Sampling

LEMMA DecidingTrip ==
  ASSUME TypeInv, Latched, TripInv, Timed(Deciding, 0)
  PROVE  TripInv'
<1> DEFINE Kept == AllBreach' /\ lowFor + nap' <= Fast * (1 + Taken')
<1>1. SUFFICES ASSUME lowFor > 0, CallsForPoweroff' PROVE Kept
  BY InstantTrip
<1>2. /\ CallsForPoweroff /\ AllBreach
      /\ lowFor + nap <= Fast * (1 + Taken)
  BY <1>1, Counting
<1>3. Deciding
  BY DEF Timed
<1>4. CASE Get
  <2>1. /\ engine = "waiting" /\ engine' = "storing" /\ queue # <<>>
        /\ cur' = Head(queue) /\ queue' = Tail(queue)
        /\ UNCHANGED <<rail, sensor, out, nap, counter>>
    BY <1>4 DEF Get, loop
  <2>2. queue \in Seq(Sample)
    BY DEF TypeInv, TypeOK
  <2>3. Breach(cur') /\ \A i \in 1..Len(queue') : Breach(queue'[i])
    BY <1>2, <2>1, <2>2 DEF AllBreach
  <2>4. AllBreach'
    BY <1>2, <2>1, <2>3 DEF AllBreach, Breach, PowerState
  <2>5. Taken' = Taken
    BY <2>1, <2>2 DEF Taken, TypeInv, TypeOK
  <2> QED BY <1>2, <2>1, <2>4, <2>5
<1>5. CASE Judging
  <2>1. /\ engine = "storing"
        /\ UNCHANGED <<rail, sensor, out, nap, queue>>
    BY <1>5 DEF Judging, Counts, Trips, Recovers, Ignores, Stored, loop
  <2>2. Breach(cur) /\ ~requested' /\ ~requested /\ counter < Samples
    BY <1>1, <1>2, <2>1, PowerAssumption
    DEF AllBreach, CallsForPoweroff, Latched, TypeInv, TypeOK
  <2>3. counter' = counter + 1 /\ engine' = "waiting"
    BY <1>5, <2>2, PowerAssumption
    DEF Judging, Counts, Trips, Recovers, Ignores, Count
  <2>4. AllBreach'
    BY <1>2, <2>1, <2>3 DEF AllBreach, Breach, PowerState
  <2>5. Taken' = Taken
    BY <2>1, <2>3 DEF Taken, TypeInv, TypeOK
  <2> QED BY <1>2, <2>1, <2>4, <2>5
<1>6. CASE PoweroffFails
  BY <1>2, <1>6 DEF PoweroffFails, Latched, CallsForPoweroff
<1>7. CASE PoweroffAccepted
  BY <1>1, <1>7 DEF PoweroffAccepted, Stop, CallsForPoweroff
<1> QED BY <1>3, <1>4, <1>5, <1>6, <1>7 DEF Deciding

LEMMA LivesTrip ==
  ASSUME TypeInv, TripInv, Timed(Lives, 0)
  PROVE  TripInv'
<1>1. ~(CallsForPoweroff /\ CallsForPoweroff')
  BY DEF Timed, Lives, Boot, Crash, PackEmpty, Stop, CallsForPoweroff
<1>2. lowFor' = 0
  BY <1>1 DEF Timed
<1> QED BY <1>2, PowerAssumption DEF TripInv, TripInTime

LEMMA TripInit == Init => TripInv
  BY PowerAssumption DEF Init, TripInv, TripInTime

LEMMA TripStep ==
  TypeInv /\ RoundInv /\ Latched /\ TripInv /\ [Next]_vars => TripInv'
<1> SUFFICES ASSUME TypeInv, RoundInv, Latched, TripInv, [Next]_vars
             PROVE  TripInv'
  OBVIOUS
<1>1. CASE UNCHANGED vars
  BY <1>1
  DEF TripInv, TripInTime, CallsForPoweroff, AllBreach, OnTime, Taken, Breach,
      PowerState, vars, world, driver, loop, state
<1> QED BY <1>1, TickTrip, SamplingTrip, DecidingTrip, LivesTrip DEF Next

\* For any intervals and thresholds with a wide enough margin: a poweroff that
\* a low pack calls for is requested within the time of Samples fast samples,
\* although the loop idles between samples and the queue may hold old ones.
THEOREM TripsInTime == Spec => []TripInTime
<1>1. TripInv => TripInTime
  BY DEF TripInv
<1> QED BY <1>1, RoundInit, RoundStep, LatchedInit, LatchedStep, TripInit,
           TripStep, TypeInvHolds, PTL DEF Spec

=============================================================================
