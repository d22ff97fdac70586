----------------------------- MODULE PowerMonitor -----------------------------
(***************************************************************************)
(* power-monitor: a sampling loop that reads the UPS sensor, a bounded     *)
(* queue, and a state engine that stores every sample and powers the host  *)
(* off when enough of them are low.                                        *)
(*                                                                         *)
(* Charge, voltage and state of charge share one scale, in which a sample  *)
(* breaches at Trip and shows recovery at Recover.  A pack gains or loses  *)
(* at most one unit per tick.  Currents are bands: below, within and above *)
(* the deadband.  A sensor at the battery reads the charge off the         *)
(* voltage; one on the 5 V output rail has only the coulomb counter, which *)
(* starts where the driver says and sums up the filtered current: it may   *)
(* be anywhere, above the charge of the pack or below it.                  *)
(***************************************************************************)
EXTENDS Integers, Sequences

CONSTANTS
  Full,       \* battery_capacity_mah
  Trip,       \* shutdown_soc_trip_pct, shutdown_voltage_trip_v
  Recover,    \* shutdown_soc_recover_pct, shutdown_voltage_recover_v
  Margin,     \* fast_sample_soc_margin_pct, fast_sample_voltage_margin_v
  Fast,       \* sample_interval_seconds
  Idle,       \* sample_interval_idle_seconds
  Samples,    \* shutdown_consecutive_samples
  QueueMax,   \* queue_max_events // 2
  Busy        \* how long an insert waits for SQLite's lock

\* load_config clamps Recover and the minima.
ASSUME PowerAssumption ==
  /\ Full \in Nat /\ Trip \in 0..Full /\ Recover \in Trip..Full
  /\ Margin \in Nat /\ Fast \in Nat \ {0} /\ Idle \in Nat \ {0}
  /\ Samples \in Nat \ {0} /\ QueueMax \in Nat \ {0} /\ Busy \in Nat

\* The margin is wide enough: a pack does not get from above it to the trip
\* within one idle interval.
ASSUME MarginAssumption == Idle <= Margin + 1

Charge == 0..Full
Flow == -1..1

VARIABLES
  rail,         \* the sensor is on the output rail; never changes
  charge, flow, \* of the pack, in truth
  sound,        \* the INA219 and its bus answer; else they may or may not
  locked,       \* another process holds SQLite's write lock
  up,           \* the service runs
  ina,          \* _ina: "none", "blind" (no starting charge) or "ready"
  total,        \* total_mAh, on the rail
  filtered,     \* the band of the Kalman-filtered current
  sensor,       \* where sensor_loop is
  out,          \* the sample it is about to queue
  nap,          \* how long it still sleeps
  held,         \* history: the last sample waited for room in the queue
  wasCharging,  \* previous_is_charging
  status,       \* stats.last_sensor_status
  run,          \* history: low samples taken since the last one with recovery
  queue,        \* sensor_queue
  engine,       \* where state_engine_loop is
  cur,          \* the sample it works on
  waited,       \* how long its insert has waited
  counter,      \* low_battery_counter, up to Samples
  requested,    \* stats.shutdown_requested
  lowFor        \* history: how long a poweroff has been called for

driver == <<ina, total, filtered>>
loop == <<sensor, out, nap, held, wasCharging, status, run>>
state == <<engine, cur, waited, counter, requested>>
world == <<charge, flow, sound, locked>>
vars == <<rail, world, up, driver, loop, queue, state, lowFor>>

\* A sample: whether the read succeeded, the charge and the current it shows,
\* and (history) how many low ones, itself included, its loop has taken by then.
Sample == [ok : BOOLEAN, level : Charge, flow : Flow, run : 0..Samples]
\* What the evaluations find in a payload without readings.
Fault == [ok |-> FALSE, level |-> 0, flow |-> 0, run |-> 0]

-----------------------------------------------------------------------------
(* The pack, its sensor, the lock and the clock.                           *)

LoopBlocked ==
  \/ sensor = "asleep" /\ nap > 0
  \/ sensor = "putting" /\ Len(queue) = QueueMax

EngineBlocked ==
  \/ engine = "waiting" /\ queue = <<>>
  \/ engine = "storing" /\ locked /\ waited < Busy
  \/ engine = "asking"

\* Time passes when neither loop has something to do, and the surroundings
\* change with it.  A full pack takes no more current.
Tick ==
  /\ up => LoopBlocked /\ EngineBlocked
  /\ charge + flow \in Charge
  /\ charge' = charge + flow
  /\ flow' \in Flow /\ charge' + flow' <= Full
  /\ sound' \in BOOLEAN
  /\ locked' \in BOOLEAN
  /\ nap' = IF nap > 0 THEN nap - 1 ELSE 0
  /\ held' = (held \/ sensor = "putting")
  /\ waited' = IF engine = "storing" THEN waited + 1 ELSE waited
  /\ UNCHANGED <<rail, up, driver, sensor, out, wasCharging, status, queue,
                 run, engine, cur, counter, requested>>

-----------------------------------------------------------------------------
(* The service starts and stops.                                           *)

Init ==
  /\ rail \in BOOLEAN
  /\ charge \in Charge /\ flow = 0 /\ sound = TRUE /\ locked = FALSE
  /\ up = FALSE
  /\ ina = "none" /\ total = 0 /\ filtered = 0
  /\ sensor = "asleep" /\ out = Fault /\ nap = 0 /\ held = FALSE
  /\ wasCharging = "unknown" /\ status = "unknown" /\ run = 0
  /\ queue = <<>>
  /\ engine = "waiting" /\ cur = Fault /\ waited = 0
  /\ counter = 0 /\ requested = FALSE
  /\ lowFor = 0

Stop ==
  /\ up' = FALSE
  /\ ina' = "none" /\ total' = 0 /\ filtered' = 0
  /\ sensor' = "asleep" /\ out' = Fault /\ nap' = 0 /\ held' = FALSE
  /\ wasCharging' = "unknown" /\ status' = "unknown" /\ run' = 0
  /\ queue' = <<>>
  /\ engine' = "waiting" /\ cur' = Fault /\ waited' = 0
  /\ counter' = 0 /\ requested' = FALSE

\* UpsMonitor.reinitialize, on the chip's address: the driver is in place
\* before the voltage is read that says where its counter starts.  On the
\* rail that voltage means a full pack, whatever the pack has.
Reinit(i) ==
  /\ sound => i = "ready"
  /\ ina' = i
  /\ total' = IF rail /\ i = "ready" THEN Full ELSE 0

Drivers == {"none", "blind", "ready"}

Boot ==
  /\ ~up /\ charge > 0
  /\ \E i \in Drivers : Reinit(i)
  /\ up' = TRUE
  /\ UNCHANGED <<rail, world, filtered, loop, queue, state>>

Crash ==
  /\ up
  /\ Stop
  /\ UNCHANGED <<rail, world>>

PackEmpty ==
  /\ charge = 0 /\ flow = -1
  /\ flow' = 0
  /\ Stop
  /\ UNCHANGED <<rail, charge, sound, locked>>

-----------------------------------------------------------------------------
(* sensor_loop.  Reads and the ladder run without a step of another loop   *)
(* in between that they could see, so a round is one step.                 *)

\* The filter follows the real current, sooner or later.
Towards(f) == {f, IF f < flow THEN f + 1 ELSE IF f > flow THEN f - 1 ELSE f}

\* _update_coulomb_counter sums up the filtered current, which lags behind and
\* starts from 0 with each driver, over the time since the last read.  How far
\* the counter moves is left open, but for its direction; its reading is clamped
\* to the scale, and so is the counter here.
Counted(n, f) ==
  IF ~rail THEN {n}
  ELSE {m \in Charge : (f = 1 => m >= n) /\ (f = -1 => m <= n)}

\* UpsMonitor.read, with the counter at n and the filter at f.
Reading(n, f) ==
  [ok |-> TRUE, level |-> IF rail THEN n ELSE charge, flow |-> f, run |-> 0]

\* _evaluate_shutdown_recovery
Recovery(s) == s.ok /\ s.level >= Recover

\* History: n low samples were taken since the last recovery, and now s.
After(n, s) ==
  IF s.ok /\ s.level <= Trip THEN (IF n < Samples THEN n + 1 ELSE n)
  ELSE IF Recovery(s) THEN 0 ELSE n

Round ==
  /\ up /\ sensor = "asleep" /\ nap = 0
  /\ sensor' = "putting"
  /\ held' = FALSE

Took(s) ==
  /\ run' = After(run, s)
  /\ out' = [s EXCEPT !.run = run']
  /\ status' = IF s.ok THEN "ok" ELSE "fault"

\* The first read succeeds, or the retry, or the read after recalibration,
\* which leave the same state.
ReadSucceeds ==
  /\ Round
  /\ ina # "none"
  /\ filtered' \in Towards(filtered)
  /\ total' \in Counted(total, filtered')
  /\ Took(Reading(total', filtered'))
  /\ UNCHANGED <<rail, world, up, ina, nap, wasCharging, queue, state>>

\* All reads fail, and re-initialisation brings the sensor back.
ReinitSucceeds ==
  /\ Round
  /\ ina = "none" \/ ~sound
  /\ ina' = "ready"
  /\ filtered' \in Towards(0)
  /\ total' \in Counted(IF rail THEN Full ELSE 0, filtered')
  /\ Took(Reading(total', filtered'))
  /\ UNCHANGED <<rail, world, up, nap, wasCharging, queue, state>>

\* Mutant of LadderFails: a driver that is missing is not looked for again.
LadderFailsOffline ==
  /\ Round
  /\ ~sound \/ ina = "none"
  /\ IF ina = "none" THEN UNCHANGED <<ina, total>> ELSE \E i \in Drivers : Reinit(i)
  /\ filtered' = 0
  /\ Took(Fault)
  /\ UNCHANGED <<rail, world, up, nap, wasCharging, queue, state>>

\* The whole ladder fails.
LadderFails ==
  /\ Round
  /\ ~sound
  /\ \E i \in Drivers : Reinit(i)
  /\ filtered' = 0
  /\ Took(Fault)
  /\ UNCHANGED <<rail, world, up, nap, wasCharging, queue, state>>

IsCharging(s) == rail /\ s.ok /\ s.flow = 1

\* Mutant of NextInterval: the margin is left out.
NextIntervalNoMargin(s, changed) ==
  IF ~s.ok \/ changed \/ s.level <= Trip \/ Idle < Fast THEN Fast ELSE Idle

\* _select_next_sample_interval
NextInterval(s, changed) ==
  IF ~s.ok \/ changed \/ s.level <= Trip + Margin \/ Idle < Fast THEN Fast ELSE Idle

\* Mutant of Put: the queue has no bound.
PutUnbounded ==
  /\ sensor = "putting"
  /\ queue' = Append(queue, out)
  /\ wasCharging' = "no"
  /\ nap' = NextInterval(out, FALSE)
  /\ sensor' = "asleep" /\ out' = Fault
  /\ UNCHANGED <<rail, world, up, driver, held, status, run, state>>

\* out_queue.put, which waits for room, and what follows it up to the sleep.
Put ==
  /\ sensor = "putting" /\ Len(queue) < QueueMax
  /\ queue' = Append(queue, out)
  /\ LET now == IF IsCharging(out) THEN "yes" ELSE "no"
     IN /\ wasCharging' = now
        /\ nap' = NextInterval(out, wasCharging \notin {"unknown", now})
  /\ sensor' = "asleep" /\ out' = Fault
  /\ UNCHANGED <<rail, world, up, driver, held, status, run, state>>

-----------------------------------------------------------------------------
(* state_engine_loop.                                                      *)

Get ==
  /\ engine = "waiting" /\ queue # <<>>
  /\ engine' = "storing"
  /\ cur' = Head(queue) /\ queue' = Tail(queue)
  /\ waited' = 0
  /\ UNCHANGED <<rail, world, up, driver, loop, counter, requested>>

\* _derive_power_flags and _derive_power_state, where the voltage of each sample
\* tells the place of the sensor; the driver never reports an overflow.  brownout_risk stands for discharging or
\* battery_only, since its voltage is below the trip.
PowerState(s) ==
  IF ~s.ok THEN "sensor_fault"
  ELSE IF rail /\ s.flow = 1 THEN "charging"
  ELSE IF s.flow = -1 THEN "discharging"
  ELSE IF ~rail THEN "battery_only" ELSE "external_input_present"

\* _evaluate_shutdown_trip
Breach(s) ==
  /\ s.ok /\ s.level <= Trip
  /\ PowerState(s) \in {"discharging", "battery_only"} \/ s.flow = -1
  /\ PowerState(s) # "charging" /\ s.flow # 1

\* The insert ends, one way or the other, and the sample is evaluated.
Stored ==
  /\ engine = "storing"
  /\ ~locked \/ waited >= Busy
  /\ cur' = Fault /\ waited' = 0
  /\ UNCHANGED <<rail, world, up, driver, loop, queue>>

Count == IF counter < Samples THEN counter + 1 ELSE counter

Counts ==
  /\ Stored
  /\ Breach(cur)
  /\ Count < Samples \/ requested
  /\ counter' = Count
  /\ engine' = "waiting"
  /\ UNCHANGED requested

\* The latch is set before the command is tried, and nothing clears it.
Trips ==
  /\ Stored
  /\ Breach(cur)
  /\ Count >= Samples /\ ~requested
  /\ counter' = Count
  /\ requested' = TRUE
  /\ engine' = "asking"

\* Mutant of Recovers: the count is kept.
RecoversKeepsCount ==
  /\ Stored
  /\ ~Breach(cur) /\ Recovery(cur)
  /\ engine' = "waiting"
  /\ UNCHANGED <<counter, requested>>

Recovers ==
  /\ Stored
  /\ ~Breach(cur) /\ Recovery(cur)
  /\ counter' = 0
  /\ engine' = "waiting"
  /\ UNCHANGED requested

Ignores ==
  /\ Stored
  /\ ~Breach(cur) /\ ~Recovery(cur)
  /\ engine' = "waiting"
  /\ UNCHANGED <<counter, requested>>

\* _request_host_poweroff: refused, not found or timed out
PoweroffFails ==
  /\ engine = "asking"
  /\ engine' = "waiting"
  /\ UNCHANGED <<rail, world, up, driver, loop, queue, cur, waited, counter,
                 requested>>

\* ... or accepted, and the host goes down.
PoweroffAccepted ==
  /\ engine = "asking"
  /\ Stop
  /\ UNCHANGED <<rail, world>>

-----------------------------------------------------------------------------
Sampling == ReadSucceeds \/ ReinitSucceeds \/ LadderFails \/ Put
Judging == Counts \/ Trips \/ Recovers \/ Ignores
Deciding == Get \/ Judging \/ PoweroffFails \/ PoweroffAccepted
Lives == Boot \/ Crash \/ PackEmpty

\* The pack is low, the sensor at the battery shows it, and nothing is in the
\* way of the two loops.
CallsForPoweroff ==
  /\ up /\ ~rail /\ ~requested
  /\ charge <= Trip /\ filtered < 1
  /\ sound /\ ina # "none"
  /\ ~locked /\ ~held

\* Every step, of d ticks, keeps that history.
Timed(A, d) ==
  /\ A
  /\ lowFor' = IF CallsForPoweroff /\ CallsForPoweroff' THEN lowFor + d ELSE 0

Next ==
  \/ Timed(Tick, 1)
  \/ Timed(Sampling, 0)
  \/ Timed(Deciding, 0)
  \/ Timed(Lives, 0)

Spec == Init /\ [][Next]_vars

\* Both loops run for ever, time passes, and an empty pack cuts out.
FairSpec ==
  /\ Spec
  /\ WF_vars(Timed(Tick, 1))
  /\ WF_vars(Timed(Sampling, 0))
  /\ WF_vars(Timed(Deciding, 0))
  /\ WF_vars(Timed(PackEmpty, 0))

-----------------------------------------------------------------------------
TypeOK ==
  /\ rail \in BOOLEAN
  /\ charge \in Charge /\ flow \in Flow
  /\ sound \in BOOLEAN /\ locked \in BOOLEAN
  /\ up \in BOOLEAN
  /\ ina \in Drivers /\ total \in Charge /\ filtered \in Flow
  /\ sensor \in {"asleep", "putting"} /\ out \in Sample
  /\ nap \in Nat /\ held \in BOOLEAN
  /\ wasCharging \in {"unknown", "yes", "no"}
  /\ status \in {"unknown", "ok", "fault"} /\ run \in 0..Samples
  /\ queue \in Seq(Sample) /\ Len(queue) <= QueueMax
  /\ engine \in {"waiting", "storing", "asking"} /\ cur \in Sample
  /\ waited \in 0..Busy
  /\ counter \in 0..Samples /\ requested \in BOOLEAN
  /\ lowFor \in Nat

\* The host is not powered off without cause: by the sample that trips it, the
\* present life of the service has taken Samples low ones since the last that
\* showed recovery, each of a pack that was low, if the sensor is at the battery.
\* On the rail it is only the counter that was low.  Faults, samples judged late
\* and a driver that is replaced make up for none of them.
PoweroffExplained ==
  [][~requested /\ requested' => cur.run >= Samples]_vars

\* Slower sampling does not delay the shutdown: once a low pack calls for it,
\* it is requested within the time that Samples fast samples take.
TripInTime == lowFor <= Samples * Fast

\* A sensor that answers again is read again, whatever its failures have left
\* of the driver.
SensorComesBack == <>[](up /\ sound) => <>[](status = "ok")

-----------------------------------------------------------------------------
(* Why they hold: the inductive invariants of the proofs.                  *)

\* A service that is down keeps nothing.
DownIsEmpty ==
  ~up =>
    /\ sensor = "asleep" /\ nap = 0 /\ ~held /\ queue = <<>>
    /\ engine = "waiting" /\ waited = 0
    /\ counter = 0 /\ ~requested /\ run = 0

\* What the sample before the first in the queue accounts for, and the last one
\* that has left the sensor loop.
Judged == IF engine = "storing" THEN cur.run ELSE counter
LastRun == IF queue = <<>> THEN Judged ELSE queue[Len(queue)].run

\* Each sample on its way has at least what the one before it had and itself adds.
CauseInv ==
  /\ engine = "storing" => After(counter, cur) <= cur.run
  /\ \A i \in 1..Len(queue) :
       After(IF i = 1 THEN Judged ELSE queue[i - 1].run, queue[i]) <= queue[i].run
  /\ sensor = "putting" => After(LastRun, out) <= out.run
  /\ run >= (IF sensor = "putting" THEN out.run ELSE LastRun)

\* A nap in which the trip could be reached is a short one.
NapIsSafe ==
  ~held /\ ~rail /\ nap > 0 => nap <= Fast \/ charge >= Trip + nap

\* A sample that did not wait shows the pack as it is.
OutIsCurrent ==
  sensor = "putting" =>
    /\ nap = 0
    /\ ~held /\ ~rail /\ out.ok => out.level = charge

RoundInv == NapIsSafe /\ OutIsCurrent

Latched == (counter = Samples => requested) /\ (engine = "asking" => requested)

\* Everything under way was read since the poweroff was called for.
AllBreach ==
  /\ \A i \in 1..Len(queue) : Breach(queue[i])
  /\ engine = "storing" => Breach(cur)
  /\ sensor = "putting" => Breach(out)

\* How many breaches are counted or about to be.
Taken == counter + Len(queue) + (IF engine = "storing" THEN 1 ELSE 0)

\* Each of them took one fast interval, the one before the first included.
OnTime == lowFor + nap <= Fast * (1 + Taken)

TripInv ==
  /\ lowFor > 0 => CallsForPoweroff /\ AllBreach /\ OnTime
  /\ TripInTime

=============================================================================
