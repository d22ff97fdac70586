----------------------------- MODULE SentryMode -----------------------------
(***************************************************************************)
(* Sentry Mode and parked mode of telematics-edge (main.py, sentry.py,     *)
(* shared/sentry_flag.py): five workers of one asyncio loop share the      *)
(* flags of RuntimeState, and one of them suspends the BLE and upload      *)
(* co-processes through a sentinel file.                                   *)
(*                                                                         *)
(* A step is what a worker does from one await to the next, so workers     *)
(* interleave exactly where asyncio lets them.  Durations are counted in   *)
(* ticks and saturate.  How long a worker sleeps between two rounds is     *)
(* left open, except for the flush grace, whose deadline is kept.          *)
(***************************************************************************)
EXTENDS Integers

CONSTANTS
  MotionFresh,    \* ACTIVE_AFTER_MOTION_SECONDS
  IdleTimeout,    \* SENTRY_IDLE_TIMEOUT_SECONDS
  Grace,          \* SENTRY_SYNC_FLUSH_GRACE_SECONDS
  MaxFailures,    \* NETWORK_WATCHDOG_MAX_FAILURES
  FlagErrors,     \* sentinel operations that may fail: "set", "clear"
  MaxCrashes      \* bound: restarts of telematics-edge

ASSUME SentryConstants ==
  /\ MotionFresh \in Nat \ {0}
  /\ IdleTimeout \in Nat
  /\ Grace \in Nat
  /\ MaxFailures \in Nat \ {0}
  /\ FlagErrors \subseteq {"set", "clear"}
  /\ MaxCrashes \in Nat

VARIABLES
  link,          \* 8.8.8.8:53 can be reached
  charging,      \* is_charging of the newest power_readings row
  fast,          \* latest_valid_gps shows at least _MOVING_SPEED_KMH
  quiet,         \* ticks since last_motion_monotonic
  signal,        \* a ble_key_beacon row waits in wake_signals
  parked,        \* state.parked_mode
  event,         \* state.park_wake_event is set
  wifi,          \* state.wifi_connected
  sentryActive,  \* state.sentry_active
  idle,          \* ticks since sentry_idle_since_monotonic
  prev,          \* SentryController.prev_suspended
  sentinel,      \* the sentinel file exists
  pc,            \* where sentry_mode_worker is; "down" between two processes
  seen,          \* is_charging as read in this round
  left,          \* ticks to the deadline of the flush grace
  announced,     \* this sleep's heartbeat with active=true: "no" attempt yet,
                 \* "stored" in the database, or "lost" by a failed insert
  scan,          \* where parked_scan_worker is
  failures,      \* consecutive_failures of network_watchdog_worker
  crashes        \* restarts so far

outside == <<link, charging, fast, quiet>>
runtime == <<parked, event, wifi, sentryActive>>
sentry == <<idle, pc, seen, left, announced>>
flag == <<prev, sentinel>>
vars == <<link, charging, fast, quiet, signal, parked, event, wifi,
          sentryActive, idle, prev, sentinel, pc, seen, left, announced, scan,
          failures, crashes>>

TypeOK ==
  /\ {link, charging, fast, signal} \subseteq BOOLEAN
  /\ {parked, event, wifi, sentryActive} \subseteq BOOLEAN
  /\ {prev, sentinel, seen} \subseteq BOOLEAN
  /\ announced \in {"no", "stored", "lost"}
  /\ quiet \in 0..MotionFresh
  /\ idle \in 0..IdleTimeout
  /\ left \in 0..Grace
  /\ pc \in {"down", "top", "decide", "emit", "stored", "grace"}
  /\ scan \in {"top", "wait", "beacon", "power"}
  /\ failures \in 0..MaxFailures
  /\ crashes \in 0..MaxCrashes

Init ==
  /\ link \in BOOLEAN
  /\ charging \in BOOLEAN
  /\ fast = FALSE
  /\ quiet = MotionFresh
  /\ signal = FALSE
  /\ parked = FALSE
  /\ event = FALSE
  /\ wifi = FALSE
  /\ sentryActive = FALSE
  /\ idle = 0
  /\ prev = FALSE
  /\ sentinel = FALSE
  /\ pc = "top"
  /\ seen = FALSE
  /\ left = 0
  /\ announced = "no"
  /\ scan = "top"
  /\ failures = 0
  /\ crashes = 0

Up == pc # "down"

\* _truck_is_active
Active == quiet < MotionFresh \/ fast

-----------------------------------------------------------------------------
(* What the truck lives through.                                           *)

\* Time passes for every timer at once; the grace sleep ends at its deadline,
\* so no tick carries the worker past it.
Tick ==
  /\ ~(pc = "grace" /\ left = 0)
  /\ quiet' = IF quiet < MotionFresh THEN quiet + 1 ELSE quiet
  /\ idle' = IF idle < IdleTimeout THEN idle + 1 ELSE idle
  /\ left' = IF left > 0 THEN left - 1 ELSE 0
  /\ UNCHANGED <<link, charging, fast, signal, runtime, flag, pc, seen,
                 announced, scan, failures, crashes>>

LinkChanges ==
  /\ link' = ~link
  /\ UNCHANGED <<charging, fast, quiet, signal, runtime, sentry, flag, scan,
                 failures, crashes>>

\* power-monitor stores a reading with the other is_charging.
ChargingChanges ==
  /\ charging' = ~charging
  /\ UNCHANGED <<link, fast, quiet, signal, runtime, sentry, flag, scan,
                 failures, crashes>>

\* on_reading: a valid fix replaces latest_valid_gps.  A dead receiver leaves
\* the last one in place, however old.
FixChangesSpeed ==
  /\ Up
  /\ fast' = ~fast
  /\ UNCHANGED <<link, charging, quiet, signal, runtime, sentry, flag, scan,
                 failures, crashes>>

\* Leaving parked mode, as every worker that sees a reason to does it.
Unpark ==
  /\ parked' = FALSE
  /\ event' = TRUE

UnparkIfParked ==
  IF parked THEN Unpark ELSE UNCHANGED <<parked, event>>

\* _on_motion_wake, called back by the IMU reader on a harsh event.
Motion ==
  /\ Up
  /\ quiet' = 0
  /\ UnparkIfParked
  /\ UNCHANGED <<link, charging, fast, signal, wifi, sentryActive, sentry,
                 flag, scan, failures, crashes>>

\* ble-sensor hears the driver's key beacon; a scan that was under way when the
\* sentinel appeared still reports it.
KeySeen ==
  /\ signal' = TRUE
  /\ UNCHANGED <<outside, runtime, sentry, flag, scan, failures, crashes>>

-----------------------------------------------------------------------------
(* network_watchdog_worker: one round runs without an await.               *)

\* Mutant of CheckConnected: leaves parked mode and forgets the cached flag.
CheckConnectedUncached ==
  /\ Up
  /\ link
  /\ UnparkIfParked
  /\ failures' = 0
  /\ UNCHANGED <<outside, signal, wifi, sentryActive, sentry, flag, scan,
                 crashes>>

CheckConnected ==
  /\ Up
  /\ link
  /\ UnparkIfParked
  /\ wifi' = TRUE
  /\ failures' = 0
  /\ UNCHANGED <<outside, signal, sentryActive, sentry, flag, scan, crashes>>

\* Mutant of CheckFailed: a truck in use is parked too.
CheckFailedParksAnyway ==
  /\ Up
  /\ ~link
  /\ wifi' = FALSE
  /\ failures' = IF failures + 1 < MaxFailures THEN failures + 1 ELSE 0
  /\ parked' = (parked \/ failures + 1 >= MaxFailures)
  /\ UNCHANGED <<outside, signal, event, sentryActive, sentry, flag, scan,
                 crashes>>

\* At the limit an unparked truck that is not in use parks, unless the second
\* probe finds the link back.
CheckFailed ==
  /\ Up
  /\ ~link
  /\ wifi' = FALSE
  /\ failures' = IF failures + 1 < MaxFailures THEN failures + 1 ELSE 0
  /\ \/ UNCHANGED parked
     \/ failures + 1 >= MaxFailures /\ ~Active /\ parked' = TRUE
  /\ UNCHANGED <<outside, signal, event, sentryActive, sentry, flag, scan,
                 crashes>>

\* heartbeat_builder_worker and maintenance_worker probe the link while awake.
ProbeWhileAwake ==
  /\ Up
  /\ ~parked
  /\ wifi' = link
  /\ UNCHANGED <<outside, signal, parked, event, sentryActive, sentry, flag,
                 scan, failures, crashes>>

-----------------------------------------------------------------------------
(* parked_scan_worker and _parked_scan_cycle.                              *)

ScanTop ==
  /\ Up
  /\ scan = "top"
  /\ IF parked
       THEN scan' = "wait" /\ UNCHANGED event
       ELSE event' = FALSE /\ UNCHANGED scan
  /\ UNCHANGED <<outside, signal, parked, wifi, sentryActive, sentry, flag,
                 failures, crashes>>

ScanWoken ==
  /\ Up
  /\ scan = "wait"
  /\ event
  /\ event' = FALSE
  /\ parked' = FALSE
  /\ wifi' = (wifi \/ link)
  /\ scan' = "top"
  /\ UNCHANGED <<outside, signal, sentryActive, sentry, flag, failures,
                 crashes>>

\* The parked sleep is over; an active truck leaves parked mode at once.
ScanTimeout ==
  /\ Up
  /\ scan = "wait"
  /\ ~event
  /\ IF Active
       THEN Unpark /\ scan' = "top"
       ELSE scan' = "beacon" /\ UNCHANGED <<parked, event>>
  /\ UNCHANGED <<outside, signal, wifi, sentryActive, sentry, flag, failures,
                 crashes>>

\* pop_beacon_wake_signal
ScanBeacon ==
  /\ Up
  /\ scan = "beacon"
  /\ signal' = FALSE
  /\ IF signal
       THEN Unpark /\ scan' = "top"
       ELSE scan' = "power" /\ UNCHANGED <<parked, event>>
  /\ UNCHANGED <<outside, wifi, sentryActive, sentry, flag, failures, crashes>>

\* get_latest_power_snapshot: a read that fails is answered None, which every
\* caller takes for a truck that does not charge.
ChargingRead == {charging, FALSE}

\* The charging state is read, then the link is probed.
ScanPower ==
  /\ Up
  /\ scan = "power"
  /\ scan' = "top"
  /\ \E read \in ChargingRead :
       /\ IF read \/ link THEN Unpark ELSE UNCHANGED <<parked, event>>
       /\ wifi' = IF ~read /\ link THEN TRUE ELSE wifi
  /\ UNCHANGED <<outside, signal, sentryActive, sentry, flag, failures,
                 crashes>>

-----------------------------------------------------------------------------
(* sentry_mode_worker, _enter_sentry and SentryController.                 *)

\* apply(True): next_action says "suspend" only from the resumed state.
ApplySuspend ==
  IF prev THEN UNCHANGED flag
  ELSE /\ prev' = TRUE
       /\ sentinel' = TRUE \/ ("set" \in FlagErrors /\ UNCHANGED sentinel)

\* apply(False)
ApplyResume ==
  IF ~prev THEN UNCHANGED flag
  ELSE /\ prev' = FALSE
       /\ sentinel' = FALSE \/ ("clear" \in FlagErrors /\ UNCHANGED sentinel)

\* A round starts: activity resets the idle clock, then the battery is read.
Observe ==
  /\ pc = "top"
  /\ idle' = IF Active THEN 0 ELSE idle
  /\ seen' \in ChargingRead
  /\ pc' = "decide"
  /\ UNCHANGED <<outside, signal, runtime, flag, left, announced, scan,
                 failures, crashes>>

\* Mutant of ShouldSuspend: the charger is no reason to stay awake.
ShouldSuspendCharging == ~Active /\ ~wifi /\ idle >= IdleTimeout

\* should_suspend
ShouldSuspend == ~Active /\ ~seen /\ ~wifi /\ idle >= IdleTimeout

\* Falling asleep starts by announcing it, and the heartbeat probes the link.
FallAsleep ==
  /\ pc = "decide"
  /\ ShouldSuspend
  /\ ~sentryActive
  /\ sentryActive' = TRUE
  /\ announced' = "no"
  /\ wifi' = link
  /\ pc' = "emit"
  /\ UNCHANGED <<outside, signal, parked, event, flag, idle, seen, left, scan,
                 failures, crashes>>

\* _emit_sentry_heartbeat.  insert_heartbeat logs a failure and returns, so the
\* sleep goes on whether or not the row is in the database.
Emit ==
  /\ pc = "emit"
  /\ announced' \in {"stored", "lost"}
  /\ pc' = "stored"
  /\ UNCHANGED <<outside, signal, runtime, flag, idle, seen, left, scan,
                 failures, crashes>>

\* One turn of the grace loop with this much left; mode is parked_mode unless
\* motion ends the sleep before it began.
GraceTurn(remaining, mode) ==
  IF remaining = 0
    THEN /\ ApplySuspend
         /\ pc' = "top"
         /\ parked' = mode
         /\ UNCHANGED <<event, sentryActive, left>>
    ELSE IF Active
      THEN /\ sentryActive' = FALSE
           /\ Unpark
           /\ pc' = "top"
           /\ left' = 0
           /\ UNCHANGED flag
      ELSE /\ pc' = "grace"
           /\ left' = remaining
           /\ parked' = mode
           /\ UNCHANGED <<event, sentryActive, flag>>

Park ==
  /\ pc = "stored"
  /\ GraceTurn(Grace, TRUE)
  /\ UNCHANGED <<outside, signal, wifi, idle, seen, announced, scan, failures,
                 crashes>>

GraceWake ==
  /\ pc = "grace"
  /\ GraceTurn(left, parked)
  /\ UNCHANGED <<outside, signal, wifi, idle, seen, announced, scan, failures,
                 crashes>>

StayAsleep ==
  /\ pc = "decide"
  /\ ShouldSuspend
  /\ sentryActive
  /\ ApplySuspend
  /\ pc' = "top"
  /\ UNCHANGED <<outside, signal, runtime, idle, seen, left, announced, scan,
                 failures, crashes>>

\* No reason to sleep: an announced sleep ends, the co-processes resume.
StayAwakeOrWake ==
  /\ pc = "decide"
  /\ ~ShouldSuspend
  /\ sentryActive' = FALSE
  /\ IF sentryActive THEN UnparkIfParked ELSE UNCHANGED <<parked, event>>
  /\ ApplyResume
  /\ pc' = "top"
  /\ UNCHANGED <<outside, signal, wifi, idle, seen, left, announced, scan,
                 failures, crashes>>

-----------------------------------------------------------------------------
(* A worker raises, the process dies, and edge/start.sh runs it again.     *)

Crash ==
  /\ Up
  /\ crashes < MaxCrashes
  /\ crashes' = crashes + 1
  /\ pc' = "down"
  /\ scan' = "top"
  /\ parked' = FALSE
  /\ event' = FALSE
  /\ wifi' = FALSE
  /\ sentryActive' = FALSE
  /\ prev' = FALSE
  /\ fast' = FALSE
  /\ quiet' = MotionFresh
  /\ failures' = 0
  /\ left' = 0
  /\ announced' = "no"
  /\ UNCHANGED <<link, charging, signal, idle, seen, sentinel>>

\* Mutant of Boot: no boot_safety_clear.
BootWithoutClear ==
  /\ pc = "down"
  /\ pc' = "top"
  /\ idle' = 0
  /\ UNCHANGED <<outside, signal, runtime, flag, seen, left, announced, scan,
                 failures, crashes>>

\* boot_safety_clear, before the first round.
Boot ==
  /\ pc = "down"
  /\ pc' = "top"
  /\ idle' = 0
  /\ sentinel' = FALSE \/ ("clear" \in FlagErrors /\ UNCHANGED sentinel)
  /\ UNCHANGED <<outside, signal, runtime, prev, seen, left, announced, scan,
                 failures, crashes>>

-----------------------------------------------------------------------------

Outside ==
  Tick \/ LinkChanges \/ ChargingChanges \/ FixChangesSpeed \/ Motion \/ KeySeen

NetworkWatchdog == CheckConnected \/ CheckFailed

ParkedScan == ScanTop \/ ScanWoken \/ ScanTimeout \/ ScanBeacon \/ ScanPower

SentryWorker ==
  \/ Observe \/ FallAsleep \/ Emit \/ Park \/ GraceWake
  \/ StayAsleep \/ StayAwakeOrWake

Next ==
  \/ Outside \/ NetworkWatchdog \/ ProbeWhileAwake \/ ParkedScan \/ SentryWorker
  \/ Crash \/ Boot

Spec == Init /\ [][Next]_vars

(***************************************************************************)
(* Fairness.  Each worker is an endless loop of one asyncio program and    *)
(* none of them blocks the loop for good, so each keeps taking its steps   *)
(* while the process lives, and time goes on.  Nothing is assumed of the   *)
(* link, the charger, the truck's movement or crashes, nor that a process  *)
(* which start.sh runs again gets past run()'s hardware probe to Boot.     *)
(***************************************************************************)
Fairness ==
  /\ WF_vars(Tick)
  /\ WF_vars(NetworkWatchdog)
  /\ WF_vars(ParkedScan)
  /\ WF_vars(SentryWorker)

FairSpec == Spec /\ Fairness

-----------------------------------------------------------------------------
(* Properties.                                                             *)

\* The BLE and upload co-processes are suspended only while the sleep is in
\* force and announcing it is over: the heartbeat is stored, or its insert has
\* failed and the code sleeps all the same.  No other worker that toggles parked
\* mode gets between, and a sentinel left by a crash outlives it only until
\* telematics-edge has booted again.
SuspendedOnlyAsleep ==
  sentinel => pc = "down" \/ (prev /\ sentryActive /\ announced # "no")

\* From some time on, the sentry worker's reads of the charger do not fail.
ChargerRead == <>[][Observe => seen' = charging]_vars

\* A truck in use from some time on gets its co-processes back and keeps them.
\* So does one that is on the charger, when telematics-edge always comes back
\* from a crash and its reads of the charger no longer fail.
ResumesOnActivity ==
  <>[]Active \/ ([]<>Up /\ <>[]charging /\ ChargerRead) => <>[]~sentinel

\* A truck whose link comes back for good does not stay suspended once
\* telematics-edge is back, though only a cached flag tells the sentry worker
\* of the link.
ResumesOnLink == []<>Up /\ <>[]link => <>[]~sentinel

\* An active truck does not stay in parked mode, where nothing is collected:
\* the re-parking of the sentry worker and late wake events included.
ActiveUnparks == <>[]Active => <>[]~parked

-----------------------------------------------------------------------------
(* Why SuspendedOnlyAsleep holds: the inductive invariant of the proof.    *)

\* A sleep being entered is announced, or that has failed, before anything is
\* suspended.
EnteringUnsuspended ==
  /\ pc \in {"emit", "stored", "grace"} => sentryActive /\ ~prev
  /\ pc \in {"stored", "grace"} => announced # "no"

\* Between two rounds the sleep and the controller's shadow agree, ...
ShadowAgrees == pc \in {"top", "decide"} => (sentryActive <=> prev)

\* ... a suspension was announced as far as the code sees to it, and a dead
\* process remembers none.
ShadowAnnounced ==
  /\ prev => sentryActive /\ announced # "no"
  /\ pc = "down" => ~prev /\ ~sentryActive

\* The sentinel never outlives the shadow, but across a crash.
SentinelShadowed == sentinel => prev \/ pc = "down"

SentryInv ==
  EnteringUnsuspended /\ ShadowAgrees /\ ShadowAnnounced /\ SentinelShadowed

=============================================================================
