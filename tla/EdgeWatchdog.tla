---------------------------- MODULE EdgeWatchdog ----------------------------
(***************************************************************************)
(* The cross-service watchdog (wifi-provisioner/edge_watchdog.py): it      *)
(* reads the newest heartbeat of the shared database and asks the Balena   *)
(* Supervisor (shared/balena_supervisor.py) to restart the edge container  *)
(* when that heartbeat is too old.  The edge is modelled by what the       *)
(* watchdog can see of it: whether it writes heartbeats.                   *)
(*                                                                         *)
(* Durations are counted in ticks and saturate; the age of the newest      *)
(* heartbeat is negative while its timestamp lies in the future, which     *)
(* happens when the wall clock is set back.                                *)
(*                                                                         *)
(* The watchdog is a task of the process that WifiProvisioner models; its  *)
(* names are such that both can be extended together.                      *)
(***************************************************************************)
EXTENDS Integers

CONSTANTS
  Stale,      \* WATCHDOG_STALE_SECONDS
  BootGrace,  \* WATCHDOG_BOOT_GRACE_SECONDS
  Cooldown,   \* WATCHDOG_RESTART_COOLDOWN_SECONDS
  BootTime,   \* longest time the edge takes to its first heartbeat
  BeatEvery,  \* HEARTBEAT_INTERVAL_SECONDS
  MaxJumps,   \* bound: times the wall clock is set
  MaxCrashes  \* bound: restarts of the wifi-provisioner

ASSUME WatchdogConstants ==
  /\ Stale \in Nat \ {0}
  /\ BootGrace \in Nat
  /\ Cooldown \in Nat
  /\ BootTime \in Nat
  /\ BeatEvery \in Nat
  /\ MaxJumps \in Nat
  /\ MaxCrashes \in Nat

VARIABLES
  edge,        \* "booting", "running", "parked" or "wedged"
  edgeFor,     \* ticks it has been booting, or since its last heartbeat
  rows,        \* the heartbeats table has a row
  age,         \* age of the newest one, at most Stale
  worker,      \* where watchdog_worker is
  taken,       \* the Supervisor has executed the pending restart
  up,          \* ticks since started_monotonic, at most BootGrace
  since,       \* ticks since last_restart_monotonic, at most Cooldown
  jumps,       \* times the wall clock was set so far
  crashes,     \* restarts of the wifi-provisioner so far
  answered,    \* history: this boot was caused by a restart answered with 2xx
  gap          \* history: ticks since the last such answer

watchdogVars == <<edge, edgeFor, rows, age, worker, taken, up, since, jumps,
                  crashes, answered, gap>>

\* The shorter of two times.
Shorter(a, b) == IF a < b THEN a ELSE b

\* A restart may follow an answered one after this long.
Spacing == Shorter(Cooldown, BootGrace)

WatchdogTypeOK ==
  /\ edge \in {"booting", "running", "parked", "wedged"}
  /\ edgeFor \in 0..(BootTime + BeatEvery)
  /\ rows \in BOOLEAN
  /\ age \in (-MaxJumps * Stale)..Stale
  /\ worker \in {"sleep", "read", "post"}
  /\ taken \in BOOLEAN
  /\ up \in 0..BootGrace
  /\ since \in 0..Cooldown
  /\ jumps \in 0..MaxJumps
  /\ crashes \in 0..MaxCrashes
  /\ answered \in BOOLEAN
  /\ gap \in 0..Spacing

\* The device boots; the database may hold heartbeats of an earlier boot.
WatchdogInit ==
  /\ edge = "booting"
  /\ edgeFor = 0
  /\ rows \in BOOLEAN
  /\ age \in IF rows THEN {0, Stale} ELSE {Stale}
  /\ worker = "sleep"
  /\ taken = FALSE
  /\ up = 0
  /\ since = Cooldown
  /\ jumps = 0
  /\ crashes = 0
  /\ answered = FALSE
  /\ gap = Spacing

-----------------------------------------------------------------------------
(* Time and the edge container.                                            *)

\* An edge that is neither parked nor wedged boots and beats in time.
InTime ==
  /\ edge = "booting" => edgeFor < BootTime
  /\ edge = "running" => edgeFor < BeatEvery

\* Mutant of WatchdogTick: a running edge may miss its heartbeat.
WatchdogTickMissedBeat ==
  /\ edgeFor' = IF edge \in {"booting", "running"} THEN edgeFor + 1 ELSE 0
  /\ age' = Shorter(age + 1, Stale)
  /\ up' = Shorter(up + 1, BootGrace)
  /\ since' = Shorter(since + 1, Cooldown)
  /\ gap' = Shorter(gap + 1, Spacing)
  /\ UNCHANGED <<edge, rows, worker, taken, jumps, crashes, answered>>

WatchdogTick ==
  /\ InTime
  /\ edgeFor' = IF edge \in {"booting", "running"} THEN edgeFor + 1 ELSE 0
  /\ age' = Shorter(age + 1, Stale)
  /\ up' = Shorter(up + 1, BootGrace)
  /\ since' = Shorter(since + 1, Cooldown)
  /\ gap' = Shorter(gap + 1, Spacing)
  /\ UNCHANGED <<edge, rows, worker, taken, jumps, crashes, answered>>

\* NTP corrects the clock of a device without an RTC: every row ages at once,
\* or the newest ones come to lie in the future.
SetClock ==
  /\ jumps < MaxJumps
  /\ jumps' = jumps + 1
  /\ rows
  /\ age' \in {age - Stale, Stale}
  /\ UNCHANGED <<edge, edgeFor, rows, worker, taken, up, since, crashes,
                 answered, gap>>

\* heartbeat_builder_worker stores a row.  The newest row by timestamp is still
\* an older one if that lies in the future.
Beat ==
  /\ edge \in {"booting", "running"}
  /\ edge' = "running"
  /\ edgeFor' = 0
  /\ rows' = TRUE
  /\ age' = IF rows /\ age < 0 THEN age ELSE 0
  /\ UNCHANGED <<worker, taken, up, since, jumps, crashes, answered, gap>>

\* Parked mode: the heartbeat and maintenance workers skip their rounds.
EdgeParks ==
  /\ edge = "running"
  /\ edge' = "parked"
  /\ edgeFor' = 0
  /\ UNCHANGED <<rows, age, worker, taken, up, since, jumps, crashes, answered,
                 gap>>

EdgeUnparks ==
  /\ edge = "parked"
  /\ edge' = "running"
  /\ UNCHANGED <<edgeFor, rows, age, worker, taken, up, since, jumps, crashes,
                 answered, gap>>

EdgeWedges ==
  /\ edge # "wedged"
  /\ edge' = "wedged"
  /\ edgeFor' = 0
  /\ UNCHANGED <<rows, age, worker, taken, up, since, jumps, crashes, answered,
                 gap>>

\* telematics-edge exits and edge/start.sh runs it again.
EdgeRestartsItself ==
  /\ edge \in {"running", "parked"}
  /\ edge' = "booting"
  /\ edgeFor' = 0
  /\ answered' = FALSE
  /\ UNCHANGED <<rows, age, worker, taken, up, since, jumps, crashes, gap>>

-----------------------------------------------------------------------------
(* watchdog_worker                                                         *)

\* Mutant of CheckDue: no boot grace.
CheckDueAtOnce == TRUE

\* The boot grace is over.
CheckDue == up >= BootGrace

StartCheck ==
  /\ worker = "sleep"
  /\ CheckDue
  /\ worker' = "read"
  /\ UNCHANGED <<edge, edgeFor, rows, age, taken, up, since, jumps, crashes,
                 answered, gap>>

\* Mutant of WatchdogShouldRestart: > where the code says >=, on a saturated age.
ShouldRestartBeyond == rows /\ age > Stale

\* newest_heartbeat_age_seconds, clamped at 0, and watchdog_should_restart: no
\* row is no reason.
WatchdogShouldRestart == rows /\ (IF age < 0 THEN 0 ELSE age) >= Stale

\* Mutant of CooledDown: no cooldown.
CooledDownAlways == TRUE

\* The cooldown of the last restart that was confirmed is over.
CooledDown == since >= Cooldown

ReadStale ==
  /\ worker = "read"
  /\ WatchdogShouldRestart
  /\ CooledDown
  /\ worker' = "post"
  /\ taken' = FALSE
  /\ UNCHANGED <<edge, edgeFor, rows, age, up, since, jumps, crashes, answered,
                 gap>>

\* The age is fine, the cooldown runs, or the database could not be read.
ReadNothingToDo ==
  /\ worker = "read"
  /\ worker' = "sleep"
  /\ UNCHANGED <<edge, edgeFor, rows, age, taken, up, since, jumps, crashes,
                 answered, gap>>

\* The Supervisor stops and starts the edge container.
SupervisorRestarts ==
  /\ worker = "post"
  /\ ~taken
  /\ taken' = TRUE
  /\ edge' = "booting"
  /\ edgeFor' = 0
  /\ answered' = FALSE
  /\ UNCHANGED <<rows, age, worker, up, since, jumps, crashes, gap>>

AnswerOk ==
  /\ worker = "post"
  /\ taken
  /\ worker' = "sleep"
  /\ since' = 0
  /\ answered' = TRUE
  /\ gap' = 0
  /\ UNCHANGED <<edge, edgeFor, rows, age, taken, up, jumps, crashes>>

\* Disabled, refused or timed out, be it before or after the restart: no
\* cooldown, the next check asks again.
AnswerError ==
  /\ worker = "post"
  /\ worker' = "sleep"
  /\ UNCHANGED <<edge, edgeFor, rows, age, taken, up, since, jumps, crashes,
                 answered, gap>>

\* The wifi-provisioner is restarted and forgets its last restart.
Crash ==
  /\ crashes < MaxCrashes
  /\ crashes' = crashes + 1
  /\ worker' = "sleep"
  /\ up' = 0
  /\ since' = Cooldown
  /\ UNCHANGED <<edge, edgeFor, rows, age, taken, jumps, answered, gap>>

-----------------------------------------------------------------------------

Edge == Beat \/ EdgeParks \/ EdgeUnparks \/ EdgeWedges \/ EdgeRestartsItself

Watchdog == StartCheck \/ ReadStale \/ ReadNothingToDo \/ AnswerOk \/ AnswerError

WatchdogNext ==
  WatchdogTick \/ SetClock \/ Edge \/ Watchdog \/ SupervisorRestarts \/ Crash

WatchdogSpec == WatchdogInit /\ [][WatchdogNext]_watchdogVars

(***************************************************************************)
(* Fairness.  The worker is an endless loop and time goes on.  Strong      *)
(* fairness of a stale reading says that the database can be read now and  *)
(* then, strong fairness of SupervisorRestarts that a restart asked for    *)
(* again and again is executed some day.                                   *)
(***************************************************************************)
WatchdogFairness ==
  /\ WF_watchdogVars(WatchdogTick)
  /\ WF_watchdogVars(Watchdog)
  /\ SF_watchdogVars(ReadStale)
  /\ SF_watchdogVars(SupervisorRestarts)

WatchdogFairSpec == WatchdogSpec /\ WatchdogFairness

-----------------------------------------------------------------------------
(* Properties.                                                             *)

\* The edge is not restarted again sooner after a confirmed restart than the
\* cooldown or the boot grace allow, even if the provisioner itself restarted
\* in between and forgot the cooldown.
RestartsSpaced == [][SupervisorRestarts => gap >= Spacing]_watchdogVars

\* An edge that comes up in less time than that is not shot down while it boots
\* after a confirmed restart: the old heartbeats do not start a restart loop.
BootingNotRestarted ==
  [][SupervisorRestarts => ~(edge = "booting" /\ answered)]_watchdogVars

\* A wedged edge is restarted, if it ever wrote a heartbeat: whatever the
\* clock did, reads and calls that failed notwithstanding.
WedgedEdgeRestarted == edge = "wedged" /\ rows ~> edge # "wedged"

-----------------------------------------------------------------------------
(* The inductive invariants behind them.                                   *)

\* A heartbeat comes to lie in the future only by a clock set back, Stale at a
\* time, and the edge boots, beats and parks in the time it has for that.
TimesInv ==
  /\ age >= -(jumps * Stale)
  /\ edge = "booting" => edgeFor <= BootTime
  /\ edge = "running" => edgeFor <= BeatEvery
  /\ edge \in {"parked", "wedged"} => edgeFor = 0

\* What the process still knows is no older than the last confirmed restart:
\* either the stamp of that restart, or its own start, which is then later.
SpacingInv ==
  /\ worker \in {"read", "post"} => up >= BootGrace
  /\ gap >= Spacing \/ gap >= since \/ gap >= up
  /\ worker = "post" => gap >= Spacing

\* A boot caused by a confirmed restart began before its confirmation.
BootInv == edge = "booting" /\ answered => gap <= edgeFor

-----------------------------------------------------------------------------
(* What a comment says and the code does not do.                           *)

\* newest_heartbeat_age_seconds' docstring: "a stale value means the edge
\* process is wedged, not merely disconnected".
StaleMeansWedged == [][ReadStale => edge = "wedged"]_watchdogVars

=============================================================================
