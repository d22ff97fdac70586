----------------------------- MODULE BleScanner -----------------------------
(***************************************************************************)
(* The scan loop of ble-sensor (ble-sensor/main.py, run): cadence by       *)
(* battery, suspension by the sentinel, and what it does when BlueZ        *)
(* answers StartDiscovery with InProgress: back off, cool down,            *)
(* power-cycle the adapter, and at last exit, so that edge/start.sh starts *)
(* it again with a fresh D-Bus connection.                                 *)
(*                                                                         *)
(* Time passes while the loop waits, in ticks; the clocks saturate.        *)
(***************************************************************************)
EXTENDS Integers

CONSTANTS
  SentryEnabled,      \* SENTRY_MODE_ENABLED
  SaverEnabled,       \* BLE_BATTERY_SAVER_ENABLED
  ResetEnabled,       \* SCAN_CONTENTION_ADAPTER_RESET_ENABLED
  Post,               \* POLL_INTERVAL
  PostDischarging,    \* BLE_POLL_INTERVAL_DISCHARGING_SECONDS
  PostLow,            \* BLE_POLL_INTERVAL_LOW_BATTERY_SECONDS
  Duration,           \* SCAN_DURATION_SECONDS
  DurationSaving,     \* BLE_SCAN_DURATION_LOW_POWER_SECONDS
  SuspendPoll,        \* SENTRY_SUSPEND_POLL_SECONDS
  BackoffCap,         \* SCAN_CONTENTION_BACKOFF_CAP_SECONDS
  Jitter,             \* the random part of a back-off, at most
  CooldownThreshold,  \* SCAN_CONTENTION_COOLDOWN_THRESHOLD
  MaxAttempts,        \* SCAN_CONTENTION_MAX_ATTEMPTS_BEFORE_RESET
  ResetInterval,      \* SCAN_CONTENTION_ADAPTER_RESET_INTERVAL_SECONDS
  RestartAfter,       \* SCAN_CONTENTION_RESTART_AFTER_SECONDS
  ResetTimeout,       \* ADAPTER_RESET_TIMEOUT_SECONDS
  RestartDelay,       \* what start.sh waits before it starts the process again
  MaxKills            \* bound: times the process is killed

ASSUME ScannerAssumption ==
  /\ {SentryEnabled, SaverEnabled, ResetEnabled} \subseteq BOOLEAN
  /\ {Post, PostDischarging, PostLow, Duration, DurationSaving} \subseteq Nat \ {0}
  /\ {SuspendPoll, BackoffCap, CooldownThreshold, MaxAttempts} \subseteq Nat \ {0}
  /\ {ResetInterval, RestartAfter} \subseteq Nat \ {0}
  /\ {Jitter, ResetTimeout, RestartDelay, MaxKills} \subseteq Nat

\* Exponents of the back-off.
ASSUME PowersAssumption == \A n \in 0..MaxAttempts : 2 ^ n \in Nat \ {0}

\* What the first n attempts of a pass wait, cooldowns included, if each backs
\* off for share; at most and at least.
Pass(n, share) == n * share + (n \div CooldownThreshold) * Post
Spent(n) == Pass(n, BackoffCap + Jitter)
Floor(n) == Pass(n, 1)

\* The longest way from one decision to the next, nothing else intervening.
PassTime == ResetTimeout + Post + Spent(MaxAttempts)

\* Where the clock of an episode saturates.
Horizon == RestartAfter + PassTime

FullCadence == [poll |-> Post, scan |-> Duration]
Cadence == {FullCadence,
            [poll |-> PostDischarging, scan |-> DurationSaving],
            [poll |-> PostLow, scan |-> DurationSaving]}

VARIABLES
  suspended,  \* the sentinel is there
  adapter,    \* "free", "busy" (another scanner's discovery), "wedged" (an
              \* orphaned discovery of this connection) or "off"
  pc,         \* where run() is
  wait,       \* ticks until it goes on
  cadence,    \* poll interval and scan duration of this round
  attempt,    \* scan_retry_attempt
  contended,  \* contention_since_monotonic is not None
  since,      \* time since then
  sinceReset, \* time since last_adapter_reset_monotonic
  uptime,     \* time.monotonic()
  stored,     \* which stores have this round's scan: "observations", "scan"
  kills,
  disturbed,  \* history: the loop slept, or met another error, in this episode
  silent,     \* history: time since a scan succeeded or the process started
  lastCycle   \* history: time since the adapter was power-cycled

radio == <<suspended, adapter>>
clocks == <<since, sinceReset, uptime, silent, lastCycle>>
vars == <<suspended, adapter, pc, wait, cadence, attempt, contended, since,
          sinceReset, uptime, stored, kills, disturbed, silent, lastCycle>>

Smaller(a, b) == IF a < b THEN a ELSE b

-----------------------------------------------------------------------------
(* Around the loop.                                                        *)

\* telematics-edge raises or clears the sentinel.
ToggleSuspend ==
  /\ SentryEnabled
  /\ suspended' = ~suspended
  /\ UNCHANGED <<adapter, pc, wait, cadence, attempt, contended, clocks,
                 stored, kills, disturbed>>

\* Another scanner comes and goes, a discovery is orphaned, the adapter is
\* switched on from outside.
AdapterChanges ==
  /\ \/ adapter = "free" /\ adapter' \in {"busy", "wedged"}
     \/ adapter \in {"busy", "off"} /\ adapter' = "free"
  /\ UNCHANGED <<suspended, pc, wait, cadence, attempt, contended, clocks,
                 stored, kills, disturbed>>

Tick ==
  /\ wait > 0
  /\ wait' = wait - 1
  /\ since' = IF contended THEN Smaller(since + 1, Horizon) ELSE since
  /\ sinceReset' = Smaller(sinceReset + 1, ResetInterval)
  /\ uptime' = Smaller(uptime + 1, ResetInterval)
  /\ silent' = Smaller(silent + 1, RestartAfter)
  /\ lastCycle' = Smaller(lastCycle + 1, ResetInterval)
  /\ UNCHANGED <<radio, pc, cadence, attempt, contended, stored, kills,
                 disturbed>>

At(l) == pc = l /\ wait = 0
Goto(l, t) == pc' = l /\ wait' = t

-----------------------------------------------------------------------------
(* The round that goes well.                                               *)

Asleep == SentryEnabled /\ suspended

\* is_suspended: look again after a short while.
Suspend ==
  /\ At("top")
  /\ Asleep
  /\ Goto("top", SuspendPoll)
  /\ disturbed' = TRUE
  /\ UNCHANGED <<radio, cadence, attempt, contended, clocks, stored, kills>>

\* _effective_scan_cadence
EffectiveScanCadence(power) ==
  IF ~SaverEnabled \/ power \in {"unknown", "charging"}
    THEN FullCadence
  ELSE IF power = "low"
    THEN [poll |-> PostLow, scan |-> DurationSaving]
  ELSE [poll |-> PostDischarging, scan |-> DurationSaving]

\* The power state is read, or is unknown, and discover() is called.
StartScan ==
  /\ At("top")
  /\ ~Asleep
  /\ \E power \in {"unknown", "charging", "discharging", "low"} :
       cadence' = EffectiveScanCadence(power)
  /\ Goto("discover", 0)
  /\ UNCHANGED <<radio, attempt, contended, clocks, stored, kills, disturbed>>

\* StartDiscovery is accepted.
Discovers ==
  /\ At("discover")
  /\ adapter = "free"
  /\ Goto("scan", cadence.scan)
  /\ UNCHANGED <<radio, cadence, attempt, contended, clocks, stored, kills,
                 disturbed>>

\* Mutant of EndEpisode: contention_since_monotonic is not cleared.
EndEpisodeOpen ==
  /\ attempt' = 0
  /\ UNCHANGED <<contended, since, disturbed>>

\* A success ends the contention.
EndEpisode ==
  /\ contended' = FALSE
  /\ since' = 0
  /\ disturbed' = FALSE
  /\ attempt' = 0

\* collect_payload returns, its wake signal, if any, written or lost.
ScanEnds ==
  /\ At("scan")
  /\ EndEpisode
  /\ silent' = 0
  /\ Goto("observe", 0)
  /\ UNCHANGED <<radio, cadence, sinceReset, uptime, stored, kills, lastCycle>>

\* _record_scan_observations, then _enqueue_ble_scan: a commit each.
Persist ==
  /\ pc \in {"observe", "enqueue"} /\ wait = 0
  /\ stored' = stored \cup {IF pc = "observe" THEN "observations" ELSE "scan"}
  /\ Goto(IF pc = "observe" THEN "enqueue" ELSE "resolve", 0)
  /\ UNCHANGED <<radio, cadence, attempt, contended, clocks, kills, disturbed>>

\* The locals of a round that are not used again.
RoundEnds == cadence' = FullCadence /\ stored' = {}

\* The registry is synced and the assets are resolved; then the poll interval.
Resolved ==
  /\ At("resolve")
  /\ Goto("top", cadence.poll)
  /\ RoundEnds
  /\ UNCHANGED <<radio, attempt, contended, clocks, kills, disturbed>>

\* Any error but InProgress, of the scan or of a store, is logged, and the poll
\* interval follows.  Nothing of the contention is touched.
LoopError ==
  /\ \/ At("discover") /\ adapter \in {"free", "off"}
     \/ pc \in {"scan", "observe", "enqueue", "resolve"} /\ wait = 0
  /\ Goto("top", cadence.poll)
  /\ RoundEnds
  /\ disturbed' = TRUE
  /\ UNCHANGED <<radio, attempt, contended, clocks, kills>>

-----------------------------------------------------------------------------
(* Contention.                                                             *)

\* Mutant of Backoff: without the cap.
BackoffUncapped(n) == 2 ^ n

Backoff(n) == Smaller(BackoffCap, 2 ^ n)

\* Mutant of OpenEpisode: every failure is the beginning of one.
OpenEpisodeAgain ==
  /\ contended' = TRUE
  /\ since' = 0
  /\ UNCHANGED disturbed

\* The first failure since the last success begins an episode.
OpenEpisode ==
  /\ contended' = TRUE
  /\ since' = IF contended THEN since ELSE 0
  /\ disturbed' = (contended /\ disturbed)

\* StartDiscovery answers InProgress.
Contention ==
  /\ At("discover")
  /\ adapter \in {"busy", "wedged"}
  /\ OpenEpisode
  /\ attempt' = attempt + 1
  /\ \E jitter \in 0..Jitter : Goto("backoff", Backoff(attempt) + jitter)
  /\ RoundEnds
  /\ UNCHANGED <<radio, sinceReset, uptime, kills, silent, lastCycle>>

\* After the back-off, now and then, an extended cooldown.
Cooldown ==
  /\ At("backoff")
  /\ Goto("decide", IF attempt % CooldownThreshold = 0 THEN Post ELSE 0)
  /\ UNCHANGED <<radio, cadence, attempt, contended, clocks, stored, kills,
                 disturbed>>

Retry ==
  /\ At("decide")
  /\ attempt < MaxAttempts
  /\ Goto("top", 0)
  /\ UNCHANGED <<radio, cadence, attempt, contended, clocks, stored, kills,
                 disturbed>>

\* Too many attempts: one of the three that follow.
Exhausted ==
  /\ At("decide")
  /\ attempt >= MaxAttempts
  /\ attempt' = 0

Unrecovered == since >= RestartAfter

\* SystemExit; BlueZ reaps what the connection has left.
Exit ==
  /\ Exhausted
  /\ Unrecovered
  /\ adapter' = IF adapter = "wedged" THEN "free" ELSE adapter
  /\ Goto("down", RestartDelay)
  /\ UNCHANGED <<suspended, cadence, contended, clocks, stored, kills,
                 disturbed>>

\* Mutant of MarkReset: last_adapter_reset_monotonic is not set.
MarkResetForgotten == UNCHANGED sinceReset

MarkReset == sinceReset' = 0

ResetDue == ResetEnabled /\ sinceReset >= ResetInterval

\* _reset_ble_adapter begins.
PowerCycle ==
  /\ Exhausted
  /\ ~Unrecovered
  /\ ResetDue
  /\ MarkReset
  /\ lastCycle' = 0
  /\ \E t \in 0..ResetTimeout : Goto("reset", t)
  /\ UNCHANGED <<radio, cadence, contended, since, uptime, stored, kills,
                 disturbed, silent>>

\* It ends: the adapter was cycled; BlueZ refused to switch it off; or the time
\* was up, or an error came, between off and on.
PowerCycled ==
  /\ At("reset")
  /\ adapter' \in {"free", adapter, "off"}
  /\ Goto("top", Post)
  /\ UNCHANGED <<suspended, cadence, attempt, contended, clocks, stored, kills,
                 disturbed>>

\* Neither is due: go on after the usual interval.
KeepTrying ==
  /\ Exhausted
  /\ ~Unrecovered
  /\ ~ResetDue
  /\ Goto("top", Post)
  /\ UNCHANGED <<radio, cadence, contended, clocks, stored, kills, disturbed>>

-----------------------------------------------------------------------------
(* The process.                                                            *)

\* The container is restarted, or the process dies some other way.
Killed ==
  /\ pc # "down"
  /\ kills < MaxKills
  /\ kills' = kills + 1
  /\ lastCycle' = ResetInterval
  /\ Goto("down", RestartDelay)
  /\ RoundEnds
  /\ UNCHANGED <<radio, attempt, contended, since, sinceReset, uptime,
                 disturbed, silent>>

\* start.sh starts it again; last_adapter_reset_monotonic is 0.0, the boot.
ProcessStarts ==
  /\ At("down")
  /\ EndEpisode
  /\ sinceReset' = uptime
  /\ silent' = 0
  /\ Goto("top", 0)
  /\ UNCHANGED <<radio, cadence, uptime, stored, kills, lastCycle>>

Init ==
  /\ suspended = FALSE
  /\ adapter \in {"free", "busy", "wedged", "off"}
  /\ pc = "top"
  /\ wait = 0
  /\ cadence = FullCadence
  /\ attempt = 0
  /\ contended = FALSE
  /\ since = 0
  /\ sinceReset = 0
  /\ uptime = 0
  /\ stored = {}
  /\ kills = 0
  /\ disturbed = FALSE
  /\ silent = 0
  /\ lastCycle = ResetInterval

\* What run() does next when it does not wait, a scan's beginning apart.
Step ==
  \/ Suspend \/ Discovers \/ ScanEnds \/ Persist \/ Resolved \/ LoopError
  \/ Contention \/ Cooldown \/ Retry \/ Exit \/ PowerCycle \/ PowerCycled
  \/ KeepTrying \/ ProcessStarts

Next ==
  ToggleSuspend \/ AdapterChanges \/ Tick \/ StartScan \/ Step \/ Killed

Spec == Init /\ [][Next]_vars

\* run() is an endless loop that start.sh starts again; a sentinel that is down
\* now and then when the loop looks is seen to be down now and then.
Fairness == WF_vars(Tick) /\ WF_vars(Step) /\ SF_vars(StartScan)

FairSpec == Spec /\ Fairness

-----------------------------------------------------------------------------
(* Properties.                                                             *)

TypeOK ==
  /\ suspended \in BOOLEAN
  /\ adapter \in {"free", "busy", "wedged", "off"}
  /\ pc \in {"top", "discover", "scan", "observe", "enqueue", "resolve",
             "backoff", "decide", "reset", "down"}
  /\ wait \in Nat
  /\ cadence \in Cadence
  /\ attempt \in 0..MaxAttempts
  /\ contended \in BOOLEAN
  /\ since \in 0..Horizon
  /\ sinceReset \in 0..ResetInterval
  /\ uptime \in 0..ResetInterval
  /\ stored \subseteq {"observations", "scan"}
  /\ kills \in 0..MaxKills
  /\ disturbed \in BOOLEAN
  /\ silent \in 0..RestartAfter
  /\ lastCycle \in 0..ResetInterval

\* What the cloud gets of a scan the resolver has seen, whichever store fails.
QueuedWereObserved == "scan" \in stored => "observations" \in stored

\* The process gives up only after RestartAfter without a single scan, however
\* episodes, sleep, other errors and restarts follow each other.
ExitsJustified == [][Exit => silent >= RestartAfter]_vars

\* The adapter is not power-cycled twice within ResetInterval, also not by the
\* process that follows one that exited.
ResetsSpaced == [][PowerCycle => lastCycle >= ResetInterval]_vars

\* Contention that nothing interrupts, a scan that begins included, is over, or
\* has led to the exit, within one pass of attempts after RestartAfter.
ExitInTime ==
  contended /\ pc \notin {"scan", "down"} /\ since >= RestartAfter + PassTime
    => disturbed

\* A wedged adapter is freed, by a power-cycle or by a fresh connection, if the
\* loop finds the sentinel down again and again.
WedgedIsFreed ==
  []<>(At("top") /\ ~Asleep) => [](adapter = "wedged" => <>(adapter # "wedged"))

-----------------------------------------------------------------------------
(* Why they hold: the inductive invariants of the proofs.                  *)

\* An episode is not older than the last success, as far as silent can tell.
EpisodeInv ==
  /\ since \in Int
  /\ silent \in Nat
  /\ since <= silent \/ silent = RestartAfter

\* Where in a round the observations have been stored.
RoundInv ==
  /\ pc \in {"enqueue", "resolve"} => "observations" \in stored
  /\ QueuedWereObserved

\* Attempts are counted up to the decision, in an episode only.
AttemptInv ==
  /\ ~contended => attempt = 0
  /\ pc \notin {"backoff", "decide", "down"} => attempt < MaxAttempts
  /\ pc \in {"backoff", "decide"} => attempt > 0 /\ contended
  /\ pc = "reset" => attempt = 0
  /\ pc \in {"observe", "enqueue", "resolve"} => ~contended

\* What is left of the time to the exit, at each place of run(): a pass starts
\* before RestartAfter, and each attempt uses its share of PassTime.
Begun == RestartAfter - 1 + ResetTimeout

TimelyInv ==
  contended /\ ~disturbed =>
    /\ pc = "reset" => since + wait <= Begun
    /\ pc \in {"top", "discover", "decide"} =>
         since + wait <= Begun + Post + Spent(attempt)
    /\ pc = "backoff" =>
         since + wait <= Begun + Post + Spent(attempt - 1) + BackoffCap + Jitter

\* Where the clock of the last power-cycle stands: past the interval; or it is
\* the one the process goes by, and the attempts since took their time; or a
\* process has exited since, after a whole pass, and so will its successor.
Waited == IF pc = "backoff" THEN Floor(attempt - 1) + 1 ELSE Floor(attempt)

CycleInv ==
  \/ lastCycle >= ResetInterval
  \/ pc # "down" /\ sinceReset <= lastCycle /\ lastCycle + wait >= Waited
  \/ lastCycle + wait >= Floor(MaxAttempts) + RestartDelay + Waited

=============================================================================
