-------------------------- MODULE SentryModeProofs --------------------------
(***************************************************************************)
(* Proofs that SentryMode keeps its types and, as long as the sentinel can *)
(* always be removed, suspends the co-processes only during a sleep that   *)
(* it has announced or failed to announce; and that a truck which is in    *)
(* use, seen to charge or online is neither suspended nor parked while it  *)
(* stays so.  For every value of the timeouts and any number of crashes.   *)
(***************************************************************************)
EXTENDS SentryMode, TLAPS

LEMMA TypeInit == Init => TypeOK
<1> SUFFICES ASSUME Init
             PROVE  TypeOK
  OBVIOUS
<1>1. /\ quiet \in 0..MotionFresh
      /\ idle \in 0..IdleTimeout
      /\ left \in 0..Grace
      /\ failures \in 0..MaxFailures
      /\ crashes \in 0..MaxCrashes
  BY SentryConstants DEF Init
<1>2. /\ {link, charging, fast, signal} \subseteq BOOLEAN
      /\ {parked, event, wifi, sentryActive} \subseteq BOOLEAN
      /\ {prev, sentinel, seen} \subseteq BOOLEAN
      /\ announced = "no"
  BY Zenon DEF Init
<1> QED
  BY <1>1, <1>2 DEF Init, TypeOK

LEMMA UnparkTypes ==
  ASSUME TypeOK, UnparkIfParked
  PROVE  {parked', event'} \subseteq BOOLEAN
  BY Zenon DEF TypeOK, UnparkIfParked, Unpark

LEMMA OutsideKeepsTypes ==
  ASSUME TypeOK, Outside
  PROVE  TypeOK'
<1> USE SentryConstants DEF TypeOK, outside, runtime, sentry, flag
<1>1. CASE Tick
  BY <1>1 DEF Tick
<1>2. CASE LinkChanges
  BY <1>2 DEF LinkChanges
<1>3. CASE ChargingChanges
  BY <1>3 DEF ChargingChanges
<1>4. CASE FixChangesSpeed
  BY <1>4 DEF FixChangesSpeed
<1>5. CASE Motion
  BY <1>5, UnparkTypes DEF Motion
<1>6. CASE KeySeen
  BY <1>6 DEF KeySeen
<1> QED
  BY <1>1, <1>2, <1>3, <1>4, <1>5, <1>6 DEF Outside

LEMMA NetworkKeepsTypes ==
  ASSUME TypeOK, NetworkWatchdog \/ ProbeWhileAwake
  PROVE  TypeOK'
<1> USE SentryConstants DEF TypeOK, outside, sentry, flag
<1>1. CASE CheckConnected
  BY <1>1, UnparkTypes DEF CheckConnected
<1>2. CASE CheckFailed
  <2>1. {parked', wifi'} \subseteq BOOLEAN
    BY <1>2, Zenon DEF CheckFailed
  <2> QED BY <1>2, <2>1 DEF CheckFailed
<1>3. CASE ProbeWhileAwake
  BY <1>3 DEF ProbeWhileAwake
<1> QED
  BY <1>1, <1>2, <1>3 DEF NetworkWatchdog

LEMMA ParkedScanKeepsTypes ==
  ASSUME TypeOK, ParkedScan
  PROVE  TypeOK'
<1> USE SentryConstants DEF TypeOK, outside, sentry, flag, Unpark
<1>1. CASE ScanTop
  BY <1>1 DEF ScanTop
<1>2. CASE ScanWoken
  BY <1>2 DEF ScanWoken
<1>3. CASE ScanTimeout
  BY <1>3 DEF ScanTimeout
<1>4. CASE ScanBeacon
  BY <1>4 DEF ScanBeacon
<1>5. CASE ScanPower
  <2>1. {parked', event', wifi'} \subseteq BOOLEAN
    BY <1>5, Zenon DEF ScanPower
  <2> QED BY <1>5, <2>1 DEF ScanPower
<1> QED
  BY <1>1, <1>2, <1>3, <1>4, <1>5 DEF ParkedScan

LEMMA GraceTurnTypes ==
  ASSUME TypeOK, NEW remaining, NEW mode \in BOOLEAN, GraceTurn(remaining, mode)
  PROVE  /\ {parked', event', sentryActive', prev', sentinel'} \subseteq BOOLEAN
         /\ pc' \in {"top", "grace"}
         /\ left' \in {left, 0, remaining}
<1>1. {prev', sentinel'} \subseteq BOOLEAN
  <2>1. CASE UNCHANGED flag
    BY <2>1 DEF flag, TypeOK
  <2>2. CASE prev' = TRUE /\ (sentinel' = TRUE \/ UNCHANGED sentinel)
    BY <2>2, Zenon DEF TypeOK
  <2> QED BY <2>1, <2>2 DEF GraceTurn, ApplySuspend
<1>2. {parked', event', sentryActive'} \subseteq BOOLEAN
  BY Zenon DEF GraceTurn, TypeOK, Unpark
<1>3. pc' \in {"top", "grace"} /\ left' \in {left, 0, remaining}
  BY DEF GraceTurn
<1> QED BY <1>1, <1>2, <1>3

LEMMA SentryWorkerKeepsTypes ==
  ASSUME TypeOK, SentryWorker
  PROVE  TypeOK'
<1> USE SentryConstants DEF TypeOK, outside, runtime, flag
<1>1. CASE Observe
  <2>1. seen' \in BOOLEAN
    BY <1>1, Zenon DEF Observe, ChargingRead
  <2> QED BY <1>1, <2>1 DEF Observe
<1>2. CASE FallAsleep
  BY <1>2 DEF FallAsleep
<1>3. CASE Emit
  BY <1>3 DEF Emit
<1>4. CASE Park
  <2>1. /\ {parked', event', sentryActive', prev', sentinel'} \subseteq BOOLEAN
        /\ pc' \in {"top", "grace"}
        /\ left' \in {left, 0, Grace}
    <3>1. GraceTurn(Grace, TRUE)
      BY <1>4 DEF Park
    <3> QED BY <3>1, GraceTurnTypes, Zenon
  <2> QED BY <1>4, <2>1 DEF Park
<1>5. CASE GraceWake
  BY <1>5, GraceTurnTypes DEF GraceWake
<1>6. CASE StayAsleep
  BY <1>6 DEF StayAsleep, ApplySuspend
<1>7. CASE StayAwakeOrWake
  BY <1>7 DEF StayAwakeOrWake, ApplyResume, UnparkIfParked, Unpark
<1> QED
  BY <1>1, <1>2, <1>3, <1>4, <1>5, <1>6, <1>7 DEF SentryWorker

LEMMA TypeInductive == TypeOK /\ [Next]_vars => TypeOK'
<1> SUFFICES ASSUME TypeOK, [Next]_vars
             PROVE  TypeOK'
  OBVIOUS
<1>1. CASE Outside
  BY <1>1, OutsideKeepsTypes
<1>2. CASE NetworkWatchdog \/ ProbeWhileAwake
  BY <1>2, NetworkKeepsTypes
<1>3. CASE ParkedScan
  BY <1>3, ParkedScanKeepsTypes
<1>4. CASE SentryWorker
  BY <1>4, SentryWorkerKeepsTypes
<1>5. CASE Crash
  <2>1. /\ {parked', event', wifi', sentryActive'} \subseteq BOOLEAN
        /\ {prev', fast'} \subseteq BOOLEAN /\ announced' = "no"
    BY <1>5, Zenon DEF Crash
  <2>2. /\ quiet' \in 0..MotionFresh /\ left' \in 0..Grace
        /\ failures' \in 0..MaxFailures /\ crashes' \in 0..MaxCrashes
    BY <1>5, SentryConstants DEF Crash, TypeOK
  <2> QED BY <1>5, <2>1, <2>2 DEF Crash, TypeOK
<1>6. CASE Boot
  <2>1. sentinel' \in BOOLEAN
    BY <1>6, Zenon DEF Boot, TypeOK
  <2> QED BY <1>6, <2>1, SentryConstants DEF Boot, TypeOK, outside, runtime
<1>7. CASE UNCHANGED vars
  BY <1>7 DEF vars, TypeOK
<1> QED
  BY <1>1, <1>2, <1>3, <1>4, <1>5, <1>6, <1>7 DEF Next

\* Types: no timer runs past what the code compares it with, and the failure
\* count of network_watchdog_worker stays within its limit.
THEOREM TypeCorrect == Spec => []TypeOK
  BY TypeInit, TypeInductive, PTL DEF Spec

-----------------------------------------------------------------------------
(* When the co-processes are suspended.                                    *)

\* Removing a file that exists from /run does not fail.
ClearWorks == "clear" \notin FlagErrors

LEMMA SentryInit == Init => SentryInv
  BY DEF Init, SentryInv, EnteringUnsuspended, ShadowAgrees, ShadowAnnounced,
         SentinelShadowed

\* Nothing but the sentry worker, a crash and a boot touches the state the
\* invariant speaks of.
OthersKeep == UNCHANGED <<pc, sentryActive, announced, prev, sentinel>>

LEMMA OthersLeaveSleepAlone ==
  ASSUME Outside \/ NetworkWatchdog \/ ProbeWhileAwake \/ ParkedScan
  PROVE  OthersKeep
<1>1. CASE Outside
  BY <1>1 DEF Outside, Tick, LinkChanges, ChargingChanges, FixChangesSpeed,
     Motion, KeySeen, OthersKeep, outside, runtime, sentry, flag
<1>2. CASE NetworkWatchdog
  BY <1>2 DEF NetworkWatchdog, CheckConnected, CheckFailed, OthersKeep,
     outside, sentry, flag
<1>3. CASE ProbeWhileAwake
  BY <1>3 DEF ProbeWhileAwake, OthersKeep, outside, sentry, flag
<1>4. CASE ParkedScan
  BY <1>4 DEF ParkedScan, ScanTop, ScanWoken, ScanTimeout, ScanBeacon,
     ScanPower, OthersKeep, outside, sentry, flag
<1> QED BY <1>1, <1>2, <1>3, <1>4

\* The sentry worker's own steps.
LEMMA SentryWorkerKeepsInv ==
  ASSUME ClearWorks, SentryInv, SentryWorker
  PROVE  SentryInv'
<1> USE DEF SentryInv, EnteringUnsuspended, ShadowAgrees, ShadowAnnounced,
            SentinelShadowed
<1>1. CASE Observe
  BY <1>1 DEF Observe, runtime, flag
<1>2. CASE FallAsleep
  BY <1>2 DEF FallAsleep, flag
<1>3. CASE Emit
  BY <1>3 DEF Emit, runtime, flag
<1>4. CASE Park
  <2>1. CASE Grace = 0
    BY <1>4, <2>1 DEF Park, GraceTurn, ApplySuspend, flag
  <2>2. CASE Grace # 0 /\ Active
    BY <1>4, <2>2 DEF Park, GraceTurn, flag
  <2>3. CASE Grace # 0 /\ ~Active
    BY <1>4, <2>3 DEF Park, GraceTurn, flag
  <2> QED BY <2>1, <2>2, <2>3
<1>5. CASE GraceWake
  <2>1. CASE left = 0
    BY <1>5, <2>1 DEF GraceWake, GraceTurn, ApplySuspend, flag
  <2>2. CASE left # 0 /\ Active
    BY <1>5, <2>2 DEF GraceWake, GraceTurn, flag
  <2>3. CASE left # 0 /\ ~Active
    BY <1>5, <2>3 DEF GraceWake, GraceTurn, flag
  <2> QED BY <2>1, <2>2, <2>3
<1>6. CASE StayAsleep
  BY <1>6 DEF StayAsleep, ApplySuspend, runtime, flag
<1>7. CASE StayAwakeOrWake
  BY <1>7 DEF StayAwakeOrWake, ApplyResume, ClearWorks, flag
<1> QED
  BY <1>1, <1>2, <1>3, <1>4, <1>5, <1>6, <1>7 DEF SentryWorker

LEMMA SentryInductive ==
  ASSUME ClearWorks, SentryInv, [Next]_vars
  PROVE  SentryInv'
<1> USE DEF SentryInv, EnteringUnsuspended, ShadowAgrees, ShadowAnnounced,
            SentinelShadowed
<1>1. CASE Outside \/ NetworkWatchdog \/ ProbeWhileAwake \/ ParkedScan
  <2>1. OthersKeep
    BY <1>1, OthersLeaveSleepAlone
  <2> QED BY <2>1 DEF OthersKeep
<1>2. CASE SentryWorker
  BY <1>2, SentryWorkerKeepsInv
<1>3. CASE Crash
  BY <1>3 DEF Crash
<1>4. CASE Boot
  BY <1>4 DEF Boot, ClearWorks, runtime
<1>5. CASE UNCHANGED vars
  BY <1>5 DEF vars
<1> QED
  BY <1>1, <1>2, <1>3, <1>4, <1>5 DEF Next

\* The co-processes are suspended only during a sleep whose announcement is in
\* the database or whose insert has failed, or while telematics-edge is between
\* two lives.
THEOREM SuspensionIsAnnounced ==
  ASSUME ClearWorks
  PROVE  Spec => []SuspendedOnlyAsleep
<1>1. Init => SentryInv
  BY SentryInit
<1>2. SentryInv /\ [Next]_vars => SentryInv'
  BY SentryInductive
<1>3. SentryInv => SuspendedOnlyAsleep
  BY DEF SentryInv, ShadowAnnounced, SentinelShadowed, SuspendedOnlyAsleep
<1> QED
  BY <1>1, <1>2, <1>3, PTL DEF Spec

-----------------------------------------------------------------------------
(* What wakes the truck keeps it awake.  These are the safety halves of    *)
(* ResumesOnActivity, ResumesOnLink and ActiveUnparks: once there, with    *)
(* the reason lasting, for good.  None needs ClearWorks.                   *)

\* No sleep is in force or being entered.
Awake == ~sentinel /\ ~prev /\ pc \in {"top", "decide", "down"}

\* Awake, with a charger that the round under way has seen, ...
ChargerSeen == Awake /\ (pc = "decide" => seen)

\* ... with a link the cached flag knows of, ...
LinkSeen == Awake /\ wifi

\* ... and not parked, nor about to be by a sleep being announced.
Unparked == ~parked /\ pc \notin {"emit", "stored"}

\* Of the steps, only a sleep that begins ends Awake.
LEMMA AwakeStep ==
  ASSUME Awake, [Next]_vars, ~FallAsleep, ~StayAsleep
  PROVE  Awake'
<1> USE DEF Awake
<1>1. CASE Outside \/ NetworkWatchdog \/ ProbeWhileAwake \/ ParkedScan
  <2>1. OthersKeep
    BY <1>1, OthersLeaveSleepAlone
  <2> QED BY <2>1 DEF OthersKeep
<1>2. CASE SentryWorker
  <2>1. CASE Observe
    BY <2>1 DEF Observe, flag
  <2>2. CASE StayAwakeOrWake
    BY <2>2 DEF StayAwakeOrWake, ApplyResume, flag
  <2>3. Observe \/ StayAwakeOrWake
    BY <1>2 DEF SentryWorker, Emit, Park, GraceWake
  <2> QED BY <2>1, <2>2, <2>3
<1>3. CASE Crash
  BY <1>3 DEF Crash
<1>4. CASE Boot
  BY <1>4 DEF Boot
<1>5. CASE UNCHANGED vars
  BY <1>5 DEF vars
<1> QED BY <1>1, <1>2, <1>3, <1>4, <1>5 DEF Next

\* What a round has read of the charger stays read until the next one.
LEMMA ChargerStep ==
  ASSUME ChargerSeen, charging, [Next]_vars, Observe => seen' = charging
  PROVE  ChargerSeen'
<1>1. ~FallAsleep /\ ~StayAsleep
  BY DEF ChargerSeen, FallAsleep, StayAsleep, ShouldSuspend
<1>2. Awake'
  BY <1>1, AwakeStep DEF ChargerSeen
<1>3. pc' = "decide" => seen'
  <2>1. CASE Observe
    BY <2>1 DEF Observe
  <2>2. CASE StayAwakeOrWake \/ Crash \/ Boot
    BY <2>2 DEF StayAwakeOrWake, Crash, Boot
  <2>3. ASSUME UNCHANGED <<pc, seen>> PROVE pc' = "decide" => seen'
    BY <2>3 DEF ChargerSeen
  <2>4. CASE UNCHANGED vars
    BY <2>3, <2>4 DEF vars
  <2>5. CASE Outside \/ NetworkWatchdog \/ ProbeWhileAwake \/ ParkedScan
    BY <2>3, <2>5 DEF Outside, Tick, LinkChanges, ChargingChanges,
       FixChangesSpeed, Motion, KeySeen, NetworkWatchdog, CheckConnected,
       CheckFailed, ProbeWhileAwake, ParkedScan, ScanTop, ScanWoken,
       ScanTimeout, ScanBeacon, ScanPower, sentry
  <2>6. CASE SentryWorker
    BY <1>1, <2>1, <2>2, <2>6
    DEF SentryWorker, Emit, Park, GraceWake, ChargerSeen, Awake
  <2> QED BY <2>1, <2>2, <2>4, <2>5, <2>6 DEF Next
<1> QED BY <1>2, <1>3 DEF ChargerSeen

\* With the link up, no probe clears the flag; only a restart does.
LEMMA LinkStep ==
  ASSUME TypeOK, LinkSeen, link, link', crashes' = crashes, [Next]_vars
  PROVE  LinkSeen'
<1>1. ~FallAsleep /\ ~StayAsleep
  BY DEF LinkSeen, FallAsleep, StayAsleep, ShouldSuspend
<1>2. Awake'
  BY <1>1, AwakeStep DEF LinkSeen
<1>3. ~Crash
  BY DEF Crash, TypeOK
<1>4. wifi'
  <2> USE DEF LinkSeen
  <2>1. CASE Outside
    BY <2>1 DEF Outside, Tick, LinkChanges, ChargingChanges, FixChangesSpeed,
       Motion, KeySeen, runtime
  <2>2. CASE NetworkWatchdog \/ ProbeWhileAwake
    BY <2>2, Zenon DEF NetworkWatchdog, CheckConnected, CheckFailed, ProbeWhileAwake
  <2>3. CASE ParkedScan
    BY <2>3, Zenon DEF ParkedScan, ScanTop, ScanWoken, ScanTimeout, ScanBeacon,
       ScanPower
  <2>4. CASE SentryWorker
    BY <1>1, <2>4 DEF SentryWorker, Observe, Emit, Park, GraceWake,
       StayAwakeOrWake, runtime
  <2>5. CASE Boot \/ UNCHANGED vars
    BY <2>5 DEF Boot, runtime, vars
  <2> QED BY <1>3, <2>1, <2>2, <2>3, <2>4, <2>5 DEF Next
<1> QED BY <1>2, <1>4 DEF LinkSeen

\* The network watchdog parks no truck in use, and no sleep is announced.
LEMMA UnparkedStep ==
  ASSUME Unparked, Active, [Next]_vars
  PROVE  Unparked'
<1> USE DEF Unparked
<1>1. CASE Outside
  BY <1>1 DEF Outside, Tick, LinkChanges, ChargingChanges, FixChangesSpeed,
     Motion, UnparkIfParked, KeySeen, runtime, sentry
<1>2. CASE NetworkWatchdog \/ ProbeWhileAwake
  BY <1>2 DEF NetworkWatchdog, CheckConnected, CheckFailed, ProbeWhileAwake,
     UnparkIfParked, sentry
<1>3. CASE ParkedScan
  BY <1>3 DEF ParkedScan, ScanTop, ScanWoken, ScanTimeout, ScanBeacon,
     ScanPower, Unpark, sentry
<1>4. CASE SentryWorker
  <2>1. CASE GraceWake
    <3>1. CASE left = 0
      BY <2>1, <3>1 DEF GraceWake, GraceTurn
    <3>2. CASE left # 0
      BY <2>1, <3>2 DEF GraceWake, GraceTurn, Unpark
    <3> QED BY <3>1, <3>2
  <2>2. CASE StayAwakeOrWake
    BY <2>2 DEF StayAwakeOrWake, UnparkIfParked
  <2>3. CASE Observe \/ StayAsleep
    BY <2>3 DEF Observe, StayAsleep, runtime
  <2> QED BY <1>4, <2>1, <2>2, <2>3
      DEF SentryWorker, FallAsleep, ShouldSuspend, Emit, Park
<1>5. CASE Crash \/ Boot \/ UNCHANGED vars
  BY <1>5 DEF Crash, Boot, runtime, vars
<1> QED BY <1>1, <1>2, <1>3, <1>4, <1>5 DEF Next

\* A truck that is awake and in use is not suspended as long as it stays in
\* use: no cached flag, timer or late wake event of another worker does it.
THEOREM ActiveStaysAwake == Spec => [](Awake /\ []Active => []~sentinel)
<1>1. Awake /\ Active /\ [Next]_vars => Awake'
  BY AwakeStep DEF FallAsleep, StayAsleep, ShouldSuspend
<1>2. Awake => ~sentinel
  BY DEF Awake
<1> QED BY <1>1, <1>2, PTL DEF Spec

\* The same of a truck on the charger, restarts of telematics-edge included, as
\* long as no read of the charger's state fails: a failed one passes for a truck
\* that does not charge, and may suspend it.
THEOREM ChargingStaysAwake ==
  Spec => [](ChargerSeen /\ []charging /\ [][Observe => seen' = charging]_vars
               => []~sentinel)
<1>1. ChargerSeen /\ charging /\ [Next]_vars /\ [Observe => seen' = charging]_vars
        => ChargerSeen'
  <2>1. UNCHANGED vars /\ ChargerSeen => ChargerSeen'
    BY DEF vars, ChargerSeen, Awake
  <2> QED BY <2>1, ChargerStep
<1>2. ChargerSeen => ~sentinel
  BY DEF ChargerSeen, Awake
<1> QED BY <1>1, <1>2, PTL DEF Spec

\* The same of a truck whose link is up and known to be: no probe of the five
\* workers loses sight of it.  A restart of telematics-edge does, since
\* the flag starts FALSE.
THEOREM OnlineStaysAwake ==
  Spec => [](LinkSeen /\ []link /\ [][crashes' = crashes]_vars => []~sentinel)
<1>1. TypeOK /\ LinkSeen /\ link /\ link' /\ [Next]_vars /\ [crashes' = crashes]_vars
        => LinkSeen'
  BY LinkStep DEF vars
<1>2. LinkSeen => ~sentinel
  BY DEF LinkSeen, Awake
<1> QED BY <1>1, <1>2, TypeCorrect, PTL DEF Spec

\* A truck in use that is collecting goes on collecting: it is not parked again
\* while it stays in use.
THEOREM ActiveStaysUnparked == Spec => [](Unparked /\ []Active => []~parked)
<1>1. Unparked /\ Active /\ [Next]_vars => Unparked'
  BY UnparkedStep
<1>2. Unparked => ~parked
  BY DEF Unparked
<1> QED BY <1>1, <1>2, PTL DEF Spec

=============================================================================
