------------------------ MODULE WifiProvisionerProofs ------------------------
(***************************************************************************)
(* Proofs that WifiProvisioner keeps its types, that its hotspot flag is   *)
(* never set without a hotspot, that the hotspot is raised only after the  *)
(* whole grace period and that a truck that got online stays so while      *)
(* nothing outside changes, for any networks and any grace period; and     *)
(* for EdgeWatchdog, the other task of that process, its types and the     *)
(* bounds on its restarts, for any durations.                              *)
(***************************************************************************)
EXTENDS WifiProvisioner, EdgeWatchdog, TLAPS

LEMMA TypeInit == Init => TypeOK
<1> SUFFICES ASSUME Init
             PROVE  TypeOK
  OBVIOUS
<1>1. offline \in 0..Grace
  BY ProvisionerConstants DEF Init
<1>2. saved \subseteq Net /\ air \in [Net -> {"away", "dead", "good"}]
  BY DEF Init
<1>3. {lan, hotspot, event} \subseteq BOOLEAN
  BY Zenon DEF Init
<1> QED
  BY <1>1, <1>2, <1>3 DEF Init, TypeOK

LEMMA OutsideKeepsTypes ==
  ASSUME TypeOK, Tick \/ AirChanges \/ CableChanges \/ Autoconnect \/ Portal
  PROVE  TypeOK'
<1> USE ProvisionerConstants DEF TypeOK
<1>1. CASE Tick
  BY <1>1 DEF Tick
<1>2. CASE AirChanges
  BY <1>2 DEF AirChanges
<1>3. CASE CableChanges
  BY <1>3 DEF CableChanges
<1>4. CASE Autoconnect
  BY <1>4 DEF Autoconnect, Visible
<1>5. CASE Portal
  BY <1>5 DEF Portal, AddBegins, AddEnds, AddFails, DeleteNetwork, Forget
<1> QED BY <1>1, <1>2, <1>3, <1>4, <1>5

LEMMA SupervisorKeepsTypes ==
  ASSUME TypeOK, Supervisor
  PROVE  TypeOK'
<1> USE ProvisionerConstants DEF TypeOK, BeginHotspot
<1>1. CASE CheckOnline
  BY <1>1 DEF CheckOnline
<1>2. CASE CheckOffline
  BY <1>2 DEF CheckOffline
<1>3. CASE IdleOver
  BY <1>3 DEF IdleOver
<1>4. CASE NoProfiles \/ HasProfiles
  BY <1>4 DEF NoProfiles, HasProfiles
<1>5. CASE ReconnectOk
  BY <1>5 DEF ReconnectOk, BringsUp, Visible
<1>6. CASE ReconnectFails
  BY <1>6 DEF ReconnectFails, BringsUpNone
<1>7. CASE Settled
  BY <1>7 DEF Settled
<1>8. CASE SettleGivesUp
  BY <1>8 DEF SettleGivesUp
<1>9. CASE StartOk \/ StartFails
  BY <1>9 DEF StartOk, StartFails
<1>10. CASE RaisedOver \/ StopToRetry \/ StopOnline
  BY <1>10 DEF RaisedOver, StopToRetry, StopOnline, Stopped
<1>11. CASE RejoinTried
  BY <1>11 DEF RejoinTried, BringsUp, BringsUpNone, Visible
<1>12. CASE Rejoined
  BY <1>12 DEF Rejoined
<1>13. CASE ProbeGivesUp
  BY <1>13 DEF ProbeGivesUp
<1> QED
  BY <1>1, <1>2, <1>3, <1>4, <1>5, <1>6, <1>7, <1>8, <1>9, <1>10, <1>11,
     <1>12, <1>13
  DEF Supervisor

LEMMA TypeInductive == TypeOK /\ [Next]_vars => TypeOK'
<1> SUFFICES ASSUME TypeOK, [Next]_vars
             PROVE  TypeOK'
  OBVIOUS
<1>1. CASE Tick \/ AirChanges \/ CableChanges \/ Autoconnect \/ Portal
  BY <1>1, OutsideKeepsTypes
<1>2. CASE Supervisor
  BY <1>2, SupervisorKeepsTypes
<1>3. CASE UNCHANGED vars
  BY <1>3 DEF vars, TypeOK
<1> QED BY <1>1, <1>2, <1>3 DEF Next

\* Types: the radio is idle, an access point or a client of one network, and
\* only networks with a name are saved.
THEOREM TypeCorrect == Spec => []TypeOK
  BY TypeInit, TypeInductive, PTL DEF Spec

-----------------------------------------------------------------------------
(* The flag and the grace period.                                          *)

HotspotInv == FlagInv /\ GraceInv

\* Neither the truck, its networks nor the portal touches an access point, or
\* anything else the invariant is about but a clock that has run out.
LEMMA OutsideKeepsHotspotInv ==
  ASSUME TypeOK, HotspotInv,
         Tick \/ AirChanges \/ CableChanges \/ Autoconnect \/ Portal
  PROVE  HotspotInv'
<1> USE ProvisionerConstants DEF HotspotInv, FlagInv, GraceInv, TypeOK
<1>1. CASE Tick
  BY <1>1 DEF Tick
<1>2. CASE AirChanges
  BY <1>2 DEF AirChanges
<1>3. CASE CableChanges
  BY <1>3 DEF CableChanges
<1>4. CASE Autoconnect
  BY <1>4 DEF Autoconnect
<1>5. CASE Portal
  BY <1>5 DEF Portal, AddBegins, AddEnds, AddFails, DeleteNetwork, Forget
<1> QED BY <1>1, <1>2, <1>3, <1>4, <1>5

LEMMA SupervisorKeepsHotspotInv ==
  ASSUME TypeOK, HotspotInv, Supervisor
  PROVE  HotspotInv'
<1> USE ProvisionerConstants DEF HotspotInv, FlagInv, GraceInv, TypeOK
<1>1. CASE CheckOnline \/ CheckOffline \/ IdleOver
  BY <1>1 DEF CheckOnline, CheckOffline, IdleOver, OverGrace
<1>2. CASE NoProfiles \/ HasProfiles
  BY <1>2 DEF NoProfiles, HasProfiles, BeginHotspot
<1>3. CASE ReconnectOk \/ ReconnectFails
  BY <1>3 DEF ReconnectOk, ReconnectFails, BeginHotspot
<1>4. CASE Settled \/ SettleGivesUp
  BY <1>4 DEF Settled, SettleGivesUp, BeginHotspot
<1>5. CASE StartOk \/ StartFails
  BY <1>5 DEF StartOk, StartFails
<1>6. CASE RaisedOver \/ StopToRetry \/ StopOnline
  BY <1>6 DEF RaisedOver, StopToRetry, StopOnline, Stopped
<1>7. CASE RejoinTried \/ Rejoined \/ ProbeGivesUp
  BY <1>7 DEF RejoinTried, Rejoined, ProbeGivesUp, BeginHotspot
<1> QED
  BY <1>1, <1>2, <1>3, <1>4, <1>5, <1>6, <1>7 DEF Supervisor

LEMMA HotspotInductive == TypeOK /\ HotspotInv /\ [Next]_vars => HotspotInv'
<1> SUFFICES ASSUME TypeOK, HotspotInv, [Next]_vars
             PROVE  HotspotInv'
  OBVIOUS
<1>1. CASE Tick \/ AirChanges \/ CableChanges \/ Autoconnect \/ Portal
  BY <1>1, OutsideKeepsHotspotInv
<1>2. CASE Supervisor
  BY <1>2, SupervisorKeepsHotspotInv
<1>3. CASE UNCHANGED vars
  BY <1>3 DEF vars, HotspotInv, FlagInv, GraceInv
<1> QED BY <1>1, <1>2, <1>3 DEF Next

LEMMA HotspotInvariant == Spec => [](TypeOK /\ HotspotInv)
<1>1. Init => HotspotInv
  BY DEF Init, HotspotInv, FlagInv, GraceInv
<1> QED
  BY <1>1, TypeInit, TypeInductive, HotspotInductive, PTL DEF Spec

\* What /healthz calls an active hotspot is one, whichever nmcli call failed or
\* timed out, and whatever the portal does meanwhile.
THEOREM FlagIsTrue == Spec => []HotspotFlagTrue
<1>1. HotspotInv => HotspotFlagTrue
  BY DEF HotspotInv, FlagInv, HotspotFlagTrue
<1> QED
  BY <1>1, HotspotInvariant, PTL

\* The radio becomes an access point only after the whole grace period without
\* connectivity, and only by the supervisor's hand.
THEOREM GraceIsRespected == Spec => GraceRespected
<1>1. ASSUME TypeOK, HotspotInv, [Next]_vars, radio # AP, radio' = AP
      PROVE  offline = Grace
  <2> USE <1>1, ProvisionerConstants DEF HotspotInv, GraceInv
  <2>1. CASE StartOk \/ StartFails
    BY <2>1 DEF StartOk, StartFails
  <2>2. CASE AirChanges \/ Autoconnect
    BY <2>2 DEF AirChanges, Autoconnect, TypeOK
  <2>3. CASE ReconnectOk \/ ReconnectFails \/ RejoinTried
    BY <2>3 DEF ReconnectOk, ReconnectFails, RejoinTried
  <2>4. CASE StopToRetry \/ StopOnline
    BY <2>4 DEF StopToRetry, StopOnline, Stopped
  <2>5. CASE Portal
    BY <2>5 DEF Portal, AddBegins, AddEnds, AddFails, DeleteNetwork, Forget
  <2>6. CASE UNCHANGED radio
    BY <2>6
  <2>7. CASE Tick \/ CableChanges \/ CheckOnline \/ CheckOffline \/ IdleOver
               \/ NoProfiles \/ HasProfiles \/ Settled \/ SettleGivesUp
               \/ RaisedOver \/ Rejoined \/ ProbeGivesUp
    BY <2>7 DEF Tick, CableChanges, CheckOnline, CheckOffline, IdleOver,
       NoProfiles, HasProfiles, Settled, SettleGivesUp, RaisedOver, Rejoined,
       ProbeGivesUp
  <2> QED
    BY <2>1, <2>2, <2>3, <2>4, <2>5, <2>6, <2>7 DEF Next, Supervisor, vars
<1>2. TypeOK /\ HotspotInv /\ [Next]_vars
        => [radio # AP /\ radio' = AP => offline = Grace]_vars
  BY <1>1
<1> QED
  BY <1>2, HotspotInvariant, PTL DEF Spec, GraceRespected

-----------------------------------------------------------------------------
(* What is online stays online: the safety half of RejoinsSavedNetwork.    *)

\* The radio is joined to saved networks only.
JoinedIsSaved == radio \in Net => radio \in saved

\* Online, and the supervisor is not about to raise or drop a hotspot.
Online ==
  Connected /\ pc \in {"check", "unneeded", "idle", "settle", "probe"}

LEMMA JoinedStep == TypeOK /\ JoinedIsSaved /\ [Next]_vars => JoinedIsSaved'
<1> SUFFICES ASSUME TypeOK, JoinedIsSaved, [Next]_vars
             PROVE  JoinedIsSaved'
  OBVIOUS
<1> USE ProvisionerConstants DEF JoinedIsSaved
<1>1. ASSUME UNCHANGED saved, radio' \in saved \cup {radio, AP, None}
      PROVE  JoinedIsSaved'
  BY <1>1
<1>2. CASE Tick \/ CableChanges \/ UNCHANGED vars
  BY <1>2 DEF Tick, CableChanges, vars
<1>3. CASE AirChanges \/ Autoconnect
  BY <1>1, <1>3 DEF AirChanges, Autoconnect
<1>4. CASE CheckOnline \/ CheckOffline \/ IdleOver \/ NoProfiles \/ HasProfiles
             \/ Settled \/ SettleGivesUp \/ RaisedOver \/ Rejoined \/ ProbeGivesUp
  BY <1>4 DEF CheckOnline, CheckOffline, IdleOver, NoProfiles, HasProfiles,
     Settled, SettleGivesUp, RaisedOver, Rejoined, ProbeGivesUp
<1>5. CASE ReconnectOk \/ ReconnectFails \/ RejoinTried
  BY <1>1, <1>5 DEF ReconnectOk, ReconnectFails, RejoinTried, BringsUp,
     BringsUpNone
<1>6. CASE StartOk \/ StartFails
  BY <1>1, <1>6 DEF StartOk, StartFails
<1>7. CASE StopToRetry \/ StopOnline
  BY <1>1, <1>7 DEF StopToRetry, StopOnline, Stopped
<1>8. CASE Portal
  BY <1>8 DEF Portal, AddBegins, AddEnds, AddFails, DeleteNetwork, Forget
<1> QED
  BY <1>2, <1>3, <1>4, <1>5, <1>6, <1>7, <1>8 DEF Next, Supervisor

LEMMA OnlineStep ==
  ASSUME TypeOK, JoinedIsSaved, Online, [Next]_vars,
         UNCHANGED <<lan, air, saved>>
  PROVE  Online'
<1> USE ProvisionerConstants DEF Online
<1>1. ASSUME UNCHANGED radio PROVE Connected'
  BY <1>1 DEF Connected
<1>2. CASE Tick \/ CableChanges \/ UNCHANGED vars
  BY <1>1, <1>2 DEF Tick, CableChanges, vars
<1>3. CASE AirChanges
  BY <1>3 DEF AirChanges, TypeOK
<1>4. CASE Autoconnect
  BY <1>4 DEF Autoconnect, Connected
<1>5. CASE CheckOnline \/ IdleOver \/ Settled \/ Rejoined
  BY <1>1, <1>5 DEF CheckOnline, IdleOver, Settled, Rejoined
<1>6. CASE StopOnline
  BY <1>6 DEF StopOnline, Stopped, Connected
<1>7. CASE Portal
  <2>1. UNCHANGED <<radio, pc>>
    BY <1>7 DEF Portal, AddBegins, AddEnds, AddFails, DeleteNetwork, Forget,
       JoinedIsSaved, TypeOK
  <2> QED BY <1>1, <2>1
<1>8. CASE Supervisor
  BY <1>5, <1>6, <1>8
  DEF Supervisor, CheckOffline, NoProfiles, HasProfiles, ReconnectOk,
      ReconnectFails, SettleGivesUp, StartOk, StartFails, RaisedOver,
      StopToRetry, RejoinTried, ProbeGivesUp
<1> QED BY <1>2, <1>3, <1>4, <1>7, <1>8 DEF Next

\* As long as neither the cable, the air nor the saved profiles change, a truck
\* that got online stays online: supervisor, portal and autoconnect together
\* never cost it a working link, a profile deleted before it is saved anew and
\* a hotspot taken down late included.
THEOREM OnlineLasts ==
  Spec => [](Online /\ [][UNCHANGED <<lan, air, saved>>]_vars => []Connected)
<1>1. Init => JoinedIsSaved
  BY ProvisionerConstants DEF Init, JoinedIsSaved
<1>2. TypeOK /\ JoinedIsSaved /\ Online /\ [Next]_vars
        /\ [UNCHANGED <<lan, air, saved>>]_vars => Online'
  BY OnlineStep DEF vars
<1>3. Online => Connected
  BY DEF Online
<1> QED
  BY <1>1, <1>2, <1>3, JoinedStep, TypeCorrect, PTL DEF Spec

-----------------------------------------------------------------------------
(* The watchdog, the other task of the wifi-provisioner.                    *)

WatchInv == WatchdogTypeOK /\ TimesInv /\ SpacingInv /\ BootInv

\* A clock that saturates at its limit goes on by one tick or is there.
LEMMA Saturates ==
  ASSUME NEW limit \in Nat, NEW t \in 0..limit, NEW u, u = Shorter(t + 1, limit)
  PROVE  /\ u \in 0..limit /\ t <= u /\ u <= t + 1
         /\ u = t + 1 \/ u = limit
  BY DEF Shorter

\* The spacing is the cooldown or the boot grace, whichever is shorter.
LEMMA SpacingTyped ==
  /\ Spacing \in Nat
  /\ Spacing <= Cooldown /\ Spacing <= BootGrace
  /\ Spacing = Cooldown \/ Spacing = BootGrace
  BY WatchdogConstants DEF Spacing, Shorter

\* One more clock set back is one more Stale, and all of them together the most
\* the age can be below zero.
LEMMA SetBack ==
  ASSUME NEW j \in Nat, NEW s \in Nat, NEW m \in Nat, j <= m
  PROVE  /\ j * s \in Nat /\ m * s \in Nat
         /\ (j + 1) * s = j * s + s
         /\ j * s <= m * s
<1>1. j * s \in Nat /\ m * s \in Nat /\ (m - j) * s \in Nat
  <2>1. \A a, b \in Nat : a * b \in Nat
    OBVIOUS
  <2> QED BY <2>1
<1>2. (j + 1) * s = j * s + s
  OBVIOUS
<1>3. m * s = j * s + (m - j) * s
  OBVIOUS
<1> QED BY <1>1, <1>2, <1>3

\* The invariant holds when the device boots.
LEMMA WatchInit ==
  ASSUME WatchdogInit
  PROVE  WatchInv
<1> USE WatchdogConstants DEF WatchdogInit
<1>1. /\ jumps * Stale = 0 /\ MaxJumps * Stale \in Nat
  BY SetBack
<1>2. {rows, taken, answered} \subseteq BOOLEAN
  BY Zenon
<1>3. age \in {0, Stale} /\ age \in (-MaxJumps * Stale)..Stale
  BY <1>1
<1>4. WatchdogTypeOK
  BY <1>2, <1>3, SpacingTyped DEF WatchdogTypeOK
<1>5. TimesInv
  BY <1>1, <1>3 DEF TimesInv
<1>6. SpacingInv /\ BootInv
  BY SpacingTyped DEF SpacingInv, BootInv
<1> QED BY <1>4, <1>5, <1>6 DEF WatchInv

\* Time passes: the clocks saturate, an edge that is due has beaten.
LEMMA WatchTick ==
  ASSUME WatchInv, WatchdogTick
  PROVE  WatchInv'
<1> USE WatchdogConstants DEF WatchInv, WatchdogTick
<1>1. /\ up' \in 0..BootGrace /\ up' <= up + 1
      /\ up >= BootGrace => up' >= BootGrace
      /\ since' \in 0..Cooldown /\ since' <= since + 1
  BY DEF WatchdogTypeOK, Shorter
<1>2. /\ gap \in 0..Spacing /\ gap' \in 0..Spacing
      /\ gap <= gap' /\ gap' <= gap + 1
      /\ gap' = gap + 1 \/ gap' = Spacing
  <2>1. gap \in 0..Spacing /\ gap' = Shorter(gap + 1, Spacing)
    BY DEF WatchdogTypeOK
  <2>2. Spacing \in Nat
    BY SpacingTyped
  <2> QED BY <2>1, <2>2, Saturates
<1>3. /\ MaxJumps * Stale \in Nat /\ jumps * Stale \in Nat
      /\ jumps * Stale <= MaxJumps * Stale
      /\ age \in Int /\ age' = Shorter(age + 1, Stale)
  BY SetBack DEF WatchdogTypeOK
<1>4. age' \in Int /\ age' <= Stale /\ age' >= -(jumps' * Stale)
      /\ age' \in (-MaxJumps * Stale)..Stale
  BY <1>3 DEF TimesInv, WatchdogTypeOK, Shorter
<1>5. TimesInv' /\ edgeFor' \in 0..(BootTime + BeatEvery)
  BY <1>4 DEF TimesInv, WatchdogTypeOK, InTime
<1>6. WatchdogTypeOK'
  BY <1>1, <1>2, <1>4, <1>5 DEF WatchdogTypeOK
<1>7. SpacingInv'
  BY <1>1, <1>2, SpacingTyped DEF SpacingInv, WatchdogTypeOK
<1>8. BootInv'
  BY <1>1, <1>2, SpacingTyped DEF BootInv, WatchdogTypeOK
<1> QED BY <1>5, <1>6, <1>7, <1>8

\* The wall clock is set.
LEMMA WatchClock ==
  ASSUME WatchInv, SetClock
  PROVE  WatchInv'
<1> USE WatchdogConstants DEF WatchInv, SetClock
<1>1. /\ jumps \in Nat /\ jumps' \in 0..MaxJumps /\ jumps' = jumps + 1
  BY DEF WatchdogTypeOK
<1>2. /\ jumps' * Stale = jumps * Stale + Stale
      /\ jumps * Stale \in Nat /\ jumps' * Stale <= MaxJumps * Stale
      /\ MaxJumps * Stale \in Nat
  BY <1>1, SetBack
<1>3. age' \in Int /\ age' <= Stale /\ age' >= -(jumps' * Stale)
      /\ age' \in (-MaxJumps * Stale)..Stale
  BY <1>2 DEF TimesInv, WatchdogTypeOK
<1>4. WatchdogTypeOK'
  BY <1>1, <1>3 DEF WatchdogTypeOK
<1> QED
  BY <1>3, <1>4 DEF TimesInv, SpacingInv, BootInv

\* The edge container moves by itself.
LEMMA WatchEdge ==
  ASSUME WatchInv, Edge
  PROVE  WatchInv'
<1> USE WatchdogConstants DEF WatchInv, WatchdogTypeOK, TimesInv,
            SpacingInv, BootInv
<1>0. MaxJumps * Stale \in Nat /\ jumps * Stale \in Nat
  BY SetBack
<1>1. CASE Beat
  BY <1>0, <1>1 DEF Beat
<1>2. CASE EdgeParks
  BY <1>2 DEF EdgeParks
<1>3. CASE EdgeUnparks
  BY <1>3 DEF EdgeUnparks
<1>4. CASE EdgeWedges
  BY <1>4 DEF EdgeWedges
<1>5. CASE EdgeRestartsItself
  <2>1. ~answered'
    BY <1>5 DEF EdgeRestartsItself
  <2>2. answered' \in BOOLEAN
    BY <1>5, Zenon DEF EdgeRestartsItself
  <2>3. WatchdogTypeOK'
    BY <1>5, <2>2 DEF EdgeRestartsItself
  <2>4. TimesInv' /\ SpacingInv'
    BY <1>5 DEF EdgeRestartsItself
  <2> QED BY <2>1, <2>3, <2>4
<1> QED BY <1>1, <1>2, <1>3, <1>4, <1>5 DEF Edge

\* watchdog_worker moves: a stale reading is due only after cooldown and grace.
LEMMA WatchWorker ==
  ASSUME WatchInv, Watchdog
  PROVE  WatchInv'
<1> USE WatchdogConstants DEF WatchInv, WatchdogTypeOK, TimesInv,
            SpacingInv, BootInv
<1>1. CASE StartCheck
  BY <1>1 DEF StartCheck, CheckDue
<1>2. CASE ReadStale
  <2>1. gap >= Spacing
    BY <1>2, SpacingTyped DEF ReadStale, CooledDown
  <2>2. taken' \in BOOLEAN
    BY <1>2, Zenon DEF ReadStale
  <2>3. WatchdogTypeOK'
    BY <1>2, <2>2 DEF ReadStale
  <2>4. TimesInv' /\ SpacingInv' /\ BootInv'
    BY <1>2, <2>1 DEF ReadStale
  <2> QED BY <2>3, <2>4
<1>3. CASE ReadNothingToDo
  BY <1>3 DEF ReadNothingToDo
<1>4. CASE AnswerOk
  BY <1>4, SpacingTyped DEF AnswerOk
<1>5. CASE AnswerError
  BY <1>5 DEF AnswerError
<1> QED BY <1>1, <1>2, <1>3, <1>4, <1>5 DEF Watchdog

\* Every step keeps the invariant.
LEMMA WatchStep ==
  ASSUME WatchInv, [WatchdogNext]_watchdogVars
  PROVE  WatchInv'
<1>1. CASE SupervisorRestarts
  <2> USE WatchdogConstants DEF WatchInv, WatchdogTypeOK, SupervisorRestarts
  <2>1. taken' \in BOOLEAN /\ answered' \in BOOLEAN /\ ~answered'
    BY <1>1, Zenon
  <2>2. WatchdogTypeOK'
    BY <1>1, <2>1
  <2>3. TimesInv' /\ SpacingInv'
    BY <1>1 DEF TimesInv, SpacingInv
  <2>4. BootInv'
    BY <2>1 DEF BootInv
  <2> QED BY <2>2, <2>3, <2>4
<1>2. CASE Crash
  BY <1>2, WatchdogConstants DEF WatchInv, WatchdogTypeOK, TimesInv,
                                 SpacingInv, BootInv, Crash
<1>3. CASE UNCHANGED watchdogVars
  BY <1>3 DEF WatchInv, WatchdogTypeOK, TimesInv, SpacingInv, BootInv,
              watchdogVars
<1> QED
  BY <1>1, <1>2, <1>3, WatchTick, WatchClock, WatchEdge, WatchWorker
  DEF WatchdogNext

\* The inductive invariant of the watchdog, for any durations.
THEOREM WatchInvariant == WatchdogSpec => []WatchInv
<1>1. WatchdogInit => WatchInv
  BY WatchInit
<1>2. WatchInv /\ [WatchdogNext]_watchdogVars => WatchInv'
  BY WatchStep
<1> QED BY <1>1, <1>2, PTL DEF WatchdogSpec

\* The watchdog keeps its types: the age it reads is never more below zero than
\* the clock was set back.
THEOREM WatchdogTypeCorrect == WatchdogSpec => []WatchdogTypeOK
<1>1. WatchInv => WatchdogTypeOK
  BY DEF WatchInv
<1> QED BY <1>1, WatchInvariant, PTL

\* After a confirmed restart the next one waits for the cooldown or for the boot
\* grace of a provisioner that was restarted itself, whatever the durations.
THEOREM RestartsAreSpaced == WatchdogSpec => RestartsSpaced
<1>1. ASSUME WatchInv, SupervisorRestarts
      PROVE  gap >= Spacing
  BY <1>1 DEF WatchInv, SpacingInv, SupervisorRestarts
<1>2. WatchInv /\ [WatchdogNext]_watchdogVars
      => [SupervisorRestarts => gap >= Spacing]_watchdogVars
  BY <1>1
<1> QED BY <1>2, WatchInvariant, PTL DEF WatchdogSpec, RestartsSpaced

\* An edge that boots in less time than that is not shot down while it boots.
THEOREM BootingIsNotRestarted ==
  ASSUME BootTime < Spacing
  PROVE  WatchdogSpec => BootingNotRestarted
<1>1. ASSUME WatchInv, SupervisorRestarts
      PROVE  ~(edge = "booting" /\ answered)
  <2> SUFFICES ASSUME edge = "booting", answered
               PROVE  FALSE
    OBVIOUS
  <2>1. gap <= edgeFor /\ edgeFor <= BootTime
    BY <1>1 DEF WatchInv, BootInv, TimesInv
  <2>2. gap >= Spacing
    BY <1>1 DEF WatchInv, SpacingInv, SupervisorRestarts
  <2> QED
    BY <1>1, <2>1, <2>2, SpacingTyped, WatchdogConstants
    DEF WatchInv, WatchdogTypeOK
<1>2. WatchInv /\ [WatchdogNext]_watchdogVars
      => [SupervisorRestarts => ~(edge = "booting" /\ answered)]_watchdogVars
  BY <1>1
<1> QED BY <1>2, WatchInvariant, PTL DEF WatchdogSpec, BootingNotRestarted

==============================================================================
