-------------------------- MODULE BleScannerProofs --------------------------
(* The scan loop gives up only when it should, and when it should, and     *)
(* stores a scan in order.                                                 *)
EXTENDS BleScanner, TLAPS

-----------------------------------------------------------------------------
(* The arithmetic of a pass: what n attempts wait, and what one more adds. *)

LEMMA PassTyped ==
  ASSUME NEW n \in Nat, NEW share \in Nat
  PROVE  Pass(n, share) \in Nat
<1>1. n * share \in Nat
  BY ScannerAssumption
<1>2. n \div CooldownThreshold \in Nat
  BY ScannerAssumption
<1>3. (n \div CooldownThreshold) * Post \in Nat
  BY <1>2, ScannerAssumption
<1> QED BY <1>1, <1>3 DEF Pass

\* One more attempt adds its share, and at every threshold a cooldown.
LEMMA PassStep ==
  ASSUME NEW n \in Nat, NEW share \in Nat
  PROVE  Pass(n + 1, share)
           = Pass(n, share) + share
               + (IF (n + 1) % CooldownThreshold = 0 THEN Post ELSE 0)
<1> DEFINE k == CooldownThreshold
           q == n \div k
           p == (n + 1) \div k
           r == (n + 1) % k
<1>1. k \in Nat \ {0} /\ Post \in Nat
  BY ScannerAssumption
<1>2. q \in Nat /\ p \in Nat /\ r \in Nat
  BY <1>1
<1>3. /\ k * q <= n /\ n < k * q + k
      /\ n + 1 = k * p + r /\ r < k
  BY <1>1
<1>4. (n + 1) * share = n * share + share /\ n * share \in Nat
  BY <1>1
<1> HIDE DEF q, p, k, r
<1>5. q <= p
  <2>1. k * q < k * (p + 1)
    BY <1>1, <1>2, <1>3
  <2> QED BY <1>1, <1>2, <2>1
<1>6. p <= q + 1
  <2>1. k * p < k * (q + 1) + 1
    BY <1>1, <1>2, <1>3
  <2>2. k * p < k * (q + 2)
    BY <1>1, <1>2, <2>1
  <2> QED BY <1>1, <1>2, <2>2
<1>7. CASE r = 0
  <2>1. k * q < k * p
    BY <1>1, <1>2, <1>3, <1>7
  <2>2. q < p
    BY <1>1, <1>2, <2>1
  <2>3. p = q + 1
    BY <1>2, <1>6, <2>2
  <2>4. p * Post = q * Post + Post /\ q * Post \in Nat
    BY <1>1, <1>2, <2>3
  <2> QED BY <1>1, <1>4, <1>7, <2>4 DEF Pass, q, p, k, r
<1>8. CASE r # 0
  <2>1. k * p < k * (q + 1)
    BY <1>1, <1>2, <1>3, <1>8
  <2>2. p < q + 1
    BY <1>1, <1>2, <2>1
  <2>3. p = q
    BY <1>2, <1>5, <2>2
  <2>4. p * Post = q * Post /\ q * Post \in Nat
    BY <1>1, <1>2, <2>3
  <2> QED BY <1>1, <1>4, <1>8, <2>4 DEF Pass, q, p, k, r
<1> QED BY <1>7, <1>8

LEMMA PassMonotone ==
  ASSUME NEW n \in Nat, NEW m \in Nat, n <= m, NEW share \in Nat
  PROVE  Pass(n, share) <= Pass(m, share)
<1> DEFINE k == CooldownThreshold
           q == n \div k
           p == m \div k
<1>1. k \in Nat \ {0} /\ Post \in Nat
  BY ScannerAssumption
<1>2. q \in Nat /\ p \in Nat /\ k * q <= n /\ m < k * p + k
  BY <1>1
<1> HIDE DEF q, p, k
<1>3. q <= p
  <2>1. k * q < k * (p + 1)
    BY <1>1, <1>2
  <2>2. q < p + 1
    BY <1>1, <1>2, <2>1
  <2> QED BY <1>2, <2>2
<1>4. q * Post <= p * Post /\ q * Post \in Nat /\ p * Post \in Nat
  BY <1>1, <1>2, <1>3
<1>5. n * share <= m * share /\ n * share \in Nat /\ m * share \in Nat
  BY <1>1
<1> QED BY <1>4, <1>5 DEF Pass, q, p, k

LEMMA SpentTyped ==
  ASSUME NEW n \in Nat
  PROVE  Spent(n) \in Nat
<1>1. BackoffCap + Jitter \in Nat
  BY ScannerAssumption
<1> QED BY <1>1, PassTyped DEF Spent

LEMMA SpentStep ==
  ASSUME NEW n \in Nat
  PROVE  Spent(n) + BackoffCap + Jitter
           + (IF (n + 1) % CooldownThreshold = 0 THEN Post ELSE 0)
         <= Spent(n + 1)
<1> DEFINE w == BackoffCap + Jitter
           c == IF (n + 1) % CooldownThreshold = 0 THEN Post ELSE 0
<1>1. w \in Nat /\ c \in Nat /\ BackoffCap \in Nat /\ Jitter \in Nat
  BY ScannerAssumption
<1>2. Pass(n + 1, w) = Pass(n, w) + w + c
  BY <1>1, PassStep
<1>3. Pass(n, w) \in Nat
  BY <1>1, PassTyped
<1> QED BY <1>1, <1>2, <1>3 DEF Spent

LEMMA SpentMonotone ==
  ASSUME NEW n \in Nat, NEW m \in Nat, n <= m
  PROVE  Spent(n) <= Spent(m)
<1>1. BackoffCap + Jitter \in Nat
  BY ScannerAssumption
<1> QED BY <1>1, PassMonotone DEF Spent

LEMMA HorizonTyped ==
  /\ Spent(MaxAttempts) \in Nat
  /\ Horizon \in Nat
<1>1. Spent(MaxAttempts) \in Nat
  BY ScannerAssumption, SpentTyped
<1> QED BY <1>1, ScannerAssumption DEF Horizon, PassTime

-----------------------------------------------------------------------------
(* Giving up only after RestartAfter.                                      *)

LEMMA EpisodeStep ==
  ASSUME EpisodeInv, [Next]_vars
  PROVE  EpisodeInv'
<1> USE ScannerAssumption DEF EpisodeInv
<1>1. CASE Tick
  <2>1. since' = since \/ since' = Smaller(since + 1, Horizon)
    BY <1>1 DEF Tick
  <2>2. since' \in Int /\ since' <= since + 1
    BY <2>1, HorizonTyped DEF Smaller
  <2>3. silent' = Smaller(silent + 1, RestartAfter)
    BY <1>1 DEF Tick
  <2> QED BY <2>2, <2>3 DEF Smaller
<1>2. CASE ScanEnds \/ ProcessStarts
  BY <1>2 DEF ScanEnds, ProcessStarts, EndEpisode
<1>3. CASE Contention
  <2>1. since' = since \/ since' = 0
    BY <1>3 DEF Contention, OpenEpisode
  <2>2. silent' = silent
    BY <1>3 DEF Contention
  <2> QED BY <2>1, <2>2
<1>4. CASE ToggleSuspend \/ AdapterChanges \/ StartScan \/ Suspend \/ Discovers
  BY <1>4 DEF ToggleSuspend, AdapterChanges, StartScan, Suspend, Discovers, clocks
<1>5. CASE Persist \/ Resolved \/ LoopError \/ Cooldown \/ Retry \/ Exit
  BY <1>5 DEF Persist, Resolved, LoopError, Cooldown, Retry, Exit, clocks
<1>6. CASE PowerCycle \/ PowerCycled \/ KeepTrying \/ Killed
  BY <1>6 DEF PowerCycle, PowerCycled, KeepTrying, Killed, clocks
<1>7. CASE UNCHANGED vars
  BY <1>7 DEF vars
<1> QED BY <1>1, <1>2, <1>3, <1>4, <1>5, <1>6, <1>7 DEF Next, Step

\* The process gives up only after RestartAfter without a single scan.
THEOREM ExitsAreJustified == Spec => ExitsJustified
<1>1. Init => EpisodeInv
  BY DEF Init, EpisodeInv
<1>2. EpisodeInv /\ [Next]_vars => EpisodeInv'
  BY EpisodeStep
<1>3. EpisodeInv /\ [Next]_vars => [Exit => silent >= RestartAfter]_vars
  BY ScannerAssumption DEF EpisodeInv, Exit, Unrecovered
<1> QED BY <1>1, <1>2, <1>3, PTL DEF Spec, ExitsJustified

-----------------------------------------------------------------------------
(* The order of a round's two stores.                                      *)

LEMMA RoundStep ==
  ASSUME RoundInv, [Next]_vars
  PROVE  RoundInv'
<1> USE DEF RoundInv, QueuedWereObserved
<1>1. CASE ToggleSuspend \/ AdapterChanges \/ Tick
  BY <1>1 DEF ToggleSuspend, AdapterChanges, Tick
<1>2. CASE StartScan \/ Suspend \/ Discovers \/ ScanEnds \/ ProcessStarts
  BY <1>2 DEF StartScan, Suspend, Discovers, ScanEnds, ProcessStarts, Goto
<1>3. CASE Persist
  BY <1>3 DEF Persist, Goto
<1>4. CASE Resolved \/ LoopError \/ Contention \/ Killed
  BY <1>4 DEF Resolved, LoopError, Contention, Killed, RoundEnds, Goto
<1>5. CASE Cooldown \/ Retry \/ Exit \/ PowerCycle \/ PowerCycled \/ KeepTrying
  BY <1>5 DEF Cooldown, Retry, Exit, PowerCycle, PowerCycled, KeepTrying, Goto
<1>6. CASE UNCHANGED vars
  BY <1>6 DEF vars
<1> QED BY <1>1, <1>2, <1>3, <1>4, <1>5, <1>6 DEF Next, Step

\* What the cloud gets of a scan the resolver has seen.
THEOREM QueuedAreObserved == Spec => []QueuedWereObserved
<1>1. Init => RoundInv
  BY DEF Init, RoundInv, QueuedWereObserved
<1>2. RoundInv /\ [Next]_vars => RoundInv'
  BY RoundStep
<1>3. RoundInv => QueuedWereObserved
  BY DEF RoundInv
<1> QED BY <1>1, <1>2, <1>3, PTL DEF Spec

-----------------------------------------------------------------------------
(* Types, and how attempts are counted.                                    *)

LEMMA CadenceTyped ==
  \A c \in Cadence : c.poll \in Nat /\ c.scan \in Nat
  BY ScannerAssumption DEF Cadence, FullCadence

LEMMA EndEpisodeTyped ==
  ASSUME EndEpisode
  PROVE  /\ {contended', disturbed'} \subseteq BOOLEAN
         /\ since' \in 0..Horizon
         /\ attempt' = 0 /\ ~contended'
<1>1. {contended', disturbed'} \subseteq BOOLEAN /\ ~contended'
  BY Zenon DEF EndEpisode
<1> QED BY <1>1, HorizonTyped DEF EndEpisode

LEMMA TypeInit == Init => TypeOK /\ AttemptInv
<1> SUFFICES ASSUME Init
             PROVE  TypeOK /\ AttemptInv
  OBVIOUS
<1>1. {suspended, contended, disturbed} \subseteq BOOLEAN
  BY Zenon DEF Init
<1>2. /\ attempt \in 0..MaxAttempts
      /\ since \in 0..Horizon
      /\ kills \in 0..MaxKills
      /\ {sinceReset, uptime, lastCycle} \subseteq 0..ResetInterval
      /\ silent \in 0..RestartAfter
  BY ScannerAssumption, HorizonTyped DEF Init
<1>3. cadence \in Cadence /\ stored \subseteq {"observations", "scan"}
  BY DEF Init, Cadence
<1>4. AttemptInv
  BY ScannerAssumption DEF Init, AttemptInv
<1> QED BY <1>1, <1>2, <1>3, <1>4 DEF Init, TypeOK

LEMMA TypeStep ==
  ASSUME TypeOK, AttemptInv, [Next]_vars
  PROVE  TypeOK' /\ AttemptInv'
<1> USE ScannerAssumption DEF TypeOK, AttemptInv
<1>1. CASE ToggleSuspend
  BY <1>1 DEF ToggleSuspend, clocks
<1>2. CASE AdapterChanges
  BY <1>2 DEF AdapterChanges, clocks
<1>3. CASE Tick
  <2>1. since' \in 0..Horizon
    BY <1>3, HorizonTyped DEF Tick, Smaller
  <2>2. {sinceReset', uptime', lastCycle'} \subseteq 0..ResetInterval
    BY <1>3 DEF Tick, Smaller
  <2>3. silent' \in 0..RestartAfter /\ wait' \in Nat
    BY <1>3 DEF Tick, Smaller
  <2> QED BY <1>3, <2>1, <2>2, <2>3 DEF Tick, radio
<1>4. CASE StartScan
  <2>1. cadence' \in Cadence
    BY <1>4 DEF StartScan, EffectiveScanCadence, Cadence
  <2> QED BY <1>4, <2>1 DEF StartScan, Goto, At, radio, clocks
<1>5. CASE Suspend
  BY <1>5 DEF Suspend, Goto, At, radio, clocks
<1>6. CASE Discovers
  BY <1>6, CadenceTyped DEF Discovers, Goto, At, radio, clocks
<1>7. CASE ScanEnds
  BY <1>7, EndEpisodeTyped DEF ScanEnds, Goto, At, radio
<1>8. CASE Persist
  BY <1>8 DEF Persist, Goto, radio, clocks
<1>9. CASE Resolved
  BY <1>9, CadenceTyped DEF Resolved, RoundEnds, Cadence, Goto, At, radio, clocks
<1>10. CASE LoopError
  BY <1>10, CadenceTyped DEF LoopError, RoundEnds, Cadence, Goto, At, radio, clocks
<1>11. CASE Contention
  <2>1. attempt < MaxAttempts /\ attempt + 1 \in 0..MaxAttempts
    BY <1>11 DEF Contention, At
  <2>2. Backoff(attempt) \in Nat
    BY <2>1, PowersAssumption DEF Backoff, Smaller
  <2>3. wait' \in Nat /\ pc' = "backoff"
    BY <1>11, <2>2 DEF Contention, Goto
  <2>4. since' \in 0..Horizon
    BY <1>11, HorizonTyped DEF Contention, OpenEpisode
  <2>5. {contended', disturbed'} \subseteq BOOLEAN /\ contended'
    BY <1>11, Zenon DEF Contention, OpenEpisode
  <2> QED
    BY <1>11, <2>1, <2>3, <2>4, <2>5 DEF Contention, RoundEnds, Cadence, radio
<1>12. CASE Cooldown
  BY <1>12 DEF Cooldown, Goto, At, radio, clocks
<1>13. CASE Retry
  BY <1>13 DEF Retry, Goto, At, radio, clocks
<1>14. CASE Exit
  BY <1>14 DEF Exit, Exhausted, Goto, At, clocks
<1>15. CASE PowerCycle
  BY <1>15 DEF PowerCycle, Exhausted, MarkReset, Goto, At, radio
<1>16. CASE PowerCycled
  BY <1>16 DEF PowerCycled, Goto, At, clocks
<1>17. CASE KeepTrying
  BY <1>17 DEF KeepTrying, Exhausted, Goto, At, radio, clocks
<1>18. CASE Killed
  BY <1>18 DEF Killed, RoundEnds, Cadence, Goto, radio
<1>19. CASE ProcessStarts
  BY <1>19, EndEpisodeTyped DEF ProcessStarts, Goto, At, radio
<1>20. CASE UNCHANGED vars
  BY <1>20 DEF vars
<1> QED
  BY <1>1, <1>2, <1>3, <1>4, <1>5, <1>6, <1>7, <1>8, <1>9, <1>10, <1>11, <1>12,
     <1>13, <1>14, <1>15, <1>16, <1>17, <1>18, <1>19, <1>20
  DEF Next, Step

\* Types: the clocks stay within their horizons, and a pass has no more than
\* MaxAttempts attempts.
THEOREM TypeCorrect == Spec => []TypeOK
  BY TypeInit, TypeStep, PTL DEF Spec

-----------------------------------------------------------------------------
(* The exit comes in time.                                                 *)

\* Nothing of the episode, nor where run() is, is touched.
LEMMA TimelyKept ==
  ASSUME TimelyInv, UNCHANGED <<pc, wait, attempt, contended, since, disturbed>>
  PROVE  TimelyInv'
  BY DEF TimelyInv

LEMMA TimelyStep ==
  ASSUME TypeOK, AttemptInv, TimelyInv, [Next]_vars
  PROVE  TimelyInv'
<1> DEFINE Share == BackoffCap + Jitter
<1>1. /\ {Post, BackoffCap, Jitter, ResetTimeout} \subseteq Nat
      /\ RestartAfter \in Nat \ {0}
      /\ Begun \in Nat
  BY ScannerAssumption DEF Begun
<1>2. /\ wait \in Nat /\ since \in Nat /\ attempt \in 0..MaxAttempts
      /\ MaxAttempts \in Nat \ {0}
      /\ Spent(attempt) \in Nat /\ Spent(0) \in Nat
      /\ attempt > 0 => attempt - 1 \in Nat /\ Spent(attempt - 1) \in Nat
  BY ScannerAssumption, HorizonTyped, SpentTyped DEF TypeOK
<1>3. CASE Tick
  <2>1. wait > 0 /\ wait' = wait - 1
    BY <1>3 DEF Tick
  <2>2. contended => since' = Smaller(since + 1, Horizon)
    BY <1>3 DEF Tick
  <2>3. contended => since' \in Nat /\ since' + wait' <= since + wait
    BY <1>2, <2>1, <2>2, HorizonTyped DEF Smaller
  <2>4. UNCHANGED <<pc, attempt, contended, disturbed>>
    BY <1>3 DEF Tick
  <2>5. contended => since' + wait' \in Int /\ since + wait \in Int
    BY <1>2, <2>1, <2>3
  <2> QED
    BY <1>1, <1>2, <2>3, <2>4, <2>5 DEF TimelyInv, AttemptInv
<1>4. CASE Contention
  <2>1. /\ pc = "discover" /\ wait = 0 /\ attempt < MaxAttempts
        /\ pc' = "backoff" /\ attempt' = attempt + 1 /\ contended'
        /\ since' = IF contended THEN since ELSE 0
        /\ disturbed' = (contended /\ disturbed)
    BY <1>4 DEF Contention, OpenEpisode, Goto, At, AttemptInv
  <2>2. wait' \in Nat /\ wait' <= BackoffCap + Jitter
    <3>1. PICK jitter \in 0..Jitter : wait' = Backoff(attempt) + jitter
      BY <1>4 DEF Contention, Goto
    <3>2. 2 ^ attempt \in Nat
      BY <1>2, <2>1, PowersAssumption
    <3>3. Backoff(attempt) \in Nat /\ Backoff(attempt) <= BackoffCap
      BY <1>1, <3>2 DEF Backoff, Smaller
    <3> QED BY <1>1, <3>1, <3>3
  <2>3. SUFFICES ASSUME ~disturbed'
                 PROVE  since' + wait' <= Begun + Post + Spent(attempt)
                                            + BackoffCap + Jitter
    BY <1>2, <2>1 DEF TimelyInv
  <2>4. since' \in Nat /\ since' <= Begun + Post + Spent(attempt)
    <3>1. CASE contended
      <4>1. ~disturbed
        BY <2>1, <2>3, <3>1, Zenon
      <4>2. since + wait <= Begun + Post + Spent(attempt)
        BY <2>1, <3>1, <4>1 DEF TimelyInv
      <4> QED BY <1>2, <2>1, <3>1, <4>2
    <3>2. CASE ~contended
      BY <1>1, <1>2, <2>1, <3>2
    <3> QED BY <3>1, <3>2
  <2> QED BY <1>1, <1>2, <2>2, <2>4
<1>5. CASE Cooldown
  <2>1. /\ pc = "backoff" /\ wait = 0 /\ pc' = "decide"
        /\ wait' = IF attempt % CooldownThreshold = 0 THEN Post ELSE 0
        /\ UNCHANGED <<attempt, contended, since, disturbed>>
    BY <1>5 DEF Cooldown, Goto, At, clocks
  <2>2. attempt - 1 \in Nat /\ (attempt - 1) + 1 = attempt
    BY <1>2, <2>1 DEF AttemptInv
  <2>3. Spent(attempt - 1) + BackoffCap + Jitter + wait' <= Spent(attempt)
    BY <2>1, <2>2, SpentStep
  <2>4. contended /\ ~disturbed =>
          since <= Begun + Post + Spent(attempt - 1) + BackoffCap + Jitter
    BY <1>2, <2>1 DEF TimelyInv
  <2>5. wait' \in Nat
    BY <1>1, <2>1
  <2> QED
    BY <1>1, <1>2, <2>1, <2>2, <2>3, <2>4, <2>5 DEF TimelyInv
<1>6. CASE PowerCycle
  <2>1. /\ attempt' = 0 /\ pc' = "reset" /\ ~(since >= RestartAfter)
        /\ wait' \in 0..ResetTimeout
        /\ UNCHANGED <<contended, since, disturbed>>
    BY <1>6 DEF PowerCycle, Exhausted, Unrecovered, Goto
  <2> QED
    BY <1>1, <1>2, <2>1 DEF TimelyInv, Begun
<1>7. CASE KeepTrying
  <2>1. /\ attempt' = 0 /\ pc' = "top" /\ ~(since >= RestartAfter)
        /\ wait' = Post
        /\ UNCHANGED <<contended, since, disturbed>>
    BY <1>7 DEF KeepTrying, Exhausted, Unrecovered, Goto, clocks
  <2> QED
    BY <1>1, <1>2, <2>1 DEF TimelyInv, Begun
<1>8. CASE PowerCycled
  <2>1. /\ pc = "reset" /\ wait = 0 /\ pc' = "top" /\ wait' = Post
        /\ UNCHANGED <<attempt, contended, since, disturbed>>
    BY <1>8 DEF PowerCycled, Goto, At, clocks
  <2> QED
    BY <1>1, <1>2, <2>1 DEF TimelyInv
<1>9. CASE StartScan \/ Retry
  <2>1. /\ pc \in {"top", "decide"} /\ wait = 0
        /\ pc' \in {"top", "discover"} /\ wait' = 0
        /\ UNCHANGED <<attempt, contended, since, disturbed>>
    BY <1>9 DEF StartScan, Retry, Goto, At, clocks
  <2> QED
    BY <2>1 DEF TimelyInv
<1>10. CASE Discovers \/ Persist \/ Resolved \/ Exit \/ Killed
  <2>1. \/ pc' \in {"scan", "enqueue", "resolve", "down"}
        \/ ~contended'
    BY <1>10 DEF Discovers, Persist, Resolved, Exit, Killed, Goto, AttemptInv, At
  <2> QED
    BY <2>1 DEF TimelyInv
<1>11. CASE Suspend \/ LoopError \/ ScanEnds \/ ProcessStarts
  BY <1>11
  DEF Suspend, LoopError, ScanEnds, ProcessStarts, EndEpisode, TimelyInv
<1>12. CASE ToggleSuspend \/ AdapterChanges \/ UNCHANGED vars
  BY <1>12, TimelyKept DEF ToggleSuspend, AdapterChanges, vars, clocks
<1> QED
  BY <1>3, <1>4, <1>5, <1>6, <1>7, <1>8, <1>9, <1>10, <1>11, <1>12
  DEF Next, Step

\* Contention that nothing interrupts is over, or has led to the exit, within
\* one pass of attempts after RestartAfter.
THEOREM ExitsInTime == Spec => []ExitInTime
<1>1. Init => TimelyInv
  BY DEF Init, TimelyInv
<1>2. TypeOK /\ AttemptInv /\ TimelyInv => ExitInTime
  <2> SUFFICES ASSUME TypeOK, AttemptInv, TimelyInv, contended, ~disturbed,
                      pc \notin {"scan", "down"}
               PROVE  ~(since >= RestartAfter + PassTime)
    BY DEF ExitInTime
  <2>1. /\ {Post, BackoffCap, Jitter, ResetTimeout, wait, since} \subseteq Nat
        /\ RestartAfter \in Nat \ {0} /\ MaxAttempts \in Nat \ {0}
        /\ attempt \in Nat /\ attempt <= MaxAttempts
    BY ScannerAssumption, HorizonTyped DEF TypeOK
  <2>2. /\ Spent(MaxAttempts) \in Nat /\ Spent(attempt) \in Nat
        /\ Spent(attempt) <= Spent(MaxAttempts)
    BY <2>1, SpentTyped, SpentMonotone
  <2>3. CASE pc = "reset"
    BY <2>1, <2>2, <2>3 DEF TimelyInv, Begun, PassTime
  <2>4. CASE pc \in {"top", "discover", "decide"}
    BY <2>1, <2>2, <2>4 DEF TimelyInv, Begun, PassTime
  <2>5. CASE pc = "backoff"
    <3>1. attempt - 1 \in Nat /\ (attempt - 1) + 1 = attempt
      BY <2>1, <2>5 DEF AttemptInv
    <3>2. Spent(attempt - 1) \in Nat
      BY <3>1, SpentTyped
    <3>3. Spent(attempt - 1) + BackoffCap + Jitter
            + (IF attempt % CooldownThreshold = 0 THEN Post ELSE 0)
          <= Spent(attempt)
      BY <3>1, SpentStep
    <3> QED
      BY <2>1, <2>2, <2>5, <3>2, <3>3 DEF TimelyInv, Begun, PassTime
  <2> QED
    BY <2>3, <2>4, <2>5 DEF AttemptInv, TypeOK
<1> QED
  BY <1>1, <1>2, TypeInit, TypeStep, TimelyStep, PTL DEF Spec

-----------------------------------------------------------------------------
(* Power-cycles keep their distance, also across an exit.                  *)

LEMMA FloorTyped ==
  ASSUME NEW n \in Nat
  PROVE  Floor(n) \in Nat
  BY PassTyped DEF Floor

LEMMA FloorStep ==
  ASSUME NEW n \in Nat
  PROVE  Floor(n + 1)
           = Floor(n) + 1 + (IF (n + 1) % CooldownThreshold = 0 THEN Post ELSE 0)
  BY PassStep DEF Floor

LEMMA FloorOfNone == Floor(0) = 0
  BY ScannerAssumption DEF Floor, Pass

LEMMA WaitedTyped ==
  ASSUME NEW l, NEW n \in 0..MaxAttempts, l = "backoff" => n > 0
  PROVE  (IF l = "backoff" THEN Floor(n - 1) + 1 ELSE Floor(n)) \in Nat
<1>1. n \in Nat /\ Floor(n) \in Nat
  BY FloorTyped, ScannerAssumption
<1>2. n > 0 => n - 1 \in Nat /\ Floor(n - 1) \in Nat
  BY <1>1, FloorTyped
<1> QED BY <1>1, <1>2

\* The process goes on, waiting for whatever its attempts have not yet.
LEMMA CycleKept ==
  ASSUME TypeOK, AttemptInv, TypeOK', AttemptInv', CycleInv,
         UNCHANGED <<sinceReset, lastCycle>>, pc' # "down",
         wait + Waited' <= wait' + Waited
  PROVE  CycleInv'
<1>1. Waited \in Nat /\ Waited' \in Nat
  <2>1. attempt \in 0..MaxAttempts /\ attempt' \in 0..MaxAttempts
    BY DEF TypeOK
  <2>2. /\ pc = "backoff" => attempt > 0
        /\ pc' = "backoff" => attempt' > 0
    BY DEF AttemptInv
  <2> QED BY <2>1, <2>2, WaitedTyped DEF Waited
<1>2. Floor(MaxAttempts) \in Nat /\ RestartDelay \in Nat
  BY FloorTyped, ScannerAssumption
<1>3. {wait, wait', lastCycle, sinceReset} \subseteq Nat
  BY DEF TypeOK
<1> QED BY <1>1, <1>2, <1>3 DEF CycleInv

LEMMA CycleStep ==
  ASSUME TypeOK, AttemptInv, TypeOK', AttemptInv', CycleInv, [Next]_vars
  PROVE  CycleInv'
<1> DEFINE F == Floor(MaxAttempts)
<1>1. /\ {wait, wait', lastCycle, lastCycle'} \subseteq Nat
      /\ {sinceReset, sinceReset', RestartDelay, Post, F} \subseteq Nat
      /\ ResetInterval \in Nat \ {0} /\ MaxAttempts \in Nat \ {0}
      /\ lastCycle <= ResetInterval /\ sinceReset <= ResetInterval
  BY FloorTyped, ScannerAssumption DEF TypeOK
<1>2. /\ attempt \in 0..MaxAttempts /\ attempt' \in 0..MaxAttempts
      /\ pc = "backoff" => attempt > 0
      /\ pc' = "backoff" => attempt' > 0
  BY DEF TypeOK, AttemptInv
<1>3. /\ Waited \in Nat /\ Waited' \in Nat
      /\ Floor(attempt) \in Nat /\ Floor(attempt') \in Nat /\ Floor(0) = 0
  BY <1>1, <1>2, WaitedTyped, FloorTyped, FloorOfNone DEF Waited
<1> HIDE DEF F
<1>4. CASE Tick
  <2>1. /\ wait' = wait - 1 /\ UNCHANGED <<pc, attempt>>
        /\ sinceReset' = Smaller(sinceReset + 1, ResetInterval)
        /\ lastCycle' = Smaller(lastCycle + 1, ResetInterval)
    BY <1>4 DEF Tick
  <2>2. Waited' = Waited
    BY <2>1 DEF Waited
  <2>3. /\ lastCycle' >= ResetInterval \/ lastCycle' = lastCycle + 1
        /\ lastCycle >= ResetInterval => lastCycle' >= ResetInterval
        /\ sinceReset <= lastCycle => sinceReset' <= lastCycle'
    BY <1>1, <2>1 DEF Smaller
  <2> QED BY <1>1, <1>3, <2>1, <2>2, <2>3 DEF CycleInv, F
<1>5. CASE Contention
  <2>1. /\ pc = "discover" /\ wait = 0 /\ attempt < MaxAttempts
        /\ pc' = "backoff" /\ attempt' = attempt + 1
        /\ UNCHANGED <<sinceReset, lastCycle>>
    BY <1>5 DEF Contention, Goto, At, AttemptInv
  <2>2. wait' >= 1
    <3>1. PICK jitter \in 0..Jitter : wait' = Backoff(attempt) + jitter
      BY <1>5 DEF Contention, Goto
    <3>2. 2 ^ attempt \in Nat \ {0}
      BY <1>2, PowersAssumption
    <3>3. Backoff(attempt) \in Nat \ {0}
      BY <3>2, ScannerAssumption DEF Backoff, Smaller
    <3> QED BY <3>1, <3>3, ScannerAssumption
  <2>3. (attempt + 1) - 1 = attempt
    BY <1>2
  <2>4. Waited = Floor(attempt) /\ Waited' = Floor(attempt) + 1
    BY <2>1, <2>3 DEF Waited
  <2>5. wait + Waited' <= wait' + Waited
    BY <1>1, <1>3, <2>1, <2>2, <2>4
  <2> QED BY <2>1, <2>5, CycleKept
<1>6. CASE Cooldown
  <2>1. /\ pc = "backoff" /\ wait = 0 /\ pc' = "decide"
        /\ wait' = IF attempt % CooldownThreshold = 0 THEN Post ELSE 0
        /\ UNCHANGED <<attempt, sinceReset, lastCycle>>
    BY <1>6 DEF Cooldown, Goto, At, clocks
  <2>2. attempt - 1 \in Nat /\ (attempt - 1) + 1 = attempt
    BY <1>2, <2>1
  <2>3. Floor(attempt) = Floor(attempt - 1) + 1 + wait'
      /\ Floor(attempt - 1) \in Nat
    BY <2>1, <2>2, FloorStep, FloorTyped
  <2>4. Waited = Floor(attempt - 1) + 1 /\ Waited' = Floor(attempt)
    BY <2>1 DEF Waited
  <2>5. wait + Waited' <= wait' + Waited
    BY <1>1, <1>3, <2>1, <2>3, <2>4
  <2> QED BY <2>1, <2>5, CycleKept
<1>7. CASE PowerCycle
  <2>1. /\ pc' = "reset" /\ attempt' = 0 /\ sinceReset' = 0 /\ lastCycle' = 0
    BY <1>7 DEF PowerCycle, Exhausted, MarkReset, Goto
  <2>2. Waited' = 0
    BY <1>3, <2>1 DEF Waited
  <2> QED BY <1>1, <2>1, <2>2 DEF CycleInv
<1>8. CASE Exit
  <2>1. /\ pc = "decide" /\ wait = 0 /\ attempt >= MaxAttempts
        /\ attempt' = 0 /\ pc' = "down" /\ wait' = RestartDelay
        /\ UNCHANGED <<sinceReset, lastCycle>>
    BY <1>8 DEF Exit, Exhausted, Goto, At, clocks
  <2>2. attempt = MaxAttempts
    BY <1>1, <1>2, <2>1
  <2>3. Waited = F /\ Waited' = 0
    BY <1>3, <2>1, <2>2 DEF Waited, F
  <2> QED BY <1>1, <2>1, <2>3 DEF CycleInv, F
<1>9. CASE ProcessStarts
  <2>1. /\ pc = "down" /\ wait = 0 /\ attempt' = 0 /\ pc' = "top" /\ wait' = 0
        /\ lastCycle' = lastCycle
    BY <1>9 DEF ProcessStarts, EndEpisode, Goto, At
  <2>2. Waited' = 0
    BY <1>3, <2>1 DEF Waited
  <2> QED BY <1>1, <1>3, <2>1, <2>2 DEF CycleInv, F
<1>10. CASE Killed
  <2>1. lastCycle' = ResetInterval
    BY <1>10 DEF Killed
  <2> QED BY <1>1, <2>1 DEF CycleInv
<1>11. CASE ScanEnds \/ KeepTrying
  <2>1. /\ pc \in {"scan", "decide"} /\ wait = 0
        /\ pc' \in {"observe", "top"} /\ attempt' = 0
        /\ UNCHANGED <<sinceReset, lastCycle>>
    BY <1>11 DEF ScanEnds, KeepTrying, EndEpisode, Exhausted, Goto, At, clocks
  <2>2. Waited' = 0
    BY <1>3, <2>1 DEF Waited
  <2>3. wait + Waited' <= wait' + Waited
    BY <1>1, <1>3, <2>1, <2>2
  <2> QED BY <2>1, <2>3, CycleKept
<1>12. CASE Suspend \/ StartScan \/ Discovers \/ Persist \/ Resolved
              \/ LoopError \/ Retry \/ PowerCycled
  <2>1. /\ wait = 0 /\ pc # "backoff" /\ pc' \notin {"backoff", "down"}
        /\ UNCHANGED <<attempt, sinceReset, lastCycle>>
    BY <1>12 DEF Suspend, StartScan, Discovers, Persist, Resolved, LoopError,
                 Retry, PowerCycled, Goto, At, clocks
  <2>2. Waited' = Waited
    BY <2>1 DEF Waited
  <2>3. wait + Waited' <= wait' + Waited
    BY <1>1, <1>3, <2>1, <2>2
  <2> QED BY <2>1, <2>3, CycleKept
<1>13. CASE ToggleSuspend \/ AdapterChanges \/ UNCHANGED vars
  BY <1>13 DEF ToggleSuspend, AdapterChanges, vars, clocks, CycleInv, Waited
<1> QED
  BY <1>4, <1>5, <1>6, <1>7, <1>8, <1>9, <1>10, <1>11, <1>12, <1>13
  DEF Next, Step

\* The adapter is not power-cycled twice within ResetInterval, also not by the
\* process that follows one that exited, if the two passes of attempts and the
\* restart between them take that long.
THEOREM ResetsAreSpaced ==
  ASSUME ResetInterval <= RestartDelay + 2 * Floor(MaxAttempts)
  PROVE  Spec => ResetsSpaced
<1>1. Init => CycleInv
  BY ScannerAssumption DEF Init, CycleInv
<1>2. ASSUME TypeOK, AttemptInv, CycleInv, PowerCycle
      PROVE  lastCycle >= ResetInterval
  <2>1. /\ pc = "decide" /\ wait = 0 /\ attempt >= MaxAttempts
        /\ sinceReset >= ResetInterval
    BY <1>2 DEF PowerCycle, Exhausted, ResetDue, At
  <2>2. /\ attempt = MaxAttempts /\ {sinceReset, lastCycle} \subseteq Nat
        /\ MaxAttempts \in Nat /\ ResetInterval \in Nat /\ RestartDelay \in Nat
    BY <1>2, <2>1, ScannerAssumption DEF TypeOK
  <2>3. Waited = Floor(MaxAttempts) /\ Floor(MaxAttempts) \in Nat
    BY <2>1, <2>2, FloorTyped DEF Waited
  <2> QED BY <1>2, <2>1, <2>2, <2>3 DEF CycleInv
<1>3. TypeOK /\ AttemptInv /\ CycleInv /\ [Next]_vars
        => [PowerCycle => lastCycle >= ResetInterval]_vars
  BY <1>2
<1> QED
  BY <1>1, <1>3, TypeInit, TypeStep, CycleStep, PTL DEF Spec, ResetsSpaced

=============================================================================
