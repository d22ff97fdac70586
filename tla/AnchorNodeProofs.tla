-------------------------- MODULE AnchorNodeProofs --------------------------
(***************************************************************************)
(* Proofs about AnchorNode, for every number of devices, table and frame   *)
(* size, number of retries and driver queue: its types, that an            *)
(* advertisement is lost only in the ways LossExplained names, that only   *)
(* what was heard is told, and that a good link delivers what is cleared.  *)
(***************************************************************************)
EXTENDS AnchorNode, SequenceTheorems, TLAPS

\* What Slot returns is an index of the table, or the next one.
LEMMA SlotInTable ==
  ASSUME TypeOK, NEW d \in Device, NEW i \in Slot(d)
  PROVE  /\ i \in 1..MaxTable
         /\ i \in DOMAIN table \/ i = Len(table) + 1
  BY AnchorAssumption DEF TypeOK, Slot

\* The loop's steps that send nothing, by what they leave alone.
LEMMA RecordAdvertType ==
  ASSUME TypeOK, NEW d \in Device, RecordAdvert(d)
  PROVE  TypeOK'
<1>1. heard' \in Advert /\ heard' \in 0..MaxAdverts
  BY AnchorAssumption DEF RecordAdvert, TypeOK, Advert
<1>2. PICK i \in Slot(d) :
        table' = IF i \in DOMAIN table
                 THEN [table EXCEPT ![i].seen = @ \cup {heard'}]
                 ELSE Append(table, [dev |-> d, seen |-> {heard'}])
  BY DEF RecordAdvert
<1>3. i \in 1..MaxTable /\ (i \in DOMAIN table \/ i = Len(table) + 1)
  BY <1>2, SlotInTable
<1>4. table' \in Seq(Entry) /\ Len(table') <= MaxTable
  <2>1. CASE i \in DOMAIN table
    <3> DEFINE e == [table[i] EXCEPT !.seen = @ \cup {heard'}]
    <3>1. table[i] \in Entry
      BY <2>1 DEF TypeOK
    <3>2. e \in Entry
      BY <1>1, <3>1 DEF Entry
    <3>3. table' = [table EXCEPT ![i] = e]
      BY <1>2, <2>1
    <3> HIDE DEF e
    <3> QED BY <2>1, <3>2, <3>3 DEF TypeOK
  <2>2. CASE i \notin DOMAIN table
    <3>1. [dev |-> d, seen |-> {heard'}] \in Entry
      BY <1>1 DEF Entry
    <3>2. table' = Append(table, [dev |-> d, seen |-> {heard'}])
      BY <1>2, <2>2
    <3>3. Len(table) + 1 <= MaxTable
      BY <1>3, <2>2, AnchorAssumption
    <3> QED BY <3>1, <3>2, <3>3 DEF TypeOK
  <2> QED BY <2>1, <2>2
<1>5. excused' \subseteq Advert
  BY <1>1 DEF RecordAdvert, TypeOK
<1> QED BY <1>1, <1>4, <1>5 DEF RecordAdvert, TypeOK, link, loop

LEMMA EntryType ==
  ASSUME NEW s \in Seq(Entry), NEW i \in DOMAIN s
  PROVE  s[i].seen \subseteq Advert
<1>1. s[i] \in Entry
  OBVIOUS
<1> QED BY <1>1 DEF Entry

LEMMA SeenType ==
  ASSUME NEW s \in Seq(Entry)
  PROVE  Seen(s) \subseteq Advert
  BY EntryType DEF Seen

LEMMA FrameType ==
  ASSUME TypeOK
  PROVE  Frame \subseteq Advert
<1>1. \A i \in DOMAIN snap : snap[i].seen \subseteq Advert
  BY EntryType DEF TypeOK
<1> QED BY <1>1 DEF Frame, Part

LEMMA EmptyTyped ==
  /\ <<>> \in Seq(Entry) /\ <<>> \in Seq(SUBSET Advert)
  /\ Len(<<>>) = 0
  OBVIOUS

LEMMA ReturnTyped ==
  ASSUME TypeOK, ReturnToLoop
  PROVE  /\ pc' = "idle" /\ job' = "heartbeat"
         /\ snap' \in Seq(Entry) /\ Len(snap') <= MaxTable
         /\ start' \in 0..MaxTable /\ attempt' \in 1..Retries
  BY AnchorAssumption, EmptyTyped DEF ReturnToLoop

THEOREM TypeStep == TypeOK /\ [Next]_vars => TypeOK'
<1> SUFFICES ASSUME TypeOK, [Next]_vars PROVE TypeOK'
  OBVIOUS
<1> USE AnchorAssumption
<1>1. CASE UNCHANGED vars
  BY <1>1 DEF TypeOK, vars
<1>2. CASE RadioChanges \/ Beacon \/ BeaconStale
  BY <1>2 DEF RadioChanges, Beacon, BeaconStale, TypeOK, scan, loop
<1>3. ASSUME NEW d \in Device, RecordAdvert(d) PROVE TypeOK'
  BY <1>3, RecordAdvertType
<1>4. CASE OnSentRuns
  <2>1. air # <<>>
    BY <1>4 DEF OnSentRuns, Acked, AckLost, FrameLost
  <2>2. Head(air) \subseteq Advert /\ Tail(air) \in Seq(SUBSET Advert)
        /\ Len(Tail(air)) <= QueueSize
    BY <2>1 DEF TypeOK
  <2> QED BY <1>4, <2>2 DEF OnSentRuns, Acked, AckLost, FrameLost, OnSent,
          TypeOK, link, scan, loop
<1>5. CASE StartReport
  <2>1. excused' \subseteq Advert
    BY <1>5 DEF StartReport, TypeOK
  <2>2. snap' \in Seq(Entry) /\ Len(snap') <= MaxTable /\ start' \in 0..MaxTable
    BY <1>5 DEF StartReport, TypeOK
  <2>3. pc' = "call" /\ job' = "report" /\ doubtful' \in BOOLEAN
    BY <1>5 DEF StartReport
  <2>4. UNCHANGED <<link, scan, attempt, pending, ok, air, received>>
    BY <1>5 DEF StartReport
  <2> QED BY <2>1, <2>2, <2>3, <2>4 DEF TypeOK, link, scan
<1>6. CASE StartHeartbeat
  BY <1>6 DEF StartHeartbeat, TypeOK, link, scan
<1>13. CASE NoLink \/ GiveUp \/ HeartbeatConfirmed
  <2>1. ReturnToLoop
    BY <1>13 DEF NoLink, GiveUp, HeartbeatConfirmed
  <2>2. UNCHANGED <<link, scan, pending, ok, air, received, excused, doubtful>>
    BY <1>13 DEF NoLink, GiveUp, HeartbeatConfirmed
  <2> QED BY <2>1, <2>2, ReturnTyped DEF TypeOK, link, scan
<1>7. CASE FirstAttempt \/ Retry
  <2>1. attempt' \in 1..Retries
    BY <1>7 DEF FirstAttempt, Retry, TypeOK
  <2>2. Arm
    BY <1>7 DEF FirstAttempt, Retry
  <2>3. doubtful' \in BOOLEAN
    BY <2>2 DEF Arm
  <2>4. pc' = "armed" /\ pending' \in BOOLEAN /\ ok' \in BOOLEAN
    BY <2>2 DEF Arm
  <2>5. UNCHANGED <<link, scan, job, snap, start, air, received, excused>>
    BY <2>2 DEF Arm
  <2> QED BY <2>1, <2>3, <2>4, <2>5 DEF TypeOK, link, scan
<1>8. CASE Accepted
  <2>1. air' \in Seq(SUBSET Advert) /\ Len(air') <= QueueSize
    BY <1>8, FrameType DEF Accepted, TypeOK
  <2> QED BY <1>8, <2>1 DEF Accepted, TypeOK, link, scan
<1>9. CASE Refused \/ StopWaiting \/ NotConfirmed
  BY <1>9 DEF Refused, StopWaiting, NotConfirmed, TypeOK, link, scan
<1>10. CASE PartConfirmed
  BY <1>10 DEF PartConfirmed, TypeOK, link, scan
<1>11. CASE Clear
  <2>1. excused' \subseteq Advert
    BY <1>11, SeenType DEF Clear, TypeOK
  <2> QED BY <1>11, <2>1 DEF Clear, ReturnToLoop, TypeOK, link
<1>12. CASE Reboot
  <2>1. excused' \subseteq Advert
    BY <1>12, SeenType DEF Reboot, TypeOK
  <2>2. ReturnToLoop
    BY <1>12 DEF Reboot
  <2>3. table' \in Seq(Entry) /\ Len(table') <= MaxTable
    BY <1>12, EmptyTyped DEF Reboot
  <2>4. air' \in Seq(SUBSET Advert) /\ Len(air') <= QueueSize
    BY <1>12, EmptyTyped DEF Reboot
  <2>5. /\ good' \in BOOLEAN /\ known' \in BOOLEAN /\ fresh' \in BOOLEAN
        /\ pending' \in BOOLEAN /\ ok' \in BOOLEAN /\ doubtful' \in BOOLEAN
        /\ heard' \in 0..MaxAdverts /\ received' \subseteq Advert
    BY <1>12 DEF Reboot, TypeOK
  <2> QED BY <2>1, <2>2, <2>3, <2>4, <2>5, ReturnTyped DEF TypeOK
<1> QED BY <1>1, <1>2, <1>3, <1>4, <1>5, <1>6, <1>7, <1>8, <1>9, <1>10,
        <1>11, <1>12, <1>13 DEF Next, Loop

\* The state always has its declared shape: the table never overflows, a
\* report never runs past its snapshot, the driver queue is respected.
THEOREM TypeCorrect == Spec => []TypeOK
<1>1. Init => TypeOK
  <2> SUFFICES ASSUME Init PROVE TypeOK
    OBVIOUS
  <2>1. table \in Seq(Entry) /\ Len(table) <= MaxTable
    BY AnchorAssumption, EmptyTyped DEF Init
  <2>2. snap \in Seq(Entry) /\ Len(snap) <= MaxTable
    BY AnchorAssumption, EmptyTyped DEF Init
  <2>3. air \in Seq(SUBSET Advert) /\ Len(air) <= QueueSize
    BY AnchorAssumption, EmptyTyped DEF Init
  <2>4. /\ heard \in 0..MaxAdverts /\ start \in 0..MaxTable
        /\ attempt \in 1..Retries
    BY AnchorAssumption DEF Init
  <2> QED BY <2>1, <2>2, <2>3, <2>4 DEF Init, TypeOK
<1> QED BY <1>1, TypeStep, PTL DEF Spec

-----------------------------------------------------------------------------
(* The safety argument.                                                    *)

\* A step that ends a report, or happens outside of one, leaves only
\* LossExplained to be shown.
LEMMA NotReporting ==
  ASSUME ~Reporting', pc' # "clear", LossExplained'
  PROVE  LossInv'
  BY DEF LossInv, TableCovered, PartsArrived, Handshake, OnlyReportsClear,
     Reporting

\* Recording adds one advertisement to what the table stands for.
LEMMA RecordAdvertSeen ==
  ASSUME TypeOK, NEW d \in Device, RecordAdvert(d)
  PROVE  Seen(table') = Seen(table) \cup {heard'}
<1>1. PICK i \in Slot(d) :
        table' = IF i \in DOMAIN table
                 THEN [table EXCEPT ![i].seen = @ \cup {heard'}]
                 ELSE Append(table, [dev |-> d, seen |-> {heard'}])
  BY DEF RecordAdvert
<1>2. i \in DOMAIN table \/ i = Len(table) + 1
  BY <1>1, SlotInTable
<1>3. CASE i \in DOMAIN table
  <2>1. DOMAIN table' = DOMAIN table
    BY <1>1, <1>3
  <2>2. table'[i].seen = table[i].seen \cup {heard'}
    <3>1. table[i] \in Entry
      BY <1>3 DEF TypeOK
    <3>2. table'[i] = [table[i] EXCEPT !.seen = @ \cup {heard'}]
      BY <1>1, <1>3
    <3> QED BY <3>1, <3>2 DEF Entry
  <2>3. \A j \in DOMAIN table : j # i => table'[j] = table[j]
    BY <1>1, <1>3
  <2> QED BY <1>3, <2>1, <2>2, <2>3 DEF Seen
<1>4. CASE i \notin DOMAIN table
  <2> DEFINE e == [dev |-> d, seen |-> {heard'}]
  <2>1. table' = Append(table, e)
    BY <1>1, <1>4
  <2>2. /\ DOMAIN table' = DOMAIN table \cup {Len(table) + 1}
        /\ \A j \in DOMAIN table : table'[j] = table[j]
        /\ table'[Len(table) + 1] = e
    BY <1>2, <1>4, <2>1 DEF TypeOK
  <2>3. e.seen = {heard'}
    OBVIOUS
  <2> HIDE DEF e
  <2> QED BY <2>2, <2>3 DEF Seen
<1> QED BY <1>3, <1>4

LEMMA RecordAdvertKeeps ==
  ASSUME TypeOK, LossInv, NEW d \in Device, RecordAdvert(d)
  PROVE  LossInv'
<1>3. Seen(table') = Seen(table) \cup {heard'}
  BY RecordAdvertSeen
<1>4. 1..heard' = 1..heard \cup {heard'}
  BY DEF RecordAdvert, TypeOK
<1>5. /\ UNCHANGED <<pc, job, snap, start, ok, air, received, doubtful>>
      /\ excused \subseteq excused'
      /\ Reporting => heard' \in excused'
  BY DEF RecordAdvert, loop
<1>6. LossExplained'
  BY <1>3, <1>4, <1>5 DEF LossInv, LossExplained
<1>7. TableCovered'
  BY <1>3, <1>5 DEF LossInv, TableCovered, Reporting, Seen
<1>8. PartsArrived'
  BY <1>5 DEF LossInv, PartsArrived, Reporting
<1>9. Handshake' /\ OnlyReportsClear'
  BY <1>5 DEF LossInv, Handshake, OnlyReportsClear, Reporting, Frame, Part
<1> QED BY <1>6, <1>7, <1>8, <1>9 DEF LossInv

\* A callback can only add to what the gateway was told; if no callback can be
\* misread, it speaks of the current frame.
LEMMA OnSentKeeps ==
  ASSUME TypeOK, LossInv, OnSentRuns
  PROVE  LossInv'
<1>1. air # <<>> /\ air' = Tail(air)
  BY DEF OnSentRuns, Acked, AckLost, FrameLost, OnSent
<1>2. received \subseteq received' /\ (ok' => Head(air) \subseteq received')
  BY DEF OnSentRuns, Acked, AckLost, FrameLost, OnSent
<1>3. UNCHANGED <<pc, job, snap, start, table, heard, excused, doubtful>>
  BY DEF OnSentRuns, Acked, AckLost, FrameLost, OnSent, scan, loop
<1>4. LossExplained' /\ TableCovered' /\ OnlyReportsClear'
  BY <1>2, <1>3 DEF LossInv, LossExplained, TableCovered, OnlyReportsClear,
     Reporting, Seen
<1>5. PartsArrived'
  BY <1>2, <1>3 DEF LossInv, PartsArrived, Reporting
<1>6. Handshake'
  <2> SUFFICES ASSUME (Reporting /\ ~doubtful
                       /\ pc \in {"armed", "wait", "check", "backoff"})'
               PROVE  /\ \A i \in DOMAIN air' : air'[i] = Frame'
                      /\ ok' => Frame' \subseteq received'
    BY DEF Handshake
  <2>1. \A i \in DOMAIN air : air[i] = Frame
    BY <1>3 DEF LossInv, Handshake, Reporting
  <2>2. Frame' = Frame
    BY <1>3 DEF Frame, Part
  <2>3. Head(air) = Frame
    BY <1>1, <2>1 DEF TypeOK
  <2>4. \A i \in DOMAIN air' : air'[i] = air[i + 1] /\ i + 1 \in DOMAIN air
    BY <1>1 DEF TypeOK
  <2> QED BY <1>2, <2>1, <2>2, <2>3, <2>4
<1> QED BY <1>4, <1>5, <1>6 DEF LossInv

\* The snapshot covers the whole table, and nothing of it has been sent.
LEMMA StartReportKeeps ==
  ASSUME TypeOK, LossInv, StartReport
  PROVE  LossInv'
<1>1. /\ pc' = "call" /\ job' = "report" /\ snap' = table /\ start' = 0
      /\ excused' = excused \ Seen(table)
      /\ UNCHANGED <<table, heard, received>>
  BY DEF StartReport, scan
<1>2. LossExplained'
  BY <1>1 DEF LossInv, LossExplained
<1>3. TableCovered'
  BY <1>1 DEF TableCovered
<1>4. PartsArrived'
  BY <1>1 DEF PartsArrived, TypeOK
<1> QED BY <1>1, <1>2, <1>3, <1>4 DEF LossInv, Handshake, OnlyReportsClear

\* g_send_ok starts FALSE, and an outstanding callback of another frame makes
\* the report doubtful.
LEMMA ArmKeeps ==
  ASSUME LossInv, Arm, pc \in {"call", "backoff"}
  PROVE  LossInv'
<1>1. /\ pc' = "armed" /\ ok' = FALSE
      /\ doubtful' = (doubtful \/ \E i \in DOMAIN air : air[i] # Frame)
      /\ UNCHANGED <<table, heard, job, snap, start, air, received, excused>>
  BY DEF Arm, scan
<1>2. LossExplained' /\ TableCovered' /\ OnlyReportsClear'
  BY <1>1 DEF LossInv, LossExplained, TableCovered, OnlyReportsClear,
     Reporting, Seen
<1>3. PartsArrived'
  BY <1>1 DEF LossInv, PartsArrived, Reporting
<1>4. Frame' = Frame
  BY <1>1 DEF Frame, Part
<1>5. Handshake'
  BY <1>1, <1>4 DEF Handshake
<1> QED BY <1>2, <1>3, <1>5 DEF LossInv

\* The confirmed part has arrived: g_send_ok spoke of it.
LEMMA PartConfirmedKeeps ==
  ASSUME TypeOK, LossInv, PartConfirmed
  PROVE  LossInv'
<1> USE AnchorAssumption
<1>1. /\ pc = "check" /\ ok /\ job = "report"
      /\ UNCHANGED <<table, heard, job, snap, received, excused, doubtful>>
  BY DEF PartConfirmed, scan
<1>2. \/ pc' = "call" /\ start' = start + FrameSize
      \/ /\ pc' = "clear" /\ start' = start
         /\ Len(snap) <= start + FrameSize
  BY DEF PartConfirmed, TypeOK
<1>3. LossExplained' /\ TableCovered' /\ OnlyReportsClear'
  BY <1>1, <1>2 DEF LossInv, LossExplained, TableCovered, OnlyReportsClear,
     Reporting, Seen
<1>4. PartsArrived'
  <2> SUFFICES ASSUME ~doubtful,
                      NEW i \in DOMAIN snap,
                      i <= start' \/ pc' = "clear"
               PROVE  snap[i].seen \subseteq received
    BY <1>1 DEF PartsArrived
  <2>1. Reporting
    BY <1>1 DEF Reporting
  <2>2. CASE i <= start
    BY <2>1, <2>2 DEF LossInv, PartsArrived
  <2>3. CASE ~(i <= start)
    <3>1. i \in Part
      BY <1>2, <2>3 DEF Part, TypeOK
    <3>2. Frame \subseteq received
      BY <1>1, <2>1 DEF LossInv, Handshake
    <3> QED BY <1>1, <3>1, <3>2 DEF Frame
  <2> QED BY <2>2, <2>3
<1>5. Handshake'
  BY <1>2 DEF Handshake
<1> QED BY <1>3, <1>4, <1>5 DEF LossInv

\* The clearing loses what the snapshot missed (excused) and the snapshot
\* itself (arrived, or excused because the report was doubtful).
LEMMA ClearKeeps ==
  ASSUME TypeOK, LossInv, Clear
  PROVE  LossInv'
<1>1. /\ pc = "clear" /\ UNCHANGED <<heard, received>>
      /\ excused' = IF doubtful THEN excused \cup Seen(snap) ELSE excused
      /\ pc' = "idle" /\ job' = "heartbeat"
  BY DEF Clear, ReturnToLoop
<1>2. Reporting
  BY <1>1 DEF LossInv, OnlyReportsClear, Reporting
<1>3. Seen(snap) \subseteq received \cup excused'
  <2>1. CASE doubtful
    BY <1>1, <2>1
  <2>2. CASE ~doubtful
    <3>1. \A i \in DOMAIN snap : snap[i].seen \subseteq received
      BY <1>1, <1>2, <2>2 DEF LossInv, PartsArrived
    <3> QED BY <3>1 DEF Seen
  <2> QED BY <2>1, <2>2
<1>4. Seen(table) \subseteq received' \cup excused'
  BY <1>1, <1>2, <1>3 DEF LossInv, TableCovered
<1>5. LossExplained'
  BY <1>1, <1>4 DEF LossInv, LossExplained
<1> QED BY <1>1, <1>5, NotReporting DEF Reporting

LEMMA LossStep == TypeOK /\ LossInv /\ [Next]_vars => LossInv'
<1> SUFFICES ASSUME TypeOK, LossInv, [Next]_vars PROVE LossInv'
  OBVIOUS
<1> DEFINE Kept == UNCHANGED <<table, heard, pc, job, snap, start, ok, air,
                               received, excused, doubtful>>
<1>1. ASSUME Kept PROVE LossInv'
  BY <1>1 DEF LossInv, LossExplained, TableCovered, PartsArrived, Handshake,
     OnlyReportsClear, Reporting, Frame, Part, Seen
<1>2. CASE UNCHANGED vars \/ RadioChanges \/ Beacon \/ BeaconStale
  BY <1>1, <1>2 DEF vars, RadioChanges, Beacon, BeaconStale, scan, loop
<1>3. ASSUME NEW d \in Device, RecordAdvert(d) PROVE LossInv'
  BY <1>3, RecordAdvertKeeps
<1>4. CASE OnSentRuns
  BY <1>4, OnSentKeeps
<1>5. CASE StartReport
  BY <1>5, StartReportKeeps
<1>6. CASE NoLink \/ GiveUp \/ HeartbeatConfirmed
  <2>1. /\ pc' = "idle" /\ job' = "heartbeat"
        /\ UNCHANGED <<table, heard, received, excused>>
    BY <1>6 DEF NoLink, GiveUp, HeartbeatConfirmed, ReturnToLoop, scan
  <2>2. LossExplained'
    BY <2>1 DEF LossInv, LossExplained, Seen
  <2> QED BY <2>1, <2>2, NotReporting DEF Reporting
<1>7. CASE StartHeartbeat
  <2>1. /\ pc' = "call" /\ job' = "heartbeat"
        /\ UNCHANGED <<table, heard, received, excused>>
    BY <1>7 DEF StartHeartbeat, scan
  <2>2. LossExplained'
    BY <2>1 DEF LossInv, LossExplained, Seen
  <2> QED BY <2>1, <2>2, NotReporting DEF Reporting
<1>8. CASE FirstAttempt \/ Retry
  BY <1>8, ArmKeeps DEF FirstAttempt, Retry
<1>9. CASE Accepted
  <2>1. /\ pc = "armed" /\ pc' = "wait" /\ air' = Append(air, Frame)
        /\ UNCHANGED <<table, heard, job, snap, start, ok, received, excused,
                       doubtful>>
    BY <1>9 DEF Accepted, scan
  <2>2. LossExplained' /\ TableCovered' /\ PartsArrived' /\ OnlyReportsClear'
    BY <2>1 DEF LossInv, LossExplained, TableCovered, PartsArrived,
       OnlyReportsClear, Reporting, Seen
  <2>3. Frame' = Frame
    BY <2>1 DEF Frame, Part
  <2>4. \A i \in DOMAIN air' : air'[i] = Frame \/ (i \in DOMAIN air /\ air'[i] = air[i])
    BY <2>1 DEF TypeOK
  <2>5. Handshake'
    BY <2>1, <2>3, <2>4 DEF LossInv, Handshake, Reporting
  <2> QED BY <2>2, <2>5 DEF LossInv
<1>10. CASE Refused \/ StopWaiting \/ NotConfirmed
  <2>1. /\ pc \in {"armed", "wait", "check"} /\ pc' \in {"check", "backoff"}
        /\ UNCHANGED <<table, heard, job, snap, start, ok, air, received,
                       excused, doubtful>>
    BY <1>10 DEF Refused, StopWaiting, NotConfirmed, scan
  <2>2. LossExplained' /\ TableCovered' /\ PartsArrived' /\ OnlyReportsClear'
    BY <2>1 DEF LossInv, LossExplained, TableCovered, PartsArrived,
       OnlyReportsClear, Reporting, Seen
  <2>3. Handshake'
    BY <2>1 DEF LossInv, Handshake, Reporting, Frame, Part
  <2> QED BY <2>2, <2>3 DEF LossInv
<1>11. CASE PartConfirmed
  BY <1>11, PartConfirmedKeeps
<1>12. CASE Clear
  BY <1>12, ClearKeeps
<1>13. CASE Reboot
  <2>1. /\ pc' = "idle" /\ job' = "heartbeat"
        /\ excused' = excused \cup Seen(table)
        /\ UNCHANGED <<heard, received>>
    BY <1>13 DEF Reboot, ReturnToLoop
  <2>2. LossExplained'
    BY <2>1 DEF LossInv, LossExplained
  <2> QED BY <2>1, <2>2, NotReporting DEF Reporting
<1> QED BY <1>2, <1>3, <1>4, <1>5, <1>6, <1>7, <1>8, <1>9, <1>10, <1>11,
        <1>12, <1>13 DEF Next, Loop

\* What left an anchor's table was told to the gateway, or was recorded while
\* the report was being sent, or belonged to a report during which a stale
\* callback could be misread, or was lost with the power.
THEOREM LossIsExplained == Spec => []LossExplained
<1>1. Init => LossInv
  BY DEF Init, LossInv, LossExplained, TableCovered, PartsArrived, Handshake,
     OnlyReportsClear, Reporting
<1>2. LossInv => LossExplained
  BY DEF LossInv
<1> QED BY <1>1, <1>2, LossStep, TypeCorrect, PTL DEF Spec

-----------------------------------------------------------------------------
(* The gateway is told nothing that was not heard.                         *)

\* Every copy of an advertisement, wherever it is, is of one that was heard.
HeardInv ==
  /\ Seen(table) \cup Seen(snap) \subseteq 1..heard
  /\ \A i \in DOMAIN air : air[i] \subseteq 1..heard
  /\ received \subseteq 1..heard

LEMMA FrameSeen == Frame \subseteq Seen(snap)
  BY DEF Frame, Part, Seen

LEMMA HeardStep == TypeOK /\ HeardInv /\ [Next]_vars => HeardInv'
<1> SUFFICES ASSUME TypeOK, HeardInv, [Next]_vars PROVE HeardInv'
  OBVIOUS
<1> DEFINE Kept == UNCHANGED <<heard, air, received>>
<1>1. ASSUME UNCHANGED heard, air' = air \/ air' = <<>>, UNCHANGED received,
             table' \in {table, <<>>}, snap' \in {snap, table, <<>>}
      PROVE  HeardInv'
  BY <1>1 DEF HeardInv, Seen
<1>2. CASE UNCHANGED vars \/ RadioChanges \/ Beacon \/ BeaconStale
  BY <1>1, <1>2 DEF vars, RadioChanges, Beacon, BeaconStale, scan, loop
<1>3. ASSUME NEW d \in Device, RecordAdvert(d) PROVE HeardInv'
  <2>1. Seen(table') = Seen(table) \cup {heard'}
    BY <1>3, RecordAdvertSeen
  <2>2. 1..heard' = 1..heard \cup {heard'}
    BY <1>3 DEF RecordAdvert, TypeOK
  <2>3. UNCHANGED <<snap, air, received>>
    BY <1>3 DEF RecordAdvert, loop
  <2> QED BY <2>1, <2>2, <2>3 DEF HeardInv, Seen
<1>4. CASE OnSentRuns
  <2>1. air # <<>> /\ air' = Tail(air)
        /\ received' \subseteq received \cup Head(air)
        /\ UNCHANGED <<table, snap, heard>>
    BY <1>4 DEF OnSentRuns, Acked, AckLost, FrameLost, OnSent, scan, loop
  <2>2. Head(air) \subseteq 1..heard
    BY <2>1 DEF HeardInv, TypeOK
  <2>3. \A i \in DOMAIN air' : air'[i] = air[i + 1] /\ i + 1 \in DOMAIN air
    BY <2>1 DEF TypeOK
  <2> QED BY <2>1, <2>2, <2>3 DEF HeardInv, Seen
<1>5. CASE StartReport \/ StartHeartbeat
  BY <1>1, <1>5 DEF StartReport, StartHeartbeat, scan
<1>6. CASE NoLink \/ GiveUp \/ HeartbeatConfirmed \/ Clear \/ Reboot
  BY <1>1, <1>6 DEF NoLink, GiveUp, HeartbeatConfirmed, Clear, Reboot,
     ReturnToLoop, scan
<1>7. CASE FirstAttempt \/ Retry \/ Refused \/ StopWaiting \/ NotConfirmed
             \/ PartConfirmed
  BY <1>1, <1>7 DEF FirstAttempt, Retry, Arm, Refused, StopWaiting, NotConfirmed,
     PartConfirmed, scan
<1>8. CASE Accepted
  <2>1. air' = Append(air, Frame)
        /\ UNCHANGED <<table, snap, heard, received>>
    BY <1>8 DEF Accepted, scan
  <2>2. \A i \in DOMAIN air' : air'[i] = Frame \/ (i \in DOMAIN air /\ air'[i] = air[i])
    BY <2>1 DEF TypeOK
  <2> QED BY <2>1, <2>2, FrameSeen DEF HeardInv, Seen
<1> QED BY <1>2, <1>3, <1>4, <1>5, <1>6, <1>7, <1>8 DEF Next, Loop

\* Whatever is retried, confirmed late or sent from a stale snapshot, a report
\* names only what the node heard.
THEOREM ToldWasHeard == Spec => [](received \subseteq 1..heard)
<1>1. Init => HeardInv
  BY DEF Init, HeardInv, Seen
<1>2. HeardInv => received \subseteq 1..heard
  BY DEF HeardInv
<1> QED BY <1>1, <1>2, HeardStep, TypeCorrect, PTL DEF Spec

-----------------------------------------------------------------------------
(* What a good link saves: no callback is misread, so a cleared window was *)
(* delivered but for what was recorded while its report was sent.          *)

\* At most the frame being waited for is on its way.
OneInAir ==
  /\ ~doubtful
  /\ IF pc = "wait" /\ pending THEN Len(air) = 1 ELSE air = <<>>
  /\ pc = "armed" => pending

LEMMA OneInAirStep ==
  ASSUME TypeOK, OneInAir, good, [Next]_vars
  PROVE  OneInAir'
<1> USE DEF OneInAir
<1>1. ASSUME UNCHANGED <<doubtful, pc, pending, air>> PROVE OneInAir'
  BY <1>1
<1>2. CASE UNCHANGED vars \/ RadioChanges \/ Beacon \/ BeaconStale
  BY <1>1, <1>2 DEF vars, RadioChanges, Beacon, BeaconStale, loop
<1>3. ASSUME NEW d \in Device, RecordAdvert(d) PROVE OneInAir'
  BY <1>1, <1>3 DEF RecordAdvert, loop
<1>4. CASE OnSentRuns
  <2>1. air # <<>> /\ air' = Tail(air) /\ ~pending' /\ UNCHANGED <<pc, doubtful>>
    BY <1>4 DEF OnSentRuns, Acked, AckLost, FrameLost, OnSent, loop
  <2>2. pc = "wait" /\ Len(air) = 1
    BY <2>1
  <2>3. Tail(air) \in Seq(SUBSET Advert) /\ Len(Tail(air)) = 0
    BY <2>1, <2>2 DEF TypeOK
  <2>4. Tail(air) = <<>>
    BY <2>3, EmptySeq
  <2> QED BY <2>1, <2>2, <2>4
<1>5. CASE StartReport \/ StartHeartbeat
  BY <1>5 DEF StartReport, StartHeartbeat, NextSendDue
<1>6. CASE NoLink \/ GiveUp \/ HeartbeatConfirmed \/ Clear
  BY <1>6 DEF NoLink, GiveUp, HeartbeatConfirmed, Clear, ReturnToLoop
<1>7. CASE FirstAttempt \/ Retry
  <2>1. pc \in {"call", "backoff"} /\ Arm
    BY <1>7 DEF FirstAttempt, Retry
  <2>2. air = <<>> /\ DOMAIN air = {}
    BY <2>1
  <2> QED BY <2>1, <2>2 DEF Arm
<1>8. CASE Accepted
  <2>1. air = <<>> /\ pending
    BY <1>8 DEF Accepted
  <2>2. Len(Append(air, Frame)) = 1
    BY <2>1, FrameType DEF TypeOK
  <2> QED BY <1>8, <2>1, <2>2 DEF Accepted
<1>9. CASE Refused
  <2>1. Len(air) = 0
    BY <1>9 DEF Refused
  <2> QED BY <1>9, <2>1, AnchorAssumption DEF Refused
<1>10. CASE StopWaiting \/ NotConfirmed \/ PartConfirmed
  BY <1>10 DEF StopWaiting, NotConfirmed, PartConfirmed
<1>11. CASE Reboot
  BY <1>11 DEF Reboot, ReturnToLoop
<1> QED BY <1>2, <1>3, <1>4, <1>5, <1>6, <1>7, <1>8, <1>9, <1>10, <1>11
        DEF Next, Loop

\* As long as the gateway stays in good reach, a window is cleared only after
\* every record of the report has arrived; resets do not matter.
THEOREM GoodLinkDelivers ==
  Spec => [](OneInAir /\ []good => [](pc = "clear" => Seen(snap) \subseteq received))
<1>1. Init => LossInv
  BY DEF Init, LossInv, LossExplained, TableCovered, PartsArrived, Handshake,
     OnlyReportsClear, Reporting
<1>2. TypeOK /\ OneInAir /\ good /\ [Next]_vars => OneInAir'
  BY OneInAirStep
<1>3. LossInv /\ OneInAir => (pc = "clear" => Seen(snap) \subseteq received)
  BY DEF LossInv, PartsArrived, OnlyReportsClear, Reporting, OneInAir, Seen
<1> QED BY <1>1, <1>2, <1>3, LossStep, TypeCorrect, PTL DEF Spec

=============================================================================
