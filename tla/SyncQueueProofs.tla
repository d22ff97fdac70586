-------------------------- MODULE SyncQueueProofs ---------------------------
(***************************************************************************)
(* Proofs about SyncQueue for every number of tables, batch limit, purge   *)
(* age and bound: its types, the invariants the runs check, the size of a  *)
(* batch, and that the queue implements StoreForward.                      *)
(***************************************************************************)
EXTENDS SyncQueue, FiniteSetTheorems, WellFoundedInduction, TLAPS

-----------------------------------------------------------------------------
(* Type correctness.                                                       *)

\* What the assumption on the constants says of the numbers.
LEMMA Numbers ==
  /\ NumTables \in Nat \ {0}
  /\ MaxId \in Nat
  /\ MaxNow \in Nat
  /\ MaxCrashes \in Nat
  /\ MaxLateness \in Nat
  /\ Tables = 1..NumTables
BY ConstantsAssumption DEF Tables

LEMMA InitTyped == Init => TypeOK
<1>1. Init => DatabaseOK
  BY Numbers DEF Init, DatabaseOK
<1>2. Init => LoopOK
  BY Numbers DEF Init, LoopOK
<1>3. Init => OutsideOK
  BY Numbers DEF Init, OutsideOK
<1>4. Init => FlagsOK
  BY DEF Init, FlagsOK
<1> QED
  BY <1>1, <1>2, <1>3, <1>4 DEF TypeOK

\* The rows of the database stay rows; ids stay within the bound.
LEMMA DatabaseTyped == ASSUME DatabaseOK, [Next]_vars PROVE DatabaseOK'
<1> USE DEF DatabaseOK
<1>1. CASE Tick
  BY <1>1, Numbers DEF Tick
<1>2. ASSUME NEW t \in Tables, Insert(t) PROVE DatabaseOK'
  BY <1>2, Numbers DEF Insert, Row
<1>3. CASE Purge
  BY <1>3 DEF Purge, Expired
<1>4. ASSUME NEW t \in Tables, MarkTable(t) PROVE DatabaseOK'
  BY <1>4 DEF MarkTable, Selected
<1>5. ASSUME NEW t \in Tables, BumpTable(t) PROVE DatabaseOK'
  BY <1>5 DEF BumpTable, Selected
<1>6. ASSUME UNCHANGED db PROVE DatabaseOK'
  BY <1>6 DEF db
<1> QED
  BY <1>1, <1>2, <1>3, <1>4, <1>5, <1>6
  DEF Next, Environment, Uploader, ToggleSuspend, StaySuspended, StartCycle,
      CycleFails, LoadTable, Reply2xx, Reply4xx, Reply5xx, NetworkError,
      Drained, KeepDraining, LoadBeacon, BeaconDone, Wake, CloudTakes,
      CloudTakesLate, Crash, vars, db

\* The locals of the loop: its place, its batch and the answer it got.
LEMMA LoopTyped ==
  ASSUME DatabaseOK, LoopOK, [Next]_vars PROVE LoopOK'
<1> USE DEF LoopOK, FreshCycle
<1>1. CASE StaySuspended \/ StartCycle \/ CycleFails
  BY <1>1 DEF StaySuspended, StartCycle, CycleFails
<1>2. ASSUME NEW t \in Tables, LoadTable(t) PROVE LoopOK'
  <2>1. t + 1 \in 1..(NumTables + 1)
    BY Numbers
  <2>2. Oldest(t) \subseteq Row
    BY DEF Oldest, Pending, DatabaseOK
  <2> QED
    BY <1>2, <2>1, <2>2 DEF LoadTable
<1>3. CASE Reply2xx \/ Reply4xx \/ Reply5xx \/ NetworkError
  BY <1>3, Numbers DEF Reply2xx, Reply4xx, Reply5xx, NetworkError
<1>4. ASSUME NEW t \in Tables, MarkTable(t) \/ BumpTable(t) PROVE LoopOK'
  <2>1. t + 1 \in 1..(NumTables + 1)
    BY Numbers
  <2> QED
    BY <1>4, <2>1 DEF MarkTable, BumpTable
<1>5. CASE Drained
  BY <1>5 DEF Drained
<1>6. CASE KeepDraining
  BY <1>6, Numbers DEF KeepDraining
<1>7. CASE LoadBeacon
  <2>1. UNION {Newest(t) : t \in BeaconTables} \subseteq Row
    BY DEF Newest, Pending, DatabaseOK
  <2> QED
    BY <1>7, <2>1 DEF LoadBeacon
<1>8. CASE BeaconDone \/ Wake \/ Crash
  BY <1>8, Numbers DEF BeaconDone, Wake, Crash
<1>9. ASSUME UNCHANGED loop PROVE LoopOK'
  BY <1>9 DEF loop
<1> QED
  BY <1>1, <1>2, <1>3, <1>4, <1>5, <1>6, <1>7, <1>8, <1>9
  DEF Next, Environment, Uploader, Tick, Insert, Purge, ToggleSuspend,
      CloudTakes, CloudTakesLate, vars, loop

\* The cloud, the abandoned requests and the history hold rows.
LEMMA OutsideTyped ==
  ASSUME DatabaseOK, LoopOK, OutsideOK, [Next]_vars PROVE OutsideOK'
<1> USE DEF OutsideOK
<1>1. /\ Abandoned \subseteq Row
      /\ Acceptable(batch) \subseteq Row
      /\ batch \subseteq Row
  BY DEF Abandoned, Acceptable, LoopOK
<1>2. ASSUME NEW t \in Tables, LoadTable(t) PROVE OutsideOK'
  BY <1>2 DEF LoadTable, DatabaseOK
<1>3. CASE CloudTakes \/ CloudTakesLate
  BY <1>1, <1>3 DEF CloudTakes, CloudTakesLate, history
<1>4. CASE Reply5xx \/ NetworkError \/ CycleFails
  BY <1>1, <1>4 DEF Reply5xx, NetworkError, CycleFails
<1>5. ASSUME NEW t \in Tables, MarkTable(t) PROVE OutsideOK'
  BY <1>5 DEF MarkTable
<1>6. CASE LoadBeacon
  <2>1. UNION {Newest(t) : t \in BeaconTables} \subseteq Row
    BY DEF Newest, Pending, DatabaseOK
  <2> QED
    BY <1>6, <2>1 DEF LoadBeacon
<1>7. CASE BeaconDone
  BY <1>1, <1>7 DEF BeaconDone, history
<1>8. CASE Crash
  <2>1. crashes + 1 \in 0..MaxCrashes
    BY <1>8, Numbers DEF Crash
  <2> QED
    BY <1>1, <1>8, <2>1 DEF Crash
<1>9. ASSUME UNCHANGED <<cloud, late, crashes, horizon, excused>>
      PROVE  OutsideOK'
  BY <1>9
<1> QED
  BY <1>2, <1>3, <1>4, <1>5, <1>6, <1>7, <1>8, <1>9
  DEF Next, Environment, Uploader, Tick, Insert, Purge, ToggleSuspend,
      StaySuspended, StartCycle, Reply2xx, Reply4xx, BumpTable, Drained,
      KeepDraining, Wake, vars, history

LEMMA FlagsTyped == ASSUME FlagsOK, [Next]_vars PROVE FlagsOK'
<1> USE DEF FlagsOK
<1>1. ASSUME NEW t \in Tables, LoadTable(t) PROVE FlagsOK'
  <2>1. (more \/ Saturated(t)) \in BOOLEAN
    OBVIOUS
  <2>2. beaconSent' \in BOOLEAN
    BY <1>1 DEF LoadTable
  <2> QED
    BY <1>1, <2>1, <2>2 DEF LoadTable
<1>2. CASE ToggleSuspend
  BY <1>2 DEF ToggleSuspend, loop
<1>3. CASE StaySuspended \/ StartCycle \/ CycleFails \/ Drained \/ KeepDraining
  BY <1>3 DEF StaySuspended, StartCycle, CycleFails, Drained, KeepDraining,
              FreshCycle
<1>4. CASE Reply2xx \/ Reply4xx \/ Reply5xx \/ NetworkError
  BY <1>4 DEF Reply2xx, Reply4xx, Reply5xx, NetworkError
<1>5. ASSUME NEW t \in Tables, MarkTable(t) \/ BumpTable(t) PROVE FlagsOK'
  BY <1>5 DEF MarkTable, BumpTable
<1>6. CASE LoadBeacon \/ BeaconDone \/ Wake \/ Crash
  BY <1>6 DEF LoadBeacon, BeaconDone, Wake, Crash, FreshCycle
<1>7. CASE CloudTakes
  BY <1>7 DEF CloudTakes, loop
<1>8. ASSUME UNCHANGED <<more, beaconSent, suspended, taken>> PROVE FlagsOK'
  BY <1>8
<1> QED
  BY <1>1, <1>2, <1>3, <1>4, <1>5, <1>6, <1>7, <1>8
  DEF Next, Environment, Uploader, Tick, Insert, Purge, CloudTakesLate, vars,
      loop

\* Every variable keeps its type, and only stored rows are ever marked sent or
\* counted as attempted.
THEOREM TypeCorrect == Spec => []TypeOK
<1>1. TypeOK /\ [Next]_vars => TypeOK'
  BY DatabaseTyped, LoopTyped, OutsideTyped, FlagsTyped DEF TypeOK
<1> QED
  BY InitTyped, <1>1, PTL DEF Spec

-----------------------------------------------------------------------------
(* Nothing is marked sent, or forgotten, before the cloud has it.          *)

\* The id list of an UPDATE selects exactly the batch's rows of that table.
LEMMA SelectedIsBatch ==
  ASSUME UniqueIds, NEW t \in Tables
  PROVE  Selected(t) = {r \in batch \cap store : r.table = t}
BY DEF UniqueIds, Selected

LEMMA CoreInit == Init => CoreInv
BY DEF Init, CoreInv, FreshIds, UniqueIds, BatchHeld, BatchTaken, LateHeld,
       SentReachedCloud, Acceptable

\* A new row is unlike every row there is.
LEMMA InsertPreservesCore ==
  ASSUME TypeOK, CoreInv, NEW t \in Tables, Insert(t)
  PROVE  CoreInv'
<1> DEFINE New(at) == [table |-> t, id |-> nextId[t], at |-> at]
<1> USE DEF TypeOK, DatabaseOK, LoopOK, OutsideOK, CoreInv, Row
<1>1. PICK at \in 0..now : store' = store \cup {New(at)}
  BY DEF Insert
<1>2. /\ \A s \in Tables : nextId'[s] = IF s = t THEN nextId[t] + 1 ELSE nextId[s]
      /\ \A s \in Tables : nextId[s] \in Int
      /\ UNCHANGED <<sent, cloud, late, batch, pc, taken>>
  BY Numbers DEF Insert, loop
<1>3. \A r \in store \cup cloud \cup late \cup batch : r.table \in Tables /\ r.id \in Int
  OBVIOUS
<1>4. FreshIds'
  <2>1. New(at).id < nextId'[New(at).table]
    BY <1>2
  <2>2. \A r \in store \cup cloud \cup late \cup batch : r.id < nextId'[r.table]
    BY <1>2, <1>3 DEF FreshIds
  <2> QED
    BY <1>1, <1>2, <2>1, <2>2 DEF FreshIds
<1>5. UniqueIds'
  <2>1. \A r \in store \cup batch : ~(r.table = t /\ r.id = nextId[t])
    BY <1>2, <1>3 DEF FreshIds
  <2> QED
    BY <1>1, <1>2, <2>1 DEF UniqueIds
<1>6. BatchHeld' /\ BatchTaken' /\ LateHeld' /\ SentReachedCloud'
  <2>1. sent \subseteq store
    OBVIOUS
  <2>2. BatchHeld'
    <3>1. BatchHeld /\ store \subseteq store' /\ UNCHANGED <<pc, sent, batch>>
      BY <1>1, <1>2
    <3> QED
      BY <3>1 DEF BatchHeld
  <2>3. BatchTaken'
    BY <1>2 DEF BatchTaken, Acceptable
  <2>4. LateHeld'
    BY <1>1, <1>2 DEF LateHeld, Acceptable
  <2> QED
    BY <1>2, <2>2, <2>3, <2>4 DEF SentReachedCloud
<1> QED
  BY <1>4, <1>5, <1>6

\* What the purge deletes is marked sent, so neither pending nor undelivered.
LEMMA PurgePreservesCore == ASSUME TypeOK, CoreInv, Purge PROVE CoreInv'
<1> USE DEF CoreInv
<1>1. PICK d \in Retentions :
        /\ store' = store \ Expired(d)
        /\ sent' = sent \ Expired(d)
        /\ UNCHANGED <<nextId, pc, batch, taken, cloud, late>>
  BY DEF Purge, loop
<1>2. Expired(d) \subseteq sent
  BY DEF Expired
<1>3. FreshIds' /\ UniqueIds'
  BY <1>1 DEF FreshIds, UniqueIds
<1>4. BatchHeld' /\ BatchTaken'
  BY <1>1, <1>2 DEF BatchHeld, BatchTaken, Acceptable
<1>5. LateHeld'
  BY <1>1, <1>2 DEF LateHeld, SentReachedCloud, Acceptable
<1>6. SentReachedCloud'
  BY <1>1 DEF SentReachedCloud
<1> QED
  BY <1>3, <1>4, <1>5, <1>6

\* Reading a table, being answered, and what the cloud does meanwhile.
LEMMA RequestPreservesCore ==
  ASSUME TypeOK, CoreInv,
         \/ \E t \in Tables : LoadTable(t)
         \/ Reply2xx \/ Reply4xx \/ Reply5xx \/ NetworkError
         \/ CloudTakes \/ CloudTakesLate
  PROVE  CoreInv'
<1> USE DEF CoreInv, db
<1>1. ASSUME NEW t \in Tables, LoadTable(t) PROVE CoreInv'
  <2>1. /\ Oldest(t) \subseteq store \ sent
        /\ batch' = batch \cup Oldest(t)
        /\ pc = "load"
        /\ pc' \in {"load", "sleep", "post"}
        /\ UNCHANGED <<nextId, store, sent, cloud, late, taken>>
    BY <1>1 DEF LoadTable, Oldest, Pending
  <2>2. FreshIds' /\ UniqueIds'
    BY <2>1 DEF FreshIds, UniqueIds, BatchHeld
  <2>3. BatchHeld' /\ BatchTaken' /\ LateHeld' /\ SentReachedCloud'
    BY <2>1 DEF BatchHeld, BatchTaken, LateHeld, SentReachedCloud, Acceptable
  <2> QED
    BY <2>2, <2>3
<1>2. CASE Reply2xx \/ Reply4xx
  BY <1>2 DEF Reply2xx, Reply4xx, FreshIds, UniqueIds, BatchHeld, BatchTaken,
              LateHeld, SentReachedCloud, Acceptable
<1>3. CASE Reply5xx \/ NetworkError
  <2>1. /\ pc = "post"
        /\ pc' \in {"sleep", "bump"}
        /\ late' = late \cup Abandoned
        /\ UNCHANGED <<nextId, store, sent, batch, cloud, taken>>
    BY <1>3 DEF Reply5xx, NetworkError
  <2>2. Abandoned \subseteq Acceptable(store) /\ Abandoned \subseteq batch
    BY <2>1 DEF Abandoned, Acceptable, BatchHeld
  <2>3. FreshIds' /\ UniqueIds'
    BY <2>1, <2>2 DEF FreshIds, UniqueIds
  <2>4. BatchHeld' /\ BatchTaken' /\ LateHeld' /\ SentReachedCloud'
    BY <2>1, <2>2 DEF BatchHeld, BatchTaken, LateHeld, SentReachedCloud, Acceptable
  <2> QED
    BY <2>3, <2>4
<1>4. CASE CloudTakes
  <2>1. /\ cloud' = cloud \cup Acceptable(batch)
        /\ late' = late \ batch
        /\ pc \in {"post", "beacon"}
        /\ UNCHANGED <<nextId, store, sent, batch, pc>>
    BY <1>4 DEF CloudTakes, loop
  <2>2. Acceptable(batch) \subseteq batch
    BY DEF Acceptable
  <2>3. FreshIds' /\ UniqueIds'
    BY <2>1, <2>2 DEF FreshIds, UniqueIds
  <2>4. BatchHeld' /\ BatchTaken' /\ LateHeld' /\ SentReachedCloud'
    BY <2>1 DEF BatchHeld, BatchTaken, LateHeld, SentReachedCloud, Acceptable
  <2> QED
    BY <2>3, <2>4
<1>5. CASE CloudTakesLate
  BY <1>5 DEF CloudTakesLate, loop, FreshIds, UniqueIds, BatchHeld, BatchTaken,
              LateHeld, SentReachedCloud, Acceptable
<1> QED
  BY <1>1, <1>2, <1>3, <1>4, <1>5

\* Marking a table, the beacon, the ends of a cycle and a restart.
LEMMA CyclePreservesCore ==
  ASSUME TypeOK, CoreInv,
         \/ \E t \in Tables : MarkTable(t) \/ BumpTable(t)
         \/ StaySuspended \/ StartCycle \/ CycleFails
         \/ Drained \/ KeepDraining \/ LoadBeacon \/ BeaconDone \/ Wake
         \/ Crash
  PROVE  CoreInv'
<1> USE DEF CoreInv, db, FreshCycle
<1>1. ASSUME NEW t \in Tables, MarkTable(t) PROVE CoreInv'
  <2>1. /\ sent' = sent \cup Selected(t)
        /\ pc = "mark"
        /\ pc' \in {"mark", "decide"}
        /\ UNCHANGED <<nextId, store, batch, cloud, late, taken>>
    BY <1>1 DEF MarkTable
  <2>2. Selected(t) \subseteq batch
    BY SelectedIsBatch
  <2>3. FreshIds' /\ UniqueIds'
    BY <2>1 DEF FreshIds, UniqueIds
  <2>4. BatchHeld' /\ BatchTaken' /\ LateHeld'
    BY <2>1 DEF BatchHeld, BatchTaken, LateHeld, Acceptable
  <2>5. SentReachedCloud'
    BY <2>1, <2>2 DEF SentReachedCloud, BatchTaken, Acceptable
  <2> QED
    BY <2>3, <2>4, <2>5
<1>2. ASSUME NEW t \in Tables, BumpTable(t) PROVE CoreInv'
  BY <1>2 DEF BumpTable, FreshIds, UniqueIds, BatchHeld, BatchTaken, LateHeld,
              SentReachedCloud, Acceptable
<1>3. CASE StaySuspended \/ StartCycle \/ CycleFails \/ Drained
  BY <1>3 DEF StaySuspended, StartCycle, CycleFails, Drained, FreshIds, UniqueIds,
              BatchHeld, BatchTaken, LateHeld, SentReachedCloud, Acceptable
<1>4. CASE KeepDraining \/ Wake
  BY <1>4 DEF KeepDraining, Wake, FreshIds, UniqueIds, BatchHeld, BatchTaken,
              LateHeld, SentReachedCloud, Acceptable
<1>5. CASE LoadBeacon
  <2>1. batch' \subseteq store \ sent
    BY <1>5 DEF LoadBeacon, Newest, Pending
  <2> QED
    BY <1>5, <2>1 DEF LoadBeacon, FreshIds, UniqueIds, BatchHeld, BatchTaken,
                      LateHeld, SentReachedCloud, Acceptable
<1>6. CASE BeaconDone \/ Crash
  <2>1. /\ late \subseteq late'
        /\ late' \subseteq late \cup (IF pc \in {"post", "beacon"} THEN Abandoned ELSE {})
        /\ pc' = "top" /\ batch' = {} /\ taken' = FALSE
        /\ UNCHANGED <<nextId, store, sent, cloud>>
    BY <1>6 DEF BeaconDone, Crash
  <2>2. pc \in {"post", "beacon"} => Abandoned \subseteq Acceptable(store)
    BY DEF Abandoned, Acceptable, BatchHeld
  <2>3. late' \subseteq late \cup Acceptable(store)
    BY <2>1, <2>2
  <2>4. FreshIds' /\ UniqueIds'
    BY <2>1, <2>3 DEF FreshIds, UniqueIds, Acceptable
  <2>5. BatchHeld' /\ BatchTaken' /\ LateHeld' /\ SentReachedCloud'
    BY <2>1, <2>3 DEF BatchHeld, BatchTaken, LateHeld, SentReachedCloud, Acceptable
  <2> QED
    BY <2>4, <2>5
<1> QED
  BY <1>1, <1>2, <1>3, <1>4, <1>5, <1>6

LEMMA CoreInductive == TypeOK /\ CoreInv /\ [Next]_vars => CoreInv'
<1> SUFFICES ASSUME TypeOK, CoreInv, [Next]_vars PROVE CoreInv'
  OBVIOUS
<1>1. ASSUME UNCHANGED <<nextId, store, sent, pc, batch, taken, cloud, late>>
      PROVE  CoreInv'
  BY <1>1 DEF CoreInv, FreshIds, UniqueIds, BatchHeld, BatchTaken, LateHeld,
              SentReachedCloud, Acceptable
<1>2. CASE Tick \/ ToggleSuspend \/ UNCHANGED vars
  BY <1>1, <1>2 DEF Tick, ToggleSuspend, vars, db, loop
<1> QED
  BY <1>2, InsertPreservesCore, PurgePreservesCore, RequestPreservesCore,
     CyclePreservesCore
  DEF Next, Environment, Uploader

\* However requests, answers, marks, restarts and late arrivals interleave, a
\* row with sent_at_utc set is in the cloud (or of a kind it discards), so the
\* purge, which deletes marked rows only, loses nothing.
THEOREM SentRowsReachedCloud == Spec => []SentReachedCloud
<1>1. CoreInv => SentReachedCloud
  BY DEF CoreInv
<1> QED
  BY CoreInit, CoreInductive, TypeCorrect, <1>1, PTL DEF Spec

-----------------------------------------------------------------------------
(* SyncQueue implements StoreForward.                                      *)

\* An arriving row is one the device holds: the batch is still stored, and a
\* late request brings stored rows or repeats.  A purged row had arrived.
LEMMA StepImplements ==
  TypeOK /\ CoreInv /\ [Next]_vars => [Promise!Next]_Promise!vars
<1> SUFFICES ASSUME TypeOK, CoreInv, [Next]_vars
             PROVE  Promise!Next \/ UNCHANGED <<store, cloud>>
  BY DEF Promise!vars
<1> USE DEF CoreInv
<1>1. ASSUME NEW t \in Tables, Insert(t) PROVE Promise!Next
  <2>1. PICK at \in 0..now :
          /\ store' = store \cup {[table |-> t, id |-> nextId[t], at |-> at]}
          /\ UNCHANGED cloud
    BY <1>1 DEF Insert
  <2> DEFINE r == [table |-> t, id |-> nextId[t], at |-> at]
  <2>2. r \in Row
    BY <1>1, Numbers DEF Insert, TypeOK, DatabaseOK, Row
  <2>3. r \notin store \cup cloud
    <3>1. nextId[t] \in Int
      BY Numbers DEF TypeOK, DatabaseOK
    <3> QED
      BY <3>1 DEF FreshIds
  <2>4. Promise!Enqueue(r)
    BY <2>1, <2>3 DEF Promise!Enqueue
  <2> QED
    BY <2>2, <2>4 DEF Promise!Next
<1>2. CASE Purge
  <2>1. PICK d \in Retentions : store' = store \ Expired(d) /\ UNCHANGED cloud
    BY <1>2 DEF Purge
  <2>2. Expired(d) \subseteq
          store \cap (cloud \cup {r \in Row : r.table \in RefusedTables})
    BY DEF Expired, SentReachedCloud, TypeOK, DatabaseOK
  <2>3. Promise!Forget
    BY <2>1, <2>2 DEF Promise!Forget
  <2> QED
    BY <2>3 DEF Promise!Next
<1>3. CASE CloudTakes
  <2>1. Acceptable(batch) \subseteq store
    BY <1>3 DEF CloudTakes, Acceptable, BatchHeld
  <2>2. cloud' = cloud \cup (Acceptable(batch) \ cloud) /\ UNCHANGED store
    BY <1>3 DEF CloudTakes, db
  <2>3. Promise!Forward
    BY <2>1, <2>2 DEF Promise!Forward
  <2> QED
    BY <2>3 DEF Promise!Next
<1>4. CASE CloudTakesLate
  <2>1. PICK r \in late : cloud' = cloud \cup {r} /\ UNCHANGED store
    BY <1>4 DEF CloudTakesLate, db
  <2>2. {r} \ cloud \subseteq store \ cloud
    BY DEF LateHeld, Acceptable
  <2>3. cloud' = cloud \cup ({r} \ cloud)
    BY <2>1
  <2>4. Promise!Forward
    BY <2>1, <2>2, <2>3 DEF Promise!Forward
  <2> QED
    BY <2>4 DEF Promise!Next
<1> QED
  BY <1>1, <1>2, <1>3, <1>4
  DEF Next, Environment, Uploader, Tick, ToggleSuspend, StaySuspended,
      StartCycle, CycleFails, LoadTable, Reply2xx, Reply4xx, Reply5xx,
      NetworkError, MarkTable, BumpTable, Drained, KeepDraining, LoadBeacon,
      BeaconDone, Wake, Crash, vars, db

\* Seen from outside, the database and the cloud behave as StoreForward says:
\* what arrives was held, and what is forgotten had arrived.
THEOREM Implements == Spec => ImplementsStoreForward
<1>1. Init => Promise!Init
  BY DEF Init, Promise!Init
<1> QED
  BY <1>1, CoreInit, CoreInductive, TypeCorrect, StepImplements, PTL
  DEF Spec, ImplementsStoreForward, Promise!Spec

-----------------------------------------------------------------------------
(* Within a table, rows are sent in order.                                 *)

\* The LIMIT cuts an ordered list: what precedes a loaded row is loaded too.
LEMMA OldestClosed ==
  ASSUME TypeOK, IsFiniteSet(store), NEW t \in Tables,
         NEW r \in Oldest(t), NEW q \in Pending(t), Before(q, r)
  PROVE  q \in Oldest(t)
<1> DEFINE Preceding(x) == {y \in Pending(t) : Before(y, x)}
<1>1. Pending(t) \subseteq store /\ store \subseteq Row
  BY DEF Pending, TypeOK, DatabaseOK
<1>2. \A x \in Row : x.at \in Int /\ x.id \in Int
  BY DEF Row
<1>3. q \in Row /\ r \in Row
  BY <1>1 DEF Oldest
<1>4. ASSUME NEW x \in Preceding(q) PROVE x \in Preceding(r)
  BY <1>1, <1>2, <1>3, <1>4 DEF Before
<1>5. IsFiniteSet(Preceding(r)) /\ IsFiniteSet(Preceding(q))
  BY <1>1, FS_Subset
<1>6. Cardinality(Preceding(q)) <= Cardinality(Preceding(r))
  BY <1>4, <1>5, FS_Subset
<1>7. /\ Cardinality(Preceding(q)) \in Nat
      /\ Cardinality(Preceding(r)) \in Nat
      /\ Limit[t] \in Nat
  BY <1>5, FS_CardinalityType, ConstantsAssumption
<1>8. Cardinality(Preceding(r)) < Limit[t]
  BY DEF Oldest
<1> QED
  BY <1>6, <1>7, <1>8 DEF Oldest

LEMMA FifoInit == Init => FifoInv
BY FS_EmptySet DEF Init, FifoInv, BatchClosed, PerTableFifo

LEMMA FifoInductive == TypeOK /\ CoreInv /\ FifoInv /\ [Next]_vars => FifoInv'
<1> SUFFICES ASSUME TypeOK, CoreInv, FifoInv, [Next]_vars PROVE FifoInv'
  OBVIOUS
<1> USE DEF FifoInv, db
<1>1. ASSUME NEW t \in Tables, Insert(t) PROVE FifoInv'
  <2>1. PICK at \in 0..now :
          store' = store \cup {[table |-> t, id |-> nextId[t], at |-> at]}
    BY <1>1 DEF Insert
  <2>2. UNCHANGED <<sent, batch, pc>>
    BY <1>1 DEF Insert, loop
  <2>3. \A r \in store \cup batch : r.table = t => ~(nextId[t] < r.id)
    <3>1. nextId[t] \in Int /\ \A r \in store \cup batch : r.id \in Int
      BY Numbers DEF TypeOK, DatabaseOK, LoopOK, Row
    <3> QED
      BY <3>1 DEF CoreInv, FreshIds
  <2>4. IsFiniteSet(store')
    BY <2>1, FS_AddElement
  <2>5. BatchClosed'
    BY <2>1, <2>2, <2>3 DEF BatchClosed
  <2>6. PerTableFifo'
    BY <2>1, <2>2, <2>3 DEF PerTableFifo, TypeOK, DatabaseOK
  <2> QED
    BY <2>4, <2>5, <2>6
<1>2. CASE Purge
  <2>1. PICK d \in Retentions :
          /\ store' = store \ Expired(d)
          /\ sent' = sent \ Expired(d)
          /\ UNCHANGED <<batch, pc>>
    BY <1>2 DEF Purge, loop
  <2>2. Expired(d) \subseteq sent
    BY DEF Expired
  <2>3. store' \ sent' \subseteq store \ sent
    BY <2>1, <2>2
  <2>4. IsFiniteSet(store')
    BY <2>1, FS_Subset
  <2> QED
    BY <2>1, <2>3, <2>4 DEF BatchClosed, PerTableFifo
<1>3. ASSUME NEW t \in Tables, LoadTable(t) PROVE FifoInv'
  <2>1. /\ batch' = batch \cup Oldest(t)
        /\ pc = "load"
        /\ UNCHANGED <<store, sent>>
    BY <1>3 DEF LoadTable
  <2>2. ASSUME NEW r \in Oldest(t), NEW q \in store \ sent,
               q.table = r.table, q.id < r.id, q.at <= r.at
        PROVE  q \in Oldest(t)
    <3>1. q \in Pending(t) /\ r \in Row /\ q \in Row
      BY <2>2 DEF Oldest, Pending, TypeOK, DatabaseOK
    <3>2. Before(q, r)
      BY <2>2, <3>1 DEF Before, Row
    <3> QED
      BY <3>1, <3>2, OldestClosed
  <2>3. BatchClosed'
    BY <2>1, <2>2 DEF BatchClosed
  <2> QED
    BY <2>1, <2>3 DEF PerTableFifo
<1>4. ASSUME NEW t \in Tables, MarkTable(t) PROVE FifoInv'
  <2>1. /\ sent' = sent \cup Selected(t)
        /\ pc = "mark"
        /\ UNCHANGED <<store, batch>>
    BY <1>4 DEF MarkTable
  <2>2. Selected(t) = {r \in batch \cap store : r.table = t}
    BY SelectedIsBatch DEF CoreInv
  <2>3. BatchClosed'
    BY <2>1 DEF BatchClosed
  <2>4. ASSUME NEW r \in sent', NEW q \in store \ sent',
               q.table = r.table, q.id < r.id
        PROVE  q.at > r.at
    <3>1. CASE r \in sent
      BY <2>1, <2>4, <3>1 DEF PerTableFifo
    <3>2. CASE r \in Selected(t)
      <4>1. q.at \in Int /\ r.at \in Int
        BY <2>2, <3>2 DEF TypeOK, DatabaseOK, Row
      <4>2. ~(q.at <= r.at)
        BY <2>1, <2>2, <2>4, <3>2 DEF BatchClosed
      <4> QED
        BY <4>1, <4>2
    <3> QED
      BY <2>1, <3>1, <3>2
  <2> QED
    BY <2>1, <2>3, <2>4 DEF PerTableFifo
<1>5. ASSUME UNCHANGED <<store, sent>>,
             pc' \in {"load", "post", "mark", "bump"} =>
               /\ pc \in {"load", "post", "mark", "bump"}
               /\ batch' = batch
      PROVE  FifoInv'
  BY <1>5 DEF BatchClosed, PerTableFifo
<1>6. CASE StartCycle
  BY <1>6 DEF StartCycle, CoreInv, BatchHeld, BatchClosed, PerTableFifo
<1> QED
  BY <1>1, <1>2, <1>3, <1>4, <1>5, <1>6
  DEF Next, Environment, Uploader, Tick, ToggleSuspend, StaySuspended,
      CycleFails, Reply2xx, Reply4xx, Reply5xx, NetworkError, BumpTable,
      Drained, KeepDraining, LoadBeacon, BeaconDone, Wake, Crash, CloudTakes,
      CloudTakesLate, vars, loop

\* Whatever the batch limits and wherever a cycle or the process stops, a row is
\* never sent while a row of its table that was stored before it and captured
\* no later is still pending.
THEOREM RowsSentInOrder == Spec => []PerTableFifo
<1>1. FifoInv => PerTableFifo
  BY DEF FifoInv
<1> QED
  BY CoreInit, CoreInductive, TypeCorrect, FifoInit, FifoInductive, <1>1, PTL
  DEF Spec

-----------------------------------------------------------------------------
(* A backlog is not mistaken for an empty queue.                           *)

LEMMA SmallestNat ==
  ASSUME NEW S, S \subseteq Nat, S # {}
  PROVE  \E x \in S : \A y \in S : x <= y
<1>1. PICK x \in S : \A y \in S : <<y, x>> \notin OpToRel(<, Nat)
  BY NatLessThanWellFounded, WFMin
<1>2. ASSUME NEW y \in S
      PROVE  x <= y
  <2>1. x \in Nat /\ y \in Nat
    OBVIOUS
  <2>2. <<y, x>> \in Nat \X Nat /\ <<y, x>>[1] = y /\ <<y, x>>[2] = x
    BY <2>1
  <2>3. ~(y < x)
    BY <1>1, <2>2, Zenon DEF OpToRel
  <2> QED
    BY <2>1, <2>3
<1> QED
  BY <1>2

\* A read below the limit was a read to the end.
LEMMA UnsaturatedIsAll ==
  ASSUME TypeOK, IsFiniteSet(store), NEW t \in Tables, ~Saturated(t)
  PROVE  Pending(t) \subseteq Oldest(t)
<1> DEFINE Preceding(r) == {q \in Pending(t) : Before(q, r)}
           Left == Pending(t) \ Oldest(t)
<1>1. Pending(t) \subseteq store /\ Oldest(t) \subseteq Pending(t)
  BY DEF Pending, Oldest
<1>2. /\ \A r : IsFiniteSet(Preceding(r)) /\ Cardinality(Preceding(r)) \in Nat
      /\ IsFiniteSet(Oldest(t)) /\ Cardinality(Oldest(t)) \in Nat
  BY <1>1, FS_Subset, FS_CardinalityType
<1>3. Limit[t] \in Nat /\ Cardinality(Oldest(t)) < Limit[t]
  BY <1>2, ConstantsAssumption DEF Saturated
<1>4. SUFFICES ASSUME Left # {}
               PROVE  FALSE
  OBVIOUS
<1>5. PICK r \in Left :
        \A q \in Left : Cardinality(Preceding(r)) <= Cardinality(Preceding(q))
  <2> DEFINE Counts == {Cardinality(Preceding(q)) : q \in Left}
  <2>1. Counts \subseteq Nat /\ Counts # {}
    BY <1>2, <1>4
  <2> HIDE DEF Counts
  <2>2. PICK n \in Counts : \A m \in Counts : n <= m
    BY <2>1, SmallestNat
  <2> QED
    BY <2>2 DEF Counts
<1>6. ASSUME NEW q \in Preceding(r), q \in Left
      PROVE  FALSE
  <2>1. {q, r} \subseteq Row
    BY <1>1, <1>6 DEF TypeOK, DatabaseOK
  <2>2. Pending(t) \subseteq Row
    BY <1>1 DEF TypeOK, DatabaseOK
  <2>3. Before(q, r) /\ ~Before(q, q)
    BY <1>6, <2>1 DEF Before, Row
  <2>4. Preceding(q) \subseteq Preceding(r)
    BY <2>1, <2>2, <2>3 DEF Before, Row
  <2>5. q \in Preceding(r) \ Preceding(q)
    BY <1>6, <2>3
  <2>6. Cardinality(Preceding(q)) < Cardinality(Preceding(r))
    <3>1. Preceding(q) # Preceding(r)
      BY <2>5
    <3>2. \A A, B : IsFiniteSet(B) /\ A \subseteq B /\ A # B
                      => Cardinality(A) < Cardinality(B)
      BY FS_Subset, FS_CardinalityType
    <3> HIDE DEF Preceding
    <3> QED BY <3>1, <3>2, <2>4, <1>2
  <2>7. Cardinality(Preceding(q)) \in Nat /\ Cardinality(Preceding(r)) \in Nat
    BY <1>2
  <2>8. Cardinality(Preceding(r)) <= Cardinality(Preceding(q))
    BY <1>5, <1>6
  <2> HIDE DEF Preceding
  <2> QED
    BY <2>6, <2>7, <2>8
<1>7. Preceding(r) \subseteq Oldest(t)
  BY <1>6
<1>8. Cardinality(Preceding(r)) <= Cardinality(Oldest(t))
  BY <1>2, <1>7, FS_Subset
<1>9. r \in Oldest(t)
  <2>1. Cardinality(Preceding(r)) < Limit[t]
    <3> HIDE DEF Preceding
    <3> QED BY <1>2, <1>3, <1>8
  <2>2. r \in Pending(t)
    OBVIOUS
  <2> QED
    BY <2>1, <2>2, Zenon DEF Oldest
<1> QED
  BY <1>9

LEMMA DrainedInit == Init => DrainedInv
<1> SUFFICES ASSUME Init
             PROVE  DrainedInv
  OBVIOUS
<1>1. CycleStarts
  BY DEF Init, CycleStarts
<1> QED
  BY <1>1 DEF Init, DrainedInv, ReadComplete, MarkedSoFar, DrainedMeansDrained

LEMMA DrainedInductive ==
  TypeOK /\ CoreInv /\ IsFiniteSet(store) /\ DrainedInv /\ [Next]_vars
    => DrainedInv'
<1> SUFFICES ASSUME TypeOK, CoreInv, IsFiniteSet(store), DrainedInv, [Next]_vars
             PROVE  DrainedInv'
  OBVIOUS
<1> USE DEF DrainedInv
<1>1. /\ \A t \in Tables : horizon[t] \in Int /\ nextId[t] \in Int
      /\ \A q \in store \cup batch : q \in Row /\ q.table \in Tables /\ q.id \in Int
      /\ tab \in Int
  BY Numbers DEF TypeOK, DatabaseOK, LoopOK, OutsideOK, Row
<1>2. ASSUME NEW t \in Tables, Insert(t) PROVE DrainedInv'
  <2>1. PICK at \in 0..now :
          store' = store \cup {[table |-> t, id |-> nextId[t], at |-> at]}
    BY <1>2 DEF Insert
  <2>2. /\ UNCHANGED <<sent, pc, tab, batch, more, horizon>>
        /\ nextId' = [nextId EXCEPT ![t] = @ + 1]
    BY <1>2 DEF Insert, loop, history
  <2>3. ~(nextId[t] < horizon[t])
    BY <1>1 DEF CycleStarts
  <2>4. CycleStarts'
    BY <1>1, <2>2 DEF CycleStarts, TypeOK, DatabaseOK
  <2>5. ReadComplete'
    BY <2>1, <2>2, <2>3 DEF ReadComplete
  <2>6. MarkedSoFar'
    <3>1. [table |-> t, id |-> nextId[t], at |-> at] \notin batch
      BY <1>1 DEF CoreInv, FreshIds
    <3> QED
      BY <2>1, <2>2, <3>1 DEF MarkedSoFar
  <2>7. DrainedMeansDrained'
    BY <1>1, <2>1, <2>2, <2>3 DEF DrainedMeansDrained
  <2> QED
    BY <2>4, <2>5, <2>6, <2>7
<1>3. CASE Purge
  <2>1. PICK d \in Retentions :
          /\ store' = store \ Expired(d)
          /\ sent' = sent \ Expired(d)
          /\ UNCHANGED <<nextId, pc, tab, batch, more, horizon>>
    BY <1>3 DEF Purge, loop, history
  <2>2. store' \ sent' \subseteq store \ sent
    BY <2>1 DEF Expired
  <2>3. MarkedSoFar'
    BY <2>1 DEF MarkedSoFar
  <2> QED
    BY <2>1, <2>2, <2>3 DEF CycleStarts, ReadComplete, DrainedMeansDrained
<1>4. ASSUME NEW t \in Tables, LoadTable(t) PROVE DrainedInv'
  <2>1. /\ pc = "load" /\ tab = t /\ tab' = t + 1
        /\ batch' = batch \cup Oldest(t)
        /\ more' = (more \/ Saturated(t))
        /\ horizon' = [horizon EXCEPT ![t] = nextId[t]]
        /\ UNCHANGED <<nextId, store, sent>>
    BY <1>4 DEF LoadTable, db
  <2>2. \/ t < NumTables /\ pc' = "load"
        \/ t = NumTables /\ pc' \in {"sleep", "post"}
    BY <1>4, Numbers DEF LoadTable
  <2>3. CycleStarts'
    BY <1>1, <2>1, <2>2 DEF CycleStarts, TypeOK, OutsideOK
  <2>4. ReadComplete'
    <3> SUFFICES ASSUME pc' \in {"load", "post"}, ~more',
                        NEW q \in store \ sent, q.id < horizon'[q.table],
                        pc' = "load" => q.table < tab'
                 PROVE  q \in batch'
      BY <2>1, <2>2 DEF ReadComplete
    <3>1. q.table \in 1..NumTables
      BY <1>1, Numbers
    <3>2. q.table <= t
      BY <2>1, <2>2, <3>1, Numbers
    <3>3. CASE q.table = t
      <4>1. q \in Pending(t)
        BY <3>3 DEF Pending
      <4> QED
        BY <2>1, <4>1, UnsaturatedIsAll
    <3>4. CASE q.table # t
      <4>1. q.table < tab /\ horizon'[q.table] = horizon[q.table]
        BY <2>1, <3>1, <3>2, <3>4, Numbers DEF TypeOK, OutsideOK
      <4> QED
        BY <2>1, <4>1 DEF ReadComplete
    <3> QED
      BY <3>3, <3>4
  <2> QED
    BY <2>2, <2>3, <2>4 DEF MarkedSoFar, DrainedMeansDrained
<1>5. ASSUME NEW t \in Tables, MarkTable(t) PROVE DrainedInv'
  <2>1. /\ pc = "mark" /\ tab = t /\ tab' = t + 1
        /\ sent' = sent \cup Selected(t)
        /\ UNCHANGED <<nextId, store, batch, more, horizon>>
    BY <1>5 DEF MarkTable
  <2>2. \/ t < NumTables /\ pc' = "mark"
        \/ t = NumTables /\ pc' = "decide"
    BY <1>5, Numbers DEF MarkTable
  <2>3. Selected(t) = {r \in batch \cap store : r.table = t}
    BY SelectedIsBatch DEF CoreInv
  <2>4. ASSUME NEW r \in batch \cap store, r.table < t + 1
        PROVE  r \in sent'
    <3>1. r.table = t \/ r.table < t
      BY <1>1, <2>4, Numbers
    <3> QED
      BY <2>1, <2>3, <3>1 DEF MarkedSoFar
  <2>5. MarkedSoFar'
    BY <2>1, <2>4 DEF MarkedSoFar
  <2>6. ReadComplete'
    BY <2>1, <2>2 DEF ReadComplete
  <2>7. DrainedMeansDrained'
    <3>1. ASSUME t = NumTables, ~more,
                 NEW q \in store \ sent', q.id < horizon[q.table]
          PROVE  FALSE
      <4>1. q \in batch
        BY <2>1, <3>1 DEF ReadComplete
      <4>2. q.table < t + 1
        BY <1>1, <3>1, Numbers
      <4> QED
        BY <2>4, <4>1, <4>2
    <3>2. \A q \in store : ~(q.id < horizon[q.table]) => q.id >= horizon[q.table]
      BY <1>1
    <3>3. pc' = "decide" => t = NumTables
      BY <2>2
    <3> QED
      BY <2>1, <3>1, <3>2, <3>3 DEF DrainedMeansDrained
  <2>8. CycleStarts'
    BY <2>1, <2>2 DEF CycleStarts
  <2> QED
    BY <2>5, <2>6, <2>7, <2>8
<1>6. CASE Reply2xx
  <2>1. /\ pc = "post" /\ pc' = "mark" /\ tab' = 1
        /\ UNCHANGED <<nextId, store, sent, batch, more, horizon>>
    BY <1>6 DEF Reply2xx, db, history
  <2>2. ~(\E r \in batch \cap store : r.table < 1)
    BY <1>1, Numbers
  <2>3. MarkedSoFar'
    BY <2>1, <2>2 DEF MarkedSoFar
  <2> QED
    BY <2>1, <2>3 DEF CycleStarts, ReadComplete, DrainedMeansDrained
<1>7. CASE StartCycle
  <2>1. /\ tab = 1 /\ pc' = "load"
        /\ UNCHANGED <<nextId, store, sent, tab, batch, more, horizon>>
    BY <1>7 DEF StartCycle, CycleStarts, db, history
  <2>2. ~(\E q \in store : q.table < 1)
    BY <1>1, Numbers
  <2>3. ReadComplete'
    BY <2>1, <2>2 DEF ReadComplete
  <2> QED
    BY <2>1, <2>3 DEF CycleStarts, MarkedSoFar, DrainedMeansDrained
<1>8. ASSUME UNCHANGED <<nextId, store, sent, horizon>>,
             pc' \notin {"load", "post", "mark", "decide"},
             pc' = "top" => tab' = 1
      PROVE  DrainedInv'
  BY <1>8 DEF CycleStarts, ReadComplete, MarkedSoFar, DrainedMeansDrained
<1>9. ASSUME UNCHANGED <<nextId, store, sent, horizon, pc, tab, batch, more>>
      PROVE  DrainedInv'
  BY <1>9 DEF CycleStarts, ReadComplete, MarkedSoFar, DrainedMeansDrained
<1>10. CASE Reply4xx \/ Reply5xx \/ NetworkError \/ CycleFails \/ Drained
              \/ KeepDraining \/ LoadBeacon \/ BeaconDone \/ Wake \/ Crash
              \/ \E t \in Tables : BumpTable(t)
  BY <1>8, <1>10
  DEF Reply4xx, Reply5xx, NetworkError, CycleFails, Drained, KeepDraining,
      LoadBeacon, BeaconDone, Wake, Crash, BumpTable, FreshCycle, db, history
<1>11. CASE Tick \/ ToggleSuspend \/ StaySuspended \/ CloudTakes
              \/ CloudTakesLate \/ UNCHANGED vars
  BY <1>9, <1>11
  DEF Tick, ToggleSuspend, StaySuspended, CloudTakes, CloudTakesLate, vars,
      db, loop, history
<1> QED
  BY <1>2, <1>3, <1>4, <1>5, <1>6, <1>7, <1>10, <1>11
  DEF Next, Environment, Uploader

\* A cycle that finds nothing more to do and goes to sleep for the whole
\* interval has marked every row that was stored when its table was read.
THEOREM DrainedIsDrained == Spec => []DrainedMeansDrained
<1>1. FifoInv => IsFiniteSet(store)
  BY DEF FifoInv
<1>2. DrainedInv => DrainedMeansDrained
  BY DEF DrainedInv
<1> QED
  BY CoreInit, CoreInductive, TypeCorrect, FifoInit, FifoInductive,
     DrainedInit, DrainedInductive, <1>1, <1>2, PTL
  DEF Spec

-----------------------------------------------------------------------------
(* Nothing is uploaded twice without a cause.                              *)

LEMMA RepeatInit == Init => RepeatInv
  BY DEF Init, RepeatInv, PendingExcused, CloudAccepts, BeingMarked, Acceptable

\* What may arrive after the client gave up belongs to its batch.
LEMMA AbandonedInBatch == Abandoned \subseteq Acceptable(batch)
  BY DEF Abandoned, Acceptable

LEMMA RepeatInductive ==
  TypeOK /\ CoreInv /\ DrainedInv /\ RepeatInv /\ [Next]_vars => RepeatInv'
<1> SUFFICES ASSUME TypeOK, CoreInv, DrainedInv, RepeatInv, [Next]_vars
             PROVE  RepeatInv'
  OBVIOUS
<1> USE DEF RepeatInv, PendingExcused
<1>1. ASSUME UNCHANGED cloud PROVE CloudAccepts'
  BY <1>1 DEF CloudAccepts, Acceptable
<1>2. ASSUME NEW t \in Tables, Insert(t) PROVE RepeatInv'
  <2>1. PICK at \in 0..now :
          store' = store \cup {[table |-> t, id |-> nextId[t], at |-> at]}
    BY <1>2 DEF Insert
  <2>2. UNCHANGED <<sent, pc, batch, taken, cloud, late, excused>>
    BY <1>2 DEF Insert, loop, history
  <2>3. [table |-> t, id |-> nextId[t], at |-> at] \notin cloud \cup late
    <3>1. nextId[t] \in Int
      BY Numbers DEF TypeOK, DatabaseOK
    <3> QED
      BY <3>1 DEF CoreInv, FreshIds
  <2> QED
    BY <1>1, <2>1, <2>2, <2>3 DEF BeingMarked
<1>3. CASE Purge
  <2>1. PICK d \in Retentions :
          /\ store' = store \ Expired(d)
          /\ sent' = sent \ Expired(d)
          /\ UNCHANGED <<pc, batch, taken, cloud, late, excused>>
    BY <1>3 DEF Purge, loop, history
  <2>2. store' \ sent' \subseteq store \ sent
    BY <2>1 DEF Expired
  <2> QED
    BY <1>1, <2>1, <2>2 DEF BeingMarked
<1>4. CASE CloudTakes
  <2>1. /\ pc \in {"post", "beacon"} /\ taken' = TRUE
        /\ cloud' = cloud \cup Acceptable(batch)
        /\ late' = late \ batch
        /\ UNCHANGED <<store, sent, pc, batch, excused>>
    BY <1>4 DEF CloudTakes, db, loop, history
  <2>2. CloudAccepts'
    BY <2>1 DEF CloudAccepts, Acceptable
  <2>3. (store \ sent) \cap cloud' \subseteq excused \cup BeingMarked'
    <3>1. Acceptable(batch) \subseteq excused \cup BeingMarked'
      BY <2>1 DEF Acceptable, BeingMarked
    <3>2. BeingMarked \subseteq BeingMarked'
      BY <2>1 DEF BeingMarked
    <3> QED
      BY <2>1, <3>1, <3>2
  <2> QED
    BY <2>1, <2>2, <2>3
<1>5. CASE CloudTakesLate
  <2>1. PICK r \in late :
          /\ cloud' = cloud \cup {r}
          /\ late' = late \ {r}
          /\ UNCHANGED <<store, sent, pc, batch, taken, excused>>
    BY <1>5 DEF CloudTakesLate, db, loop, history
  <2>2. CloudAccepts'
    BY <2>1 DEF CloudAccepts, Acceptable, CoreInv, LateHeld
  <2> QED
    BY <2>1, <2>2 DEF BeingMarked
<1>6. CASE Reply2xx
  BY <1>1, <1>6 DEF Reply2xx, BeingMarked, db, history
<1>7. CASE Reply4xx
  <2>1. /\ pc = "post" /\ pc' = "bump"
        /\ ~taken \/ Acceptable(batch) = {}
        /\ UNCHANGED <<store, sent, batch, taken, cloud, late, excused>>
    BY <1>7 DEF Reply4xx, db, history
  <2>2. batch \cap cloud \subseteq Acceptable(batch)
    BY DEF CloudAccepts, Acceptable
  <2>3. BeingMarked \cap cloud = {}
    BY <2>1, <2>2 DEF BeingMarked
  <2> QED
    BY <1>1, <2>1, <2>3
<1>8. ASSUME UNCHANGED <<store, sent, cloud>>,
             late' \subseteq late \cup (excused' \cap batch),
             excused \cup (BeingMarked \ sent) \subseteq excused',
             pc' = "beacon" => batch' \subseteq excused'
      PROVE  RepeatInv'
  BY <1>1, <1>8
<1>9. CASE Reply5xx \/ NetworkError
  BY <1>8, <1>9, AbandonedInBatch
  DEF Reply5xx, NetworkError, BeingMarked, Acceptable, db
<1>10. CASE CycleFails
  BY <1>8, <1>10 DEF CycleFails, BeingMarked, db
<1>11. CASE LoadBeacon
  BY <1>8, <1>11 DEF LoadBeacon, BeingMarked, db
<1>12. CASE BeaconDone
  BY <1>8, <1>12, AbandonedInBatch
  DEF BeaconDone, BeingMarked, Acceptable, db, history
<1>13. CASE Crash
  <2>1. pc \in {"post", "beacon"} => Abandoned \ sent \subseteq excused'
    BY <1>13, AbandonedInBatch DEF Crash, Acceptable
  <2>2. late' \subseteq late \cup Abandoned
    BY <1>13 DEF Crash
  <2>3. pc \in {"post", "beacon"} => batch \cap sent = {}
    BY DEF CoreInv, BatchHeld
  <2>4. late' \subseteq late \cup (excused' \cap batch)
    BY <1>13, <2>1, <2>3, AbandonedInBatch DEF Crash, Acceptable
  <2> QED
    BY <1>8, <1>13, <2>4 DEF Crash, BeingMarked, db
<1>14. ASSUME NEW t \in Tables, LoadTable(t) PROVE RepeatInv'
  <2>1. ~taken
    BY <1>14 DEF LoadTable, CoreInv, BatchTaken
  <2> QED
    BY <1>8, <1>14, <2>1 DEF LoadTable, BeingMarked, db
<1>15. ASSUME NEW t \in Tables, MarkTable(t) PROVE RepeatInv'
  <2>1. /\ pc = "mark" /\ tab = t
        /\ sent' = sent \cup Selected(t)
        /\ excused' = excused \ Selected(t)
        /\ UNCHANGED <<store, batch, taken, cloud, late>>
    BY <1>15 DEF MarkTable
  <2>2. Selected(t) = {r \in batch \cap store : r.table = t}
    BY SelectedIsBatch DEF CoreInv
  <2>3. \/ pc' = "mark"
        \/ pc' = "decide" /\ t = NumTables
    BY <1>15, Numbers DEF MarkTable
  <2>4. ASSUME t = NumTables, NEW r \in batch \cap store
        PROVE  r \in sent'
    <3>1. r.table \in 1..NumTables
      BY Numbers DEF TypeOK, DatabaseOK, Row
    <3>2. r.table = t \/ r.table < t
      BY <2>4, <3>1, Numbers
    <3> QED
      BY <2>1, <2>2, <3>2 DEF DrainedInv, MarkedSoFar
  <2>5. (store \ sent') \cap batch \subseteq BeingMarked'
    BY <2>1, <2>3, <2>4 DEF BeingMarked
  <2> QED
    BY <1>1, <2>1, <2>3, <2>5 DEF BeingMarked
<1>16. CASE StartCycle \/ StaySuspended \/ KeepDraining \/ Wake \/ Drained
              \/ \E t \in Tables : BumpTable(t)
  BY <1>8, <1>16
  DEF StartCycle, StaySuspended, KeepDraining, Wake, Drained, BumpTable,
      BeingMarked, db, history
<1>17. CASE Tick \/ ToggleSuspend \/ UNCHANGED vars
  BY <1>1, <1>17 DEF Tick, ToggleSuspend, BeingMarked, vars, db, loop, history
<1> QED
  BY <1>2, <1>3, <1>4, <1>5, <1>6, <1>7, <1>9, <1>10, <1>11, <1>12, <1>13,
     <1>14, <1>15, <1>16, <1>17
  DEF Next, Environment, Uploader

\* Without a lost or 5xx answer, a failed mark, a restart or the beacon, the
\* loop never posts a row the cloud already has.
THEOREM RepeatsHaveCause == Spec => []NoNeedlessReupload
<1>1. FifoInv => IsFiniteSet(store)
  BY DEF FifoInv
<1>2. CoreInv /\ RepeatInv => NoNeedlessReupload
  BY DEF CoreInv, BatchHeld, RepeatInv, PendingExcused, BeingMarked,
         NoNeedlessReupload
<1> QED
  BY CoreInit, CoreInductive, TypeCorrect, FifoInit, FifoInductive,
     DrainedInit, DrainedInductive, RepeatInit, RepeatInductive, <1>1, <1>2,
     PTL
  DEF Spec

-----------------------------------------------------------------------------
(* A request never exceeds the batch limits.                               *)

BatchOf(t) == {r \in batch : r.table = t}

\* Rows of one table are totally ordered: the ids break ties.
LEMMA PendingOrdered ==
  ASSUME TypeOK, UniqueIds, NEW t \in Tables,
         NEW q \in Pending(t), NEW r \in Pending(t), q # r
  PROVE  Before(q, r) \/ Before(r, q)
<1>1. q \in Row /\ r \in Row /\ q \in store /\ r \in store /\ q.table = r.table
  BY DEF Pending, TypeOK, DatabaseOK
<1>2. q.id # r.id
  BY <1>1 DEF UniqueIds
<1>3. q.at \in Int /\ r.at \in Int /\ q.id \in Int /\ r.id \in Int
  BY <1>1 DEF Row
<1> QED BY <1>2, <1>3 DEF Before

\* How many pending rows come before a row tells it from every other.
LEMMA PrecedingCount ==
  ASSUME TypeOK, UniqueIds, IsFiniteSet(store), NEW t \in Tables,
         NEW q \in Pending(t), NEW r \in Pending(t), Before(q, r)
  PROVE  Cardinality({x \in Pending(t) : Before(x, q)})
           < Cardinality({x \in Pending(t) : Before(x, r)})
<1> DEFINE Preceding(y) == {x \in Pending(t) : Before(x, y)}
<1>1. Pending(t) \subseteq store /\ store \subseteq Row
  BY DEF Pending, TypeOK, DatabaseOK
<1>2. \A x \in Row : x.at \in Int /\ x.id \in Int
  BY DEF Row
<1>3. Preceding(q) \subseteq Preceding(r)
  BY <1>1, <1>2 DEF Before
<1>4. q \in Preceding(r) /\ q \notin Preceding(q)
  BY <1>1, <1>2 DEF Before
<1>5. IsFiniteSet(Preceding(r)) /\ IsFiniteSet(Preceding(q))
  BY <1>1, FS_Subset
<1>6. /\ Cardinality(Preceding(q)) <= Cardinality(Preceding(r))
      /\ Cardinality(Preceding(q)) # Cardinality(Preceding(r))
  BY <1>3, <1>4, <1>5, FS_Subset
<1>7. Cardinality(Preceding(q)) \in Nat /\ Cardinality(Preceding(r)) \in Nat
  BY <1>5, FS_CardinalityType
<1> QED BY <1>6, <1>7

\* _load_pending_rows returns no more than its LIMIT.
LEMMA OldestBounded ==
  ASSUME TypeOK, UniqueIds, IsFiniteSet(store), NEW t \in Tables
  PROVE  IsFiniteSet(Oldest(t)) /\ Cardinality(Oldest(t)) <= Limit[t]
<1> DEFINE Rank(r) == Cardinality({q \in Pending(t) : Before(q, r)})
           rank == [r \in Oldest(t) |-> Rank(r)]
<1>1. Limit[t] \in Nat \ {0}
  BY ConstantsAssumption
<1>2. Oldest(t) \subseteq Pending(t) /\ Pending(t) \subseteq store
  BY DEF Oldest, Pending
<1>3. \A r \in Oldest(t) : Rank(r) \in 0..(Limit[t] - 1)
  <2> TAKE r \in Oldest(t)
  <2>1. Rank(r) \in Nat
    BY <1>2, FS_Subset, FS_CardinalityType
  <2>2. Rank(r) < Limit[t]
    BY DEF Oldest
  <2> QED BY <1>1, <2>1, <2>2
<1>4. \A q, r \in Oldest(t) : q # r => Rank(q) # Rank(r)
  <2> SUFFICES ASSUME NEW q \in Oldest(t), NEW r \in Oldest(t), q # r
               PROVE  Rank(q) # Rank(r)
    OBVIOUS
  <2>1. Before(q, r) \/ Before(r, q)
    BY <1>2, PendingOrdered
  <2>2. Rank(q) < Rank(r) \/ Rank(r) < Rank(q)
    BY <1>2, <2>1, PrecedingCount
  <2> QED BY <1>3, <2>2
<1> HIDE DEF Rank
<1>5. rank \in Injection(Oldest(t), 0..(Limit[t] - 1))
  BY <1>3, <1>4 DEF Injection, IsInjective
<1>6. /\ IsFiniteSet(0..(Limit[t] - 1))
      /\ Cardinality(0..(Limit[t] - 1)) = Limit[t]
  <2>1. /\ 0 \in Int /\ Limit[t] - 1 \in Int /\ ~(0 > Limit[t] - 1)
        /\ Limit[t] - 1 - 0 + 1 = Limit[t]
    BY <1>1
  <2>2. IsFiniteSet(0..(Limit[t] - 1))
    BY <2>1, FS_Interval
  <2>3. Cardinality(0..(Limit[t] - 1)) = Limit[t] - 1 - 0 + 1
    BY <2>1, FS_Interval, Zenon
  <2> QED BY <2>1, <2>2, <2>3
<1> QED BY <1>5, <1>6, FS_Injection

\* The newest pending row is one row, if there is any.
LEMMA NewestIsOne ==
  ASSUME TypeOK, UniqueIds, NEW t \in Tables
  PROVE  \A q, r \in Newest(t) : q = r
  BY PendingOrdered DEF Newest

\* A cycle's rows of a table are all read at once, and only then.
LoadedSoFar == pc \in {"top", "load"} => \A r \in batch : r.table < tab

BoundedInv ==
  /\ LoadedSoFar
  /\ \A t \in Tables :
       IsFiniteSet(BatchOf(t)) /\ Cardinality(BatchOf(t)) <= Limit[t]

LEMMA EmptyBounded ==
  ASSUME batch = {}
  PROVE  BoundedInv
<1>1. \A t \in Tables : Limit[t] \in Nat \ {0}
  BY ConstantsAssumption
<1> QED BY <1>1, FS_EmptySet DEF BoundedInv, LoadedSoFar, BatchOf

LEMMA LoadBounded ==
  ASSUME TypeOK, CoreInv, FifoInv, BoundedInv, NEW t \in Tables, LoadTable(t)
  PROVE  BoundedInv'
<1>1. pc = "load" /\ tab = t /\ batch' = batch \cup Oldest(t) /\ tab' = t + 1
  BY DEF LoadTable
<1>2. t \in Nat
  BY Numbers
<1>3. \A r \in Oldest(t) : r.table = t
  BY DEF Oldest, Pending
<1>4. \A r \in batch : r.table < t /\ r.table \in Nat
  BY <1>1, Numbers DEF BoundedInv, LoadedSoFar, TypeOK, LoopOK, Row
<1>5. LoadedSoFar'
  BY <1>1, <1>2, <1>3, <1>4 DEF LoadedSoFar
<1>6. BatchOf(t)' = Oldest(t)
  BY <1>1, <1>2, <1>3, <1>4 DEF BatchOf
<1>7. \A u \in Tables : u # t => BatchOf(u)' = BatchOf(u)
  BY <1>1, <1>3 DEF BatchOf
<1>8. IsFiniteSet(Oldest(t)) /\ Cardinality(Oldest(t)) <= Limit[t]
  BY OldestBounded DEF CoreInv, FifoInv
<1> QED BY <1>5, <1>6, <1>7, <1>8 DEF BoundedInv

LEMMA BeaconBounded ==
  ASSUME TypeOK, CoreInv, LoadBeacon
  PROVE  BoundedInv'
<1>1. pc' = "beacon" /\ batch' = UNION {Newest(t) : t \in BeaconTables}
  BY DEF LoadBeacon
<1>2. ASSUME NEW t \in Tables
      PROVE  IsFiniteSet(BatchOf(t)') /\ Cardinality(BatchOf(t)') <= Limit[t]
  <2>1. \A u \in Tables : \A r \in Newest(u) : r.table = u
    BY DEF Newest, Pending
  <2>2. BeaconTables \subseteq Tables /\ Limit[t] \in Nat \ {0}
    BY ConstantsAssumption
  <2>3. BatchOf(t)' \subseteq Newest(t)
    BY <1>1, <2>1, <2>2 DEF BatchOf
  <2>4. \A q, r \in BatchOf(t)' : q = r
    BY <2>3, NewestIsOne DEF CoreInv
  <2>5. BatchOf(t)' = {} \/ \E r : BatchOf(t)' = {r}
    BY <2>4
  <2>6. IsFiniteSet(BatchOf(t)')
        /\ (Cardinality(BatchOf(t)') = 0 \/ Cardinality(BatchOf(t)') = 1)
    BY <2>5, FS_EmptySet, FS_Singleton
  <2> QED BY <2>2, <2>6
<1> QED BY <1>1, <1>2 DEF BoundedInv, LoadedSoFar

LEMMA BoundedInductive ==
  TypeOK /\ CoreInv /\ FifoInv /\ BoundedInv /\ [Next]_vars => BoundedInv'
<1> SUFFICES ASSUME TypeOK, CoreInv, FifoInv, BoundedInv, [Next]_vars
             PROVE  BoundedInv'
  OBVIOUS
<1>1. ASSUME batch' = {} PROVE BoundedInv'
  <2>1. \A t \in Tables : Limit[t] \in Nat \ {0}
    BY ConstantsAssumption
  <2> QED BY <1>1, <2>1, FS_EmptySet DEF BoundedInv, LoadedSoFar, BatchOf
<1>2. ASSUME UNCHANGED batch,
             pc' \in {"top", "load"} => pc \in {"top", "load"} /\ tab' = tab
      PROVE  BoundedInv'
  BY <1>2 DEF BoundedInv, LoadedSoFar, BatchOf
<1>3. ASSUME NEW t \in Tables, LoadTable(t) PROVE BoundedInv'
  BY <1>3, LoadBounded
<1>4. CASE LoadBeacon
  BY <1>4, BeaconBounded
<1>5. CASE KeepDraining \/ BeaconDone \/ Wake \/ Crash
  BY <1>1, <1>5 DEF KeepDraining, BeaconDone, Wake, Crash, FreshCycle
<1>6. CASE Environment \/ CloudTakes \/ CloudTakesLate \/ UNCHANGED vars
  BY <1>2, <1>6 DEF Environment, Tick, Insert, Purge, ToggleSuspend, CloudTakes,
     CloudTakesLate, vars, loop
<1>7. CASE StaySuspended \/ StartCycle \/ CycleFails \/ Drained
  BY <1>2, <1>7 DEF StaySuspended, StartCycle, CycleFails, Drained
<1>8. CASE Reply2xx \/ Reply4xx \/ Reply5xx \/ NetworkError
  BY <1>2, <1>8 DEF Reply2xx, Reply4xx, Reply5xx, NetworkError
<1>9. ASSUME NEW t \in Tables, MarkTable(t) \/ BumpTable(t) PROVE BoundedInv'
  BY <1>2, <1>9 DEF MarkTable, BumpTable
<1> QED
  BY <1>3, <1>4, <1>5, <1>6, <1>7, <1>8, <1>9 DEF Next, Uploader

\* No request holds more rows of a table than the limit set for it, however
\* many are pending: draining a backlog or adding a beacon makes none larger.
THEOREM BatchWithinLimits ==
  Spec => [](\A t \in Tables : Cardinality(BatchOf(t)) <= Limit[t])
<1>1. Init => BoundedInv
  BY EmptyBounded DEF Init
<1>2. BoundedInv => \A t \in Tables : Cardinality(BatchOf(t)) <= Limit[t]
  BY DEF BoundedInv
<1> QED
  BY <1>1, <1>2, CoreInit, CoreInductive, FifoInit, FifoInductive,
     BoundedInductive, TypeCorrect, PTL DEF Spec

=============================================================================
