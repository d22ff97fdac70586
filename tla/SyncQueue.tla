----------------------------- MODULE SyncQueue ------------------------------
(***************************************************************************)
(* The store-and-forward queue: the four upload tables of the truck's      *)
(* SQLite database, their writers and purge (telematics-edge/db.py,        *)
(* ble-sensor), the upload loop that drains them (sync-service/main.py),   *)
(* and the cloud ingest endpoint as the loop sees it.                      *)
(*                                                                         *)
(* A row is its table, its AUTOINCREMENT id and the instant it was         *)
(* captured; payloads, headers and log lines are left out.  Tables are     *)
(* numbered in the order of SYNC_TABLES.  One step of the model is one     *)
(* SQLite transaction or one await of sync_cycle, so everything another    *)
(* process can do between two of them does happen here.                    *)
(***************************************************************************)
EXTENDS Integers, FiniteSets

CONSTANTS
  NumTables,      \* number of upload tables
  Limit,          \* _batch_limit: rows loaded per table and cycle
  BeaconTables,   \* tables the priority beacon takes its rows from
  RefusedTables,  \* tables whose payloads the cloud does not recognise
  Retentions,     \* ages at which the maintenance worker purges sent rows
  MaxLateness,    \* longest delay between capturing a row and storing it
  SentryEnabled,  \* SENTRY_MODE_ENABLED
  BeaconEnabled,  \* PRIORITY_BEACON_ENABLED
  MaxId,          \* bound: rows ever written per table
  MaxNow,         \* bound: clock ticks
  MaxCrashes      \* bound: restarts of the sync-service process

Tables == 1..NumTables

ASSUME ConstantsAssumption ==
  /\ NumTables \in Nat \ {0}
  /\ Limit \in [Tables -> Nat \ {0}]
  /\ BeaconTables \subseteq Tables
  /\ RefusedTables \subseteq Tables
  /\ Retentions \subseteq Nat
  /\ MaxLateness \in Nat
  /\ SentryEnabled \in BOOLEAN
  /\ BeaconEnabled \in BOOLEAN
  /\ MaxId \in Nat
  /\ MaxNow \in Nat
  /\ MaxCrashes \in Nat

Row == [table : Tables, id : 1..MaxId, at : 0..MaxNow]

VARIABLES
  now,         \* the clock captured_at_utc is read from
  nextId,      \* per table, the id the next INSERT gets
  store,       \* rows present in the database
  sent,        \* those with sent_at_utc set
  attempted,   \* those with attempt_count > 0
  pc,          \* where the upload loop is
  tab,         \* the table a per-table step is about to touch
  batch,       \* rows of the request under way (all_rows, or the beacon)
  more,        \* more_pending of this cycle
  answer,      \* what _send_events returned or raised
  beaconSent,  \* the beacon latch of run()
  suspended,   \* the Sentry sentinel file exists
  taken,       \* the cloud has processed the current request
  cloud,       \* rows the cloud has kept
  late,        \* rows of abandoned requests the cloud may still process
  crashes,     \* restarts so far
  horizon,     \* history: nextId of each table when this cycle read it
  excused      \* history: rows a fault or a beacon may make the loop repeat

db == <<now, nextId, store, sent, attempted>>
loop == <<pc, tab, batch, more, answer, beaconSent>>
history == <<horizon, excused>>
vars == <<now, nextId, store, sent, attempted, pc, tab, batch, more, answer,
          beaconSent, suspended, taken, cloud, late, crashes, horizon,
          excused>>

DatabaseOK ==
  /\ now \in 0..MaxNow
  /\ nextId \in [Tables -> 1..(MaxId + 1)]
  /\ store \subseteq Row
  /\ sent \subseteq store
  /\ attempted \subseteq store

LoopOK ==
  /\ pc \in {"top", "load", "post", "mark", "bump", "decide", "beacon", "sleep"}
  /\ tab \in 1..(NumTables + 1)
  /\ batch \subseteq Row
  /\ answer \in {"none", "2xx", "4xx", "5xx", "neterr"}

OutsideOK ==
  /\ cloud \subseteq Row
  /\ late \subseteq Row
  /\ crashes \in 0..MaxCrashes
  /\ horizon \in [Tables -> 1..(MaxId + 1)]
  /\ excused \subseteq Row

FlagsOK ==
  /\ more \in BOOLEAN
  /\ beaconSent \in BOOLEAN
  /\ suspended \in BOOLEAN
  /\ taken \in BOOLEAN

TypeOK == DatabaseOK /\ LoopOK /\ OutsideOK /\ FlagsOK

Init ==
  /\ now = 0
  /\ nextId = [t \in Tables |-> 1]
  /\ store = {}
  /\ sent = {}
  /\ attempted = {}
  /\ pc = "top"
  /\ tab = 1
  /\ batch = {}
  /\ more = FALSE
  /\ answer = "none"
  /\ beaconSent = FALSE
  /\ suspended = FALSE
  /\ taken = FALSE
  /\ cloud = {}
  /\ late = {}
  /\ crashes = 0
  /\ horizon = [t \in Tables |-> 1]
  /\ excused = {}

-----------------------------------------------------------------------------
(* The database: its writers and the purge.                                *)

Tick ==
  /\ now < MaxNow
  /\ now' = now + 1
  /\ UNCHANGED <<nextId, store, sent, attempted, loop, suspended, taken, cloud,
                 late, crashes, history>>

\* Mutant of Insert: captured_at_utc taken from a clock that runs ahead.
InsertAhead(t) ==
  /\ nextId[t] <= MaxId
  /\ store' = store \cup {[table |-> t, id |-> nextId[t], at |-> now + 1]}
  /\ nextId' = [nextId EXCEPT ![t] = @ + 1]
  /\ UNCHANGED <<now, sent, attempted, loop, suspended, taken, cloud, late,
                 crashes, history>>

\* A writer commits one row.  The capture instant was read before the INSERT
\* got the write lock, so it may lie a little in the past.
Insert(t) ==
  /\ nextId[t] <= MaxId
  /\ \E at \in {a \in 0..now : now - a <= MaxLateness} :
       store' = store \cup {[table |-> t, id |-> nextId[t], at |-> at]}
  /\ nextId' = [nextId EXCEPT ![t] = @ + 1]
  /\ UNCHANGED <<now, sent, attempted, loop, suspended, taken, cloud, late,
                 crashes, history>>

\* Mutant of Expired: the purge forgets "sent_at_utc IS NOT NULL".
ExpiredUnsent(d) == {r \in store : r.at < now - d}

\* purge_old_sent_rows: one transaction over the four tables.
Expired(d) == {r \in sent : r.at < now - d}

Purge ==
  \E d \in Retentions :
    /\ Expired(d) # {}
    /\ store' = store \ Expired(d)
    /\ sent' = sent \ Expired(d)
    /\ attempted' = attempted \ Expired(d)
    /\ UNCHANGED <<now, nextId, loop, suspended, taken, cloud, late, crashes,
                   history>>

\* telematics-edge raises and clears the Sentry sentinel.
ToggleSuspend ==
  /\ SentryEnabled
  /\ suspended' = ~suspended
  /\ UNCHANGED <<db, loop, taken, cloud, late, crashes, history>>

-----------------------------------------------------------------------------
(* What the upload loop reads.                                             *)

\* Mutant of Pending: rows that were attempted once are not loaded again.
PendingOnce(t) == {r \in store \ (sent \cup attempted) : r.table = t}

Pending(t) == {r \in store \ sent : r.table = t}

\* Mutant of Before: the drain reads newest first, as the beacon does.
BeforeDescending(q, r) == q.at > r.at \/ (q.at = r.at /\ q.id > r.id)

\* ORDER BY captured_at_utc, id
Before(q, r) == q.at < r.at \/ (q.at = r.at /\ q.id < r.id)

\* _load_pending_rows: the oldest pending rows of the table, up to its limit.
Oldest(t) ==
  {r \in Pending(t) :
     Cardinality({q \in Pending(t) : Before(q, r)}) < Limit[t]}

\* _load_latest_payloads(table, 1): the newest pending row, if any.
Newest(t) == {r \in Pending(t) : \A q \in Pending(t) : ~Before(r, q)}

\* The rows of a batch the cloud recognises; it drops the others.
Acceptable(b) == {r \in b : r.table \notin RefusedTables}

\* Mutant of Saturated: > where the code says >=.
SaturatedBeyond(t) == Cardinality(Oldest(t)) > Limit[t]

Saturated(t) == Cardinality(Oldest(t)) >= Limit[t]

-----------------------------------------------------------------------------
(* The upload loop: run() and sync_cycle().                                *)

\* run() at the top of its loop, suspended: forget the latch and poll again.
StaySuspended ==
  /\ pc = "top"
  /\ suspended
  /\ beaconSent' = FALSE
  /\ UNCHANGED <<db, pc, tab, batch, more, answer, suspended, taken, cloud,
                 late, crashes, history>>

\* The locals of a cycle that has returned, or that never started.
FreshCycle ==
  /\ tab' = 1
  /\ batch' = {}
  /\ more' = FALSE
  /\ answer' = "none"
  /\ taken' = FALSE

StartCycle ==
  /\ pc = "top"
  /\ ~suspended
  /\ pc' = "load"
  /\ UNCHANGED <<db, tab, batch, more, answer, beaconSent, suspended, taken,
                 cloud, late, crashes, history>>

\* One table is read; after the last one an empty batch ends the cycle.
LoadTable(t) ==
  /\ pc = "load"
  /\ tab = t
  /\ batch' = batch \cup Oldest(t)
  /\ more' = (more \/ Saturated(t))
  /\ tab' = t + 1
  /\ horizon' = [horizon EXCEPT ![t] = nextId[t]]
  /\ IF t < NumTables
       THEN pc' = "load" /\ UNCHANGED beaconSent
       ELSE IF batch' = {}
         THEN pc' = "sleep" /\ beaconSent' = FALSE
         ELSE pc' = "post" /\ UNCHANGED beaconSent
  /\ UNCHANGED <<db, answer, suspended, taken, cloud, late, crashes, excused>>

\* The cloud processes the request under way.
CloudTakes ==
  /\ pc \in {"post", "beacon"}
  /\ batch # {}
  /\ ~taken
  /\ taken' = TRUE
  /\ cloud' = cloud \cup Acceptable(batch)
  /\ late' = late \ batch
  /\ UNCHANGED <<db, loop, suspended, crashes, history>>

\* A request the client gave up on is processed after all.
CloudTakesLate ==
  \E r \in late :
    /\ cloud' = cloud \cup {r}
    /\ late' = late \ {r}
    /\ UNCHANGED <<db, loop, suspended, taken, crashes, history>>

\* What may still arrive once the client stops waiting (a row the cloud has
\* already changes nothing when it arrives again).
Abandoned == IF taken THEN {} ELSE Acceptable(batch) \ cloud

Reply2xx ==
  /\ pc = "post"
  /\ taken
  /\ Acceptable(batch) # {}
  /\ answer' = "2xx"
  /\ pc' = "mark"
  /\ tab' = 1
  /\ UNCHANGED <<db, batch, more, beaconSent, suspended, taken, cloud, late,
                 crashes, history>>

\* The key is wrong, or not one event of the batch is recognised.
Reply4xx ==
  /\ pc = "post"
  /\ ~taken \/ Acceptable(batch) = {}
  /\ answer' = "4xx"
  /\ pc' = "bump"
  /\ tab' = 1
  /\ UNCHANGED <<db, batch, more, beaconSent, suspended, taken, cloud, late,
                 crashes, history>>

\* A server error may come before, while or after the rows are kept.
Reply5xx ==
  /\ pc = "post"
  /\ answer' = "5xx"
  /\ pc' = "sleep"
  /\ beaconSent' = FALSE
  /\ late' = late \cup Abandoned
  /\ excused' = excused \cup batch
  /\ UNCHANGED <<db, tab, batch, more, suspended, taken, cloud, crashes,
                 horizon>>

\* Refused, unreachable or timed out: the request may be processed later.
NetworkError ==
  /\ pc = "post"
  /\ answer' = "neterr"
  /\ pc' = "bump"
  /\ tab' = 1
  /\ late' = late \cup Abandoned
  /\ excused' = excused \cup batch
  /\ UNCHANGED <<db, batch, more, beaconSent, suspended, taken, cloud, crashes,
                 horizon>>

\* Mutant of Selected: ids are not grouped by table.
SelectedAnyTable(t) == {r \in store : r.table = t /\ \E b \in batch : b.id = r.id}

\* UPDATE ... WHERE id IN (...): the rows an id list of table t selects.
Selected(t) ==
  {r \in store : r.table = t /\ \E b \in batch : b.table = t /\ b.id = r.id}

\* Mutant of MarkTable: the last table is left out.
MarkAllButLast(t) ==
  /\ pc = "mark"
  /\ tab = t
  /\ sent' = IF t < NumTables THEN sent \cup Selected(t) ELSE sent
  /\ excused' = excused \ Selected(t)
  /\ tab' = t + 1
  /\ pc' = IF t < NumTables THEN "mark" ELSE "decide"
  /\ UNCHANGED <<now, nextId, store, attempted, batch, more, answer,
                 beaconSent, suspended, taken, cloud, late, crashes, horizon>>

\* _apply_all(_mark_rows_sent): one transaction per table, in order.
MarkTable(t) ==
  /\ pc = "mark"
  /\ tab = t
  /\ sent' = sent \cup Selected(t)
  /\ excused' = excused \ Selected(t)
  /\ tab' = t + 1
  /\ pc' = IF t < NumTables THEN "mark" ELSE "decide"
  /\ UNCHANGED <<now, nextId, store, attempted, batch, more, answer,
                 beaconSent, suspended, taken, cloud, late, crashes, horizon>>

\* _apply_all(_increment_attempts), then the cycle reports ok=False.
BumpTable(t) ==
  /\ pc = "bump"
  /\ tab = t
  /\ attempted' = attempted \cup Selected(t)
  /\ tab' = t + 1
  /\ IF t < NumTables
       THEN pc' = "bump" /\ UNCHANGED beaconSent
       ELSE pc' = "sleep" /\ beaconSent' = FALSE
  /\ UNCHANGED <<now, nextId, store, sent, batch, more, answer, suspended,
                 taken, cloud, late, crashes, history>>

\* A lock timeout or any other exception inside sync_cycle: run() catches it.
CycleFails ==
  /\ pc \in {"load", "mark", "bump"}
  /\ pc' = "sleep"
  /\ beaconSent' = FALSE
  /\ excused' = IF pc = "mark" THEN excused \cup (batch \ sent)
                ELSE excused
  /\ UNCHANGED <<db, tab, batch, more, answer, suspended, taken, cloud, late,
                 crashes, horizon>>

\* The cycle was ok.  Drained: sleep.  Backlog: beacon once, then go on.
Drained ==
  /\ pc = "decide"
  /\ ~more
  /\ pc' = "sleep"
  /\ beaconSent' = FALSE
  /\ UNCHANGED <<db, tab, batch, more, answer, suspended, taken, cloud, late,
                 crashes, history>>

KeepDraining ==
  /\ pc = "decide"
  /\ more
  /\ ~BeaconEnabled \/ beaconSent
  /\ pc' = "top"
  /\ FreshCycle
  /\ UNCHANGED <<db, beaconSent, suspended, cloud, late, crashes, history>>

LoadBeacon ==
  /\ pc = "decide"
  /\ more
  /\ BeaconEnabled
  /\ ~beaconSent
  /\ pc' = "beacon"
  /\ batch' = UNION {Newest(t) : t \in BeaconTables}
  /\ taken' = FALSE
  /\ excused' = excused \cup batch'
  /\ UNCHANGED <<db, tab, more, answer, beaconSent, suspended, cloud, late,
                 crashes, horizon>>

\* Any answer, or none at all, ends the beacon; its rows stay pending.
BeaconDone ==
  /\ pc = "beacon"
  /\ pc' = "top"
  /\ beaconSent' = TRUE
  /\ FreshCycle
  /\ late' = late \cup Abandoned
  /\ UNCHANGED <<db, suspended, cloud, crashes, history>>

\* The interval is over.
Wake ==
  /\ pc = "sleep"
  /\ pc' = "top"
  /\ FreshCycle
  /\ UNCHANGED <<db, beaconSent, suspended, cloud, late, crashes, history>>

\* The container dies and is restarted: all but the database is gone, and the
\* request under way, if any, is abandoned.
Crash ==
  /\ crashes < MaxCrashes
  /\ crashes' = crashes + 1
  /\ late' = IF pc \in {"post", "beacon"} THEN late \cup Abandoned ELSE late
  /\ excused' = IF pc \in {"post", "mark"} THEN excused \cup (batch \ sent)
                ELSE excused
  /\ pc' = "top"
  /\ FreshCycle
  /\ beaconSent' = FALSE
  /\ UNCHANGED <<db, suspended, cloud, horizon>>

-----------------------------------------------------------------------------

Environment == Tick \/ (\E t \in Tables : Insert(t)) \/ Purge \/ ToggleSuspend

Uploader ==
  \/ StaySuspended \/ StartCycle \/ CycleFails
  \/ (\E t \in Tables : LoadTable(t))
  \/ Reply2xx \/ Reply4xx \/ Reply5xx \/ NetworkError
  \/ (\E t \in Tables : MarkTable(t))
  \/ (\E t \in Tables : BumpTable(t))
  \/ Drained \/ KeepDraining \/ LoadBeacon \/ BeaconDone \/ Wake

Next == Environment \/ Uploader \/ CloudTakes \/ CloudTakesLate \/ Crash

Spec == Init /\ [][Next]_vars

(***************************************************************************)
(* Fairness.  The loop never exits (run() catches every exception of a     *)
(* cycle), so it keeps taking steps.  Strong fairness of a table's read    *)
(* and mark says that SQLite's lock does not time out forever; strong      *)
(* fairness of the cloud's processing and 2xx that a request repeated      *)
(* forever is answered infinitely often.  Nothing is assumed of writers,   *)
(* the purge, failures or the beacon's answer.                             *)
(***************************************************************************)
Fairness ==
  /\ WF_vars(Uploader)
  /\ SF_vars(StartCycle)
  /\ \A t \in Tables : SF_vars(LoadTable(t)) /\ SF_vars(MarkTable(t))
  /\ SF_vars(pc = "post" /\ CloudTakes)
  /\ SF_vars(Reply2xx)

FairSpec == Spec /\ Fairness

-----------------------------------------------------------------------------
(* Properties.                                                             *)

\* A row is marked sent (and so becomes eligible for the purge) only once the
\* cloud has kept it, unless the cloud discards its kind: however requests,
\* answers, marks, restarts and abandoned requests interleave.
SentReachedCloud == \A r \in sent : r \in cloud \/ r.table \in RefusedTables

\* Within a table the queue is drained oldest first: a pending row that was
\* both captured and stored before a row already marked sent does not exist,
\* whatever batch limits, failures and half-finished marks came between.
PerTableFifo ==
  \A r \in sent, q \in store \ sent :
    q.table = r.table /\ q.id < r.id => q.at > r.at

\* When a cycle decides that nothing is left and goes to sleep for the whole
\* interval, every row that was stored when its table was read is sent: a
\* backlog is never mistaken for an empty queue.
DrainedMeansDrained ==
  pc = "decide" /\ ~more =>
    \A q \in store \ sent : q.id >= horizon[q.table]

\* The loop uploads a row the cloud already has only if a fault (a lost or 5xx
\* answer, a failed mark, a restart) or the priority beacon made it do so: in a
\* fault-free backlog no row is uploaded twice.
NoNeedlessReupload ==
  pc = "post" /\ ~taken => batch \cap cloud \subseteq excused

\* The database and the cloud, seen from outside, implement StoreForward: a row
\* leaves the device only after it arrived, and only rows the device holds
\* arrive, late requests included.
Promise == INSTANCE StoreForward
  WITH Discard <- {r \in Row : r.table \in RefusedTables},
       held <- store,
       reached <- cloud

ImplementsStoreForward == Promise!Spec

\* Every stored row is eventually sent, as long as the sentinel does not stay
\* up forever and the cloud and the database lock give way now and then.
EveryRowSent ==
  []<>(~suspended) =>
    \A r \in Row : r.table \notin RefusedTables =>
      (r \in store ~> r \in sent)

-----------------------------------------------------------------------------
(* Why the safety properties hold: the inductive invariant of the proofs.  *)

\* Ids are AUTOINCREMENT: none in use anywhere is given out again, ...
FreshIds ==
  \A r \in store \cup cloud \cup late \cup batch : r.id < nextId[r.table]

\* ... so the id lists of the UPDATEs select rows of the batch and no others.
UniqueIds ==
  \A q, r \in store \cup batch : q.table = r.table /\ q.id = r.id => q = r

\* What has been read stays pending until it is answered for: only this loop
\* marks rows, and the purge deletes marked rows only.
BatchHeld ==
  /\ pc = "top" => batch = {}
  /\ pc \in {"load", "post", "beacon"} => batch \subseteq store \ sent

\* Marking starts after the 2xx, that is after the cloud kept the rows.
BatchTaken ==
  /\ pc \in {"top", "load"} => ~taken
  /\ pc = "mark" \/ (pc = "post" /\ taken) => Acceptable(batch) \subseteq cloud

\* A request that arrives late brings rows the device still holds, or repeats.
LateHeld == late \subseteq Acceptable(store \cup cloud)

CoreInv ==
  FreshIds /\ UniqueIds /\ BatchHeld /\ BatchTaken /\ LateHeld /\ SentReachedCloud

\* A batch is closed downwards within each table: what it leaves pending is
\* not older than what it takes.
BatchClosed ==
  pc \in {"load", "post", "mark", "bump"} =>
    \A r \in batch, q \in store \ sent :
      q.table = r.table /\ q.id < r.id /\ q.at <= r.at => q \in batch

FifoInv == IsFiniteSet(store) /\ BatchClosed /\ PerTableFifo

\* A cycle starts with the first table, and a table read lies in the past.
CycleStarts ==
  /\ pc = "top" => tab = 1
  /\ \A t \in Tables : horizon[t] <= nextId[t]

\* A cycle that knows of nothing more has all of the tables it has read.
ReadComplete ==
  pc \in {"load", "post", "mark"} /\ ~more =>
    \A q \in store \ sent :
      q.id < horizon[q.table] /\ (pc = "load" => q.table < tab) => q \in batch

MarkedSoFar ==
  pc = "mark" => \A r \in batch \cap store : r.table < tab => r \in sent

DrainedInv == CycleStarts /\ ReadComplete /\ MarkedSoFar /\ DrainedMeansDrained

\* The rows of the request under way that the cloud has and the loop is about
\* to mark.
BeingMarked == IF pc = "mark" \/ (pc = "post" /\ taken) THEN batch ELSE {}

\* Whatever else is pending and may be in the cloud, now or later, is excused.
PendingExcused ==
  /\ (store \ sent) \cap cloud \subseteq excused \cup BeingMarked
  /\ (store \ sent) \cap late \subseteq excused
  /\ pc = "beacon" => batch \subseteq excused

CloudAccepts == cloud = Acceptable(cloud)

RepeatInv == PendingExcused /\ CloudAccepts

=============================================================================
