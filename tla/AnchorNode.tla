----------------------------- MODULE AnchorNode -----------------------------
(***************************************************************************)
(* A BLE anchor and its ESP-NOW link to the gateway (anchor-firmware, role *)
(* "anchor"): the table of advertisements heard in the current window, the *)
(* report that ships it in parts and then clears it, and the handshake     *)
(* between esp_now_send and its callback.                                  *)
(*                                                                         *)
(* Three tasks run at once: the BLE host records advertisements, the       *)
(* Wi-Fi task runs the callbacks, the Arduino loop sends.  An              *)
(* advertisement is a number; a record stands for the median, maximum and  *)
(* count of the advertisements it was built from.                          *)
(***************************************************************************)
EXTENDS Integers, Sequences

CONSTANTS
  Device,      \* BLE devices in range
  MaxTable,    \* MAX_TABLE: devices one window can hold
  FrameSize,   \* MAX_DEVICES_PER_FRAME: records per part
  Retries,     \* SEND_RETRIES: attempts per part
  QueueSize,   \* frames the ESP-NOW driver accepts before it refuses
  MaxAdverts,  \* bound: advertisements ever heard
  MayReboot    \* whether the node may lose power

ASSUME AnchorAssumption ==
  /\ MaxTable \in Nat \ {0}
  /\ FrameSize \in Nat \ {0}
  /\ Retries \in Nat \ {0}
  /\ QueueSize \in Nat \ {0}
  /\ MaxAdverts \in Nat
  /\ MayReboot \in BOOLEAN

Advert == 1..MaxAdverts
Entry == [dev : Device, seen : SUBSET Advert]

VARIABLES
  good,      \* the gateway is in reach and the radio answers at once
  known,     \* g_gateway_known
  fresh,     \* the last beacon is less than GATEWAY_STALE_MS old
  table,     \* g_table: the used entries, in slot order
  heard,     \* advertisements recorded so far
  pc,        \* where the loop is
  job,       \* what it is sending
  snap,      \* records of the report under way
  start,     \* index of the last record of the parts already confirmed
  attempt,   \* attempt of espnow_send_to_gateway
  pending,   \* g_send_pending
  ok,        \* g_send_ok
  air,       \* frames accepted by the driver whose callback has not run
  received,  \* advertisements the gateway has been told of
  excused,   \* history: advertisements a report may lose, see the properties
  doubtful   \* history: a callback of another frame was outstanding

scan == <<table, heard>>
loop == <<pc, job, snap, start, attempt>>
link == <<good, known, fresh>>
vars == <<good, known, fresh, table, heard, pc, job, snap, start, attempt,
          pending, ok, air, received, excused, doubtful>>

\* Advertisements a sequence of entries stands for.
Seen(entries) == UNION {entries[i].seen : i \in DOMAIN entries}

TypeOK ==
  /\ good \in BOOLEAN /\ known \in BOOLEAN /\ fresh \in BOOLEAN
  /\ table \in Seq(Entry) /\ Len(table) <= MaxTable
  /\ heard \in 0..MaxAdverts
  /\ pc \in {"idle", "call", "armed", "wait", "check", "backoff", "clear"}
  /\ job \in {"report", "heartbeat"}
  /\ snap \in Seq(Entry) /\ Len(snap) <= MaxTable
  /\ start \in 0..MaxTable
  /\ attempt \in 1..Retries
  /\ pending \in BOOLEAN /\ ok \in BOOLEAN
  /\ air \in Seq(SUBSET Advert) /\ Len(air) <= QueueSize
  /\ received \subseteq Advert
  /\ excused \subseteq Advert
  /\ doubtful \in BOOLEAN

Init ==
  /\ good = FALSE
  /\ known = FALSE
  /\ fresh = FALSE
  /\ table = <<>>
  /\ heard = 0
  /\ pc = "idle"
  /\ job = "heartbeat"
  /\ snap = <<>>
  /\ start = 0
  /\ attempt = 1
  /\ pending = FALSE
  /\ ok = FALSE
  /\ air = <<>>
  /\ received = {}
  /\ excused = {}
  /\ doubtful = FALSE

-----------------------------------------------------------------------------
(* The radio and the gateway's beacon.                                     *)

RadioChanges ==
  /\ good' = ~good
  /\ UNCHANGED <<known, fresh, scan, loop, pending, ok, air, received,
                 excused, doubtful>>

\* espnow_linked()
Linked == known /\ fresh

\* Mutant of Beacon: the timestamp is only taken when the gateway is new.
BeaconOnce ==
  /\ ~known
  /\ known' = TRUE
  /\ fresh' = TRUE
  /\ UNCHANGED <<good, scan, loop, pending, ok, air, received, excused,
                 doubtful>>

\* on_recv, a beacon: learn the gateway, note the time.
Beacon ==
  /\ ~Linked
  /\ known' = TRUE
  /\ fresh' = TRUE
  /\ UNCHANGED <<good, scan, loop, pending, ok, air, received, excused,
                 doubtful>>

\* No beacon for GATEWAY_STALE_MS.
BeaconStale ==
  /\ ~good
  /\ fresh
  /\ fresh' = FALSE
  /\ UNCHANGED <<good, known, scan, loop, pending, ok, air, received,
                 excused, doubtful>>

-----------------------------------------------------------------------------
(* The BLE host task.                                                      *)

Reporting == pc # "idle" /\ job = "report"

\* Mutant of Slot: a full table still has room.
SlotUnchecked(d) ==
  IF \E i \in DOMAIN table : table[i].dev = d
    THEN {i \in DOMAIN table : table[i].dev = d}
    ELSE {Len(table) + 1}

\* The device's slot, else the first free one, else none.
Slot(d) ==
  IF \E i \in DOMAIN table : table[i].dev = d
    THEN {i \in DOMAIN table : table[i].dev = d}
    ELSE {Len(table) + 1} \cap 1..MaxTable

\* record_advert: one critical section.  A full table drops a new device.
RecordAdvert(d) ==
  /\ heard < MaxAdverts
  /\ heard' = heard + 1
  /\ \E i \in Slot(d) :
       table' = IF i \in DOMAIN table
                THEN [table EXCEPT ![i].seen = @ \cup {heard'}]
                ELSE Append(table, [dev |-> d, seen |-> {heard'}])
  /\ excused' = IF Reporting THEN excused \cup {heard'} ELSE excused
  /\ UNCHANGED <<link, loop, pending, ok, air, received, doubtful>>

-----------------------------------------------------------------------------
(* The Wi-Fi task: frames leave in order, and on_sent runs for each.       *)

\* on_sent writes g_send_ok and g_send_pending, whichever frame it is about.
OnSent(success) ==
  /\ ok' = success
  /\ pending' = FALSE
  /\ air' = Tail(air)
  /\ UNCHANGED <<link, scan, loop, excused, doubtful>>

\* The gateway got the frame and its acknowledgement arrived.
Acked ==
  /\ air # <<>>
  /\ received' = received \cup Head(air)
  /\ OnSent(TRUE)

\* The gateway got the frame, the acknowledgement was lost.
AckLost ==
  /\ air # <<>> /\ ~good
  /\ received' = received \cup Head(air)
  /\ OnSent(FALSE)

FrameLost ==
  /\ air # <<>> /\ ~good
  /\ OnSent(FALSE)
  /\ UNCHANGED received

-----------------------------------------------------------------------------
(* The Arduino loop: anchor_report, heartbeats, espnow_send_to_gateway.    *)

\* Reports and heartbeats are seconds apart: with a good radio, no callback is
\* outstanding when one starts.
NextSendDue == pc = "idle" /\ (good => air = <<>>)

\* anchor_report starts: snapshot without clearing.  An empty window or a
\* stale gateway makes it return at once.
StartReport ==
  /\ NextSendDue
  /\ table # <<>>
  /\ Linked
  /\ pc' = "call"
  /\ job' = "report"
  /\ snap' = table
  /\ start' = 0
  /\ excused' = excused \ Seen(table)
  /\ doubtful' = FALSE
  /\ UNCHANGED <<link, scan, attempt, pending, ok, air, received>>

StartHeartbeat ==
  /\ NextSendDue
  /\ pc' = "call"
  /\ job' = "heartbeat"
  /\ UNCHANGED <<link, scan, snap, start, attempt, pending, ok, air, received,
                 excused, doubtful>>

\* The frame being sent: a part of the report, or a heartbeat.
Part == {i \in DOMAIN snap : start < i /\ i <= start + FrameSize}
Frame == IF job = "report" THEN UNION {snap[i].seen : i \in Part} ELSE {}

\* Back to the loop; the locals of anchor_report are gone.
ReturnToLoop ==
  /\ pc' = "idle"
  /\ job' = "heartbeat"
  /\ snap' = <<>>
  /\ start' = 0
  /\ attempt' = 1

\* espnow_send_to_gateway is called without a link: it returns false.
NoLink ==
  /\ pc = "call"
  /\ ~Linked
  /\ ReturnToLoop
  /\ UNCHANGED <<link, scan, pending, ok, air, received, excused, doubtful>>

\* g_send_pending = true; g_send_ok = false.
Arm ==
  /\ pending' = TRUE
  /\ ok' = FALSE
  /\ pc' = "armed"
  /\ doubtful' = (doubtful \/ \E i \in DOMAIN air : air[i] # Frame)
  /\ UNCHANGED <<link, scan, job, snap, start, air, received, excused>>

FirstAttempt ==
  /\ pc = "call"
  /\ Linked
  /\ attempt' = 1
  /\ Arm

\* esp_now_send accepts the frame ...
Accepted ==
  /\ pc = "armed"
  /\ Len(air) < QueueSize
  /\ air' = Append(air, Frame)
  /\ pc' = "wait"
  /\ UNCHANGED <<link, scan, job, snap, start, attempt, pending, ok, received,
                 excused, doubtful>>

\* ... or refuses it, in which case g_send_ok is not looked at.
Refused ==
  /\ pc = "armed"
  /\ ~good \/ Len(air) = QueueSize
  /\ pending' = FALSE
  /\ pc' = "backoff"
  /\ UNCHANGED <<link, scan, job, snap, start, attempt, ok, air, received,
                 excused, doubtful>>

\* The wait loop ends: a callback ran, or SEND_ACK_TIMEOUT_MS is over.
StopWaiting ==
  /\ pc = "wait"
  /\ ~pending \/ ~good
  /\ pc' = "check"
  /\ UNCHANGED <<link, scan, job, snap, start, attempt, pending, ok, air,
                 received, excused, doubtful>>

NotConfirmed ==
  /\ pc = "check"
  /\ ~ok
  /\ pc' = "backoff"
  /\ UNCHANGED <<link, scan, job, snap, start, attempt, pending, ok, air,
                 received, excused, doubtful>>

Retry ==
  /\ pc = "backoff"
  /\ attempt < Retries
  /\ attempt' = attempt + 1
  /\ Arm

\* Mutant of GiveUp: a part that failed does not stop the clearing.
GiveUpAndClear ==
  /\ pc = "backoff"
  /\ attempt = Retries
  /\ IF job = "report"
       THEN pc' = "clear" /\ UNCHANGED <<job, snap, start, attempt>>
       ELSE ReturnToLoop
  /\ UNCHANGED <<link, scan, pending, ok, air, received, excused, doubtful>>

\* The last attempt failed: all_delivered = false, the window stays.
GiveUp ==
  /\ pc = "backoff"
  /\ attempt = Retries
  /\ ReturnToLoop
  /\ UNCHANGED <<link, scan, pending, ok, air, received, excused, doubtful>>

HeartbeatConfirmed ==
  /\ pc = "check"
  /\ ok
  /\ job = "heartbeat"
  /\ ReturnToLoop
  /\ UNCHANGED <<link, scan, pending, ok, air, received, excused, doubtful>>

\* The part is taken for delivered: on to the next one, or to the clearing.
PartConfirmed ==
  /\ pc = "check"
  /\ ok
  /\ job = "report"
  /\ IF start + FrameSize < Len(snap)
       THEN pc' = "call" /\ start' = start + FrameSize
       ELSE pc' = "clear" /\ UNCHANGED start
  /\ UNCHANGED <<link, scan, job, snap, attempt, pending, ok, air, received,
                 excused, doubtful>>

\* scanner_clear: whatever the table holds by now is gone.
Clear ==
  /\ pc = "clear"
  /\ table' = <<>>
  /\ excused' = IF doubtful THEN excused \cup Seen(snap) ELSE excused
  /\ ReturnToLoop
  /\ UNCHANGED <<link, heard, pending, ok, air, received, doubtful>>

\* Power loss, or a command that restarts the node.
Reboot ==
  /\ MayReboot
  /\ known' = FALSE
  /\ fresh' = FALSE
  /\ table' = <<>>
  /\ ReturnToLoop
  /\ pending' = FALSE
  /\ ok' = FALSE
  /\ air' = <<>>
  /\ excused' = excused \cup Seen(table)
  /\ doubtful' = FALSE
  /\ UNCHANGED <<good, heard, received>>

-----------------------------------------------------------------------------

OnSentRuns == Acked \/ AckLost \/ FrameLost

Loop ==
  \/ StartReport \/ StartHeartbeat
  \/ NoLink \/ FirstAttempt \/ Accepted \/ Refused \/ StopWaiting
  \/ NotConfirmed \/ Retry \/ GiveUp
  \/ HeartbeatConfirmed \/ PartConfirmed \/ Clear

Next ==
  \/ RadioChanges \/ Beacon \/ BeaconStale
  \/ \E d \in Device : RecordAdvert(d)
  \/ OnSentRuns
  \/ Loop
  \/ Reboot

Spec == Init /\ [][Next]_vars

(***************************************************************************)
(* Fairness.  The loop, the Wi-Fi task and, while the radio is good, the   *)
(* gateway's beacon (one every 5 s) keep running; the loop checks the      *)
(* report timer on every pass, so heartbeats cannot starve reports.        *)
(***************************************************************************)
Fairness ==
  /\ WF_vars(Loop)
  /\ SF_vars(StartReport)
  /\ WF_vars(OnSentRuns)
  /\ WF_vars(good /\ Beacon)

FairSpec == Spec /\ Fairness

-----------------------------------------------------------------------------
(* Properties.                                                             *)

\* An advertisement that entered the table and is in it no longer was told to
\* the gateway, with three exceptions: it was recorded after the snapshot of
\* the report that cleared the table, the callback of some other frame was
\* still outstanding when a frame of that report was sent, or power was lost.
LossExplained == 1..heard \subseteq Seen(table) \cup received \cup excused

\* Once the gateway stays in good reach, windows keep being delivered and
\* cleared, whatever was half-sent, timed out or unacknowledged before.
WindowsDelivered ==
  <>[]good => []<>(table = <<>>)

-----------------------------------------------------------------------------
(* Why LossExplained holds: the inductive invariant of the proofs.         *)

\* While a report is under way the table only grows, by excused adverts.
TableCovered == Reporting => Seen(table) \subseteq Seen(snap) \cup excused

\* Unless a callback could be misread, the parts behind `start' have arrived,
\* and all of them once the clearing is due.
PartsArrived ==
  Reporting /\ ~doubtful =>
    \A i \in DOMAIN snap :
      i <= start \/ pc = "clear" => snap[i].seen \subseteq received

\* Unless it could be misread, g_send_ok speaks of the current frame.
Handshake ==
  Reporting /\ ~doubtful /\ pc \in {"armed", "wait", "check", "backoff"} =>
    /\ \A i \in DOMAIN air : air[i] = Frame
    /\ ok => Frame \subseteq received

OnlyReportsClear == pc = "clear" => job = "report"

LossInv ==
  LossExplained /\ TableCovered /\ PartsArrived /\ Handshake /\ OnlyReportsClear

=============================================================================
