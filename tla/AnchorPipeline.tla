--------------------------- MODULE AnchorPipeline ---------------------------
(***************************************************************************)
(* From the gateway to the tables of the truck: the anchor firmware in     *)
(* role "gateway", whose Wi-Fi task and Arduino loop format their lines    *)
(* into one buffer; anchor-bridge, which turns serial lines into MQTT      *)
(* messages at QoS 0; and ble-sensor's ingest, whose network thread hands  *)
(* frames to a writer thread through a bounded queue.                      *)
(*                                                                         *)
(* A frame is a part of a report or a heartbeat; what it says is           *)
(* abstracted to who wrote it and when.  A line is the beginning of one    *)
(* frame, up to its devices or counters, and the rest of one.              *)
(***************************************************************************)
EXTENDS Integers, Sequences

CONSTANTS
  Anchor,      \* nodes in role "anchor"
  Gateway,     \* the node in role "gateway"
  Nothing,     \* a part of the buffer nobody has written
  Allowlist,   \* ANCHOR_ALLOWLIST
  NoFile,      \* registry file: there is none ...
  Unreadable,  \* ... or it is not JSON, or half written
  Files,       \* what the registry file may hold
  Refresh,     \* ANCHOR_REGISTRY_REFRESH_SECONDS, in ticks
  QueueMax,    \* _WORK_QUEUE_MAX
  MaxFrames,   \* bound: frames ever reported, repetitions apart
  MaxTransit,  \* bound: lines between the gateway and the ingest
  MaxEdits,    \* bound: times the registry file changes
  MaxCrashes   \* bound: restarts of the gateway and of ble-sensor, together

Node == Anchor \cup {Gateway}
Listing == [Node -> {"active", "inactive", "unlisted"}]

\* The topic suffixes the ingest subscribes to.  Lines of another kind ("info")
\* are among the lines of kind "gateway" that get lost.
Kind == {"scan", "status", "gateway"}
Frame == [src : Node, kind : Kind, n : 1..MaxFrames]

ASSUME PipelineAssumption ==
  /\ Gateway \notin Anchor
  /\ Allowlist \subseteq Node
  /\ Files \subseteq Listing \cup {NoFile, Unreadable}
  /\ Nothing \notin Frame
  /\ Refresh \in Nat \ {0}
  /\ QueueMax \in Nat \ {0}
  /\ MaxFrames \in Nat
  /\ MaxTransit \in Nat \ {0}
  /\ MaxEdits \in Nat
  /\ MaxCrashes \in Nat

Text == Frame \cup {Nothing}
Line == [head : Text, rest : Text, torn : BOOLEAN]
Message == [node : Node, kind : Kind, n : 1..MaxFrames, about : Node,
            torn : BOOLEAN]
Task == {"wifi", "loop"}
Emission == [pc : {"idle", "rest", "print"}, frame : Text, raced : BOOLEAN]

VARIABLES
  sent,      \* frames reported so far
  last,      \* what each anchor transmitted last
  g_json,    \* the gateway's line buffer
  emit,      \* what each task of the gateway is formatting, and how far
  wire,      \* lines on the USB serial port, or on their way through MQTT
  work,      \* work_queue
  pc,        \* where the writer thread is
  cur,       \* the frame it handles
  allowed,   \* what _anchor_allowed said about it
  file,      \* the registry file
  registry,  \* the cached registry: the nodes it lets through
  age,       \* time since registry_loaded_at
  barred,    \* history: how long the file has kept each node out
  newest,    \* history: the newest scan or heartbeat stored of each node
  edits, crashes

gateway == <<sent, last, g_json, emit>>
writer == <<pc, cur, allowed>>
cache == <<registry, age>>
config == <<file, barred, edits>>
vars == <<sent, last, g_json, emit, wire, work, pc, cur, allowed,
          file, registry, age, barred, newest, edits, crashes>>

Idle == [pc |-> "idle", frame |-> Nothing, raced |-> FALSE]
NoMessage ==
  [node |-> Gateway, kind |-> "gateway", n |-> 1, about |-> Gateway, torn |-> FALSE]

-----------------------------------------------------------------------------
(* The registry.                                                           *)

\* load_anchor_registry: with neither file nor allowlist, everyone is let
\* through; an unreadable file leaves the allowlist; a listing overrides it.
LoadRegistry(f) ==
  IF f = NoFile /\ Allowlist = {} THEN Node
  ELSE IF f \in {NoFile, Unreadable} THEN Allowlist
  ELSE {n \in Node : \/ f[n] = "active"
                     \/ f[n] = "unlisted" /\ n \in Allowlist}

\* The dashboard's registry is synced down, replaced, damaged or removed.
RegistryEdited ==
  /\ edits < MaxEdits
  /\ edits' = edits + 1
  /\ file' \in Files \ {file}
  /\ barred' = [n \in Node |-> IF n \in LoadRegistry(file') THEN 0 ELSE barred[n]]
  /\ UNCHANGED <<gateway, wire, work, writer, cache, newest, crashes>>

Older(t) == IF t < Refresh THEN t + 1 ELSE Refresh

Tick ==
  /\ age' = Older(age)
  /\ barred' = [n \in Node |->
                  IF n \in LoadRegistry(file) THEN 0 ELSE Older(barred[n])]
  /\ UNCHANGED <<gateway, wire, work, writer, file, registry, newest,
                 edits, crashes>>

-----------------------------------------------------------------------------
(* The gateway.  on_gateway_frame runs in the Wi-Fi task, the node's own   *)
(* lines come from the loop; nothing orders their uses of g_json.          *)

Other(t) == IF t = "wifi" THEN "loop" ELSE "wifi"

\* The beginning of a line, which ends the text in the buffer.
Begin(t, f) ==
  /\ emit[t].pc = "idle"
  /\ g_json' = [head |-> f, rest |-> Nothing]
  /\ emit' = [u \in Task |->
       IF u = t
         THEN [pc |-> "rest", frame |-> f, raced |-> emit[Other(t)].pc # "idle"]
         ELSE [emit[u] EXCEPT !.raced = emit[u].pc # "idle"]]

\* An anchor's next frame.
HandleFrame(a) ==
  /\ sent < MaxFrames
  /\ sent' = sent + 1
  /\ \E kind \in {"scan", "status"} :
       LET f == [src |-> a, kind |-> kind, n |-> sent'] IN
       Begin("wifi", f) /\ last' = [last EXCEPT ![a] = f]
  /\ UNCHANGED <<wire, work, writer, config, cache, newest, crashes>>

\* The anchor missed the acknowledgement and sends the same frame again.
HandleRepeat(a) ==
  /\ last[a] # Nothing
  /\ Begin("wifi", last[a])
  /\ UNCHANGED <<sent, last, wire, work, writer, config, cache, newest,
                 crashes>>

\* gateway_self_report, the heartbeat and the status line, the answer to "show".
SelfReport ==
  /\ sent < MaxFrames
  /\ sent' = sent + 1
  /\ \E kind \in Kind :
       Begin("loop", [src |-> Gateway, kind |-> kind, n |-> sent'])
  /\ UNCHANGED <<last, wire, work, writer, config, cache, newest, crashes>>

\* The rest of the line, at the writer's own offset, whatever is before it now.
WriteRest(t) ==
  /\ emit[t].pc = "rest"
  /\ g_json' = [g_json EXCEPT !.rest = emit[t].frame]
  /\ emit' = [emit EXCEPT ![t].pc = "print"]
  /\ UNCHANGED <<sent, last, wire, work, writer, config, cache, newest,
                 crashes>>

\* Serial.println(g_json): what the buffer holds by now.
Println(t) ==
  /\ emit[t].pc = "print"
  /\ Len(wire) < MaxTransit
  /\ wire' = Append(wire, [head |-> g_json.head, rest |-> g_json.rest,
                           torn |-> emit[t].raced])
  /\ emit' = [emit EXCEPT ![t] = Idle]
  /\ UNCHANGED <<sent, last, g_json, work, writer, config, cache, newest,
                 crashes>>

\* A restart, or the gateway is unplugged and plugged in again.
GatewayRestarts ==
  /\ crashes < MaxCrashes
  /\ crashes' = crashes + 1
  /\ g_json' = [head |-> Nothing, rest |-> Nothing]
  /\ emit' = [t \in Task |-> Idle]
  /\ wire' \in {wire, <<>>}
  /\ UNCHANGED <<sent, last, work, writer, config, cache, newest>>

-----------------------------------------------------------------------------
(* anchor-bridge, the broker and the ingest's network thread keep nothing  *)
(* of their own: a line goes through them in one step, and waits before    *)
(* them for as long as it likes.                                           *)

\* A whole frame, or two halves of frames of one kind that happen to fit.  Lines
\* carry no checksum: that any other damage breaks the JSON is assumed.
Parses(line) ==
  /\ line.head # Nothing
  /\ line.rest # Nothing
  /\ line.head.kind = line.rest.kind

\* Mutant of NodeId: a frame is attributed to the gateway that printed it.
NodeIdOfGateway(line) == Gateway

\* The node named at the beginning of the line.
NodeId(line) == line.head.src

\* What parse_frame makes of a line and client.publish sends.
Published(line) ==
  [node |-> NodeId(line), kind |-> line.head.kind, n |-> line.head.n,
   about |-> line.rest.src, torn |-> line.torn]

\* Mutant of Put: the queue is a stack.
PutOnTop(m) == work' = <<m>> \o work

\* work_queue.put_nowait
Put(m) == work' = Append(work, m)

\* Mutant of HasRoom: queue.Queue() without maxsize.
HasRoomAlways == TRUE

HasRoom == Len(work) < QueueMax

\* A line is read, parsed and published; on_message hands it over.
Delivered ==
  /\ wire # <<>>
  /\ Parses(Head(wire))
  /\ HasRoom
  /\ Put(Published(Head(wire)))
  /\ wire' = Tail(wire)
  /\ UNCHANGED <<gateway, writer, config, cache, newest, crashes>>

\* The line was damaged or does not parse; no bridge read it; its message was
\* published, at QoS 0, while one end had no connection; or the queue is full,
\* and the newest frame is shed.
Lost ==
  /\ wire # <<>>
  /\ wire' = Tail(wire)
  /\ UNCHANGED <<gateway, work, writer, config, cache, newest, crashes>>

-----------------------------------------------------------------------------
(* The writer thread.                                                      *)

\* Mutant of RefreshRegistry: every use of the cache prolongs its life.
RefreshRegistrySliding ==
  /\ registry' = IF age < Refresh THEN registry ELSE LoadRegistry(file)
  /\ age' = 0

\* _refresh_registry: load again once the cache is old enough.
RefreshRegistry ==
  IF age < Refresh
    THEN UNCHANGED cache
    ELSE registry' = LoadRegistry(file) /\ age' = 0

\* work_queue.get, and _anchor_allowed at the start of handle_frame.
Take ==
  /\ pc = "idle"
  /\ work # <<>>
  /\ cur' = Head(work)
  /\ work' = Tail(work)
  /\ RefreshRegistry
  /\ allowed' = (cur'.node \in registry')
  /\ pc' = "upsert"
  /\ UNCHANGED <<gateway, wire, config, newest, crashes>>

\* Back to work_queue.get.
NextFrame ==
  /\ pc' = "idle"
  /\ cur' = NoMessage
  /\ allowed' = FALSE

\* _upsert_anchor_status committed.  A frame of a node that is not let through,
\* and the gateway's status, end here; observations are those of a scan in which
\* a device is left.
Upserted ==
  /\ pc = "upsert"
  /\ IF ~allowed \/ cur.kind = "gateway"
       THEN NextFrame
       ELSE /\ \/ cur.kind = "scan" /\ pc' = "observe"
               \/ pc' = "enqueue"
            /\ UNCHANGED <<cur, allowed>>
  /\ UNCHANGED <<gateway, wire, work, config, cache, newest, crashes>>

\* _record_scan_observations committed.
Observed ==
  /\ pc = "observe"
  /\ pc' = "enqueue"
  /\ UNCHANGED <<gateway, wire, work, cur, allowed, config, cache,
                 newest, crashes>>

\* _enqueue_ble_scan committed.
Enqueued ==
  /\ pc = "enqueue"
  /\ newest' = [newest EXCEPT ![cur.node] = cur.n]
  /\ NextFrame
  /\ UNCHANGED <<gateway, wire, work, config, cache, crashes>>

\* The lock outlasts the retries: writer_loop logs it and goes on.
WriteFails ==
  /\ pc \in {"upsert", "observe", "enqueue"}
  /\ NextFrame
  /\ UNCHANGED <<gateway, wire, work, config, cache, newest, crashes>>

\* ble-sensor exits and is started again: the queue and the cache are gone.
SensorRestarts ==
  /\ crashes < MaxCrashes
  /\ crashes' = crashes + 1
  /\ work' = <<>>
  /\ NextFrame
  /\ registry' = {}
  /\ age' = Refresh
  /\ UNCHANGED <<gateway, wire, config, newest>>

-----------------------------------------------------------------------------

Init ==
  /\ sent = 0
  /\ last = [a \in Anchor |-> Nothing]
  /\ g_json = [head |-> Nothing, rest |-> Nothing]
  /\ emit = [t \in Task |-> Idle]
  /\ wire = <<>>
  /\ work = <<>>
  /\ pc = "idle"
  /\ cur = NoMessage
  /\ allowed = FALSE
  /\ file \in Files
  /\ registry = {}
  /\ age = Refresh
  /\ barred = [n \in Node |-> 0]
  /\ newest = [n \in Node |-> 0]
  /\ edits = 0
  /\ crashes = 0

GatewayRuns ==
  \/ \E a \in Anchor : HandleFrame(a) \/ HandleRepeat(a)
  \/ SelfReport
  \/ \E t \in Task : WriteRest(t) \/ Println(t)
  \/ GatewayRestarts

Transport == Delivered \/ Lost

WriterRuns ==
  Take \/ Upserted \/ Observed \/ Enqueued \/ WriteFails \/ SensorRestarts

Next == RegistryEdited \/ Tick \/ GatewayRuns \/ Transport \/ WriterRuns

Spec == Init /\ [][Next]_vars

-----------------------------------------------------------------------------
(* Properties.                                                             *)

TypeOK ==
  /\ sent \in 0..MaxFrames
  /\ last \in [Anchor -> Text]
  /\ g_json \in [head : Text, rest : Text]
  /\ emit \in [Task -> Emission]
  /\ wire \in Seq(Line) /\ Len(wire) <= MaxTransit
  /\ work \in Seq(Message) /\ Len(work) <= QueueMax
  /\ pc \in {"idle", "upsert", "observe", "enqueue"}
  /\ cur \in IF pc = "idle" THEN {NoMessage} ELSE Message
  /\ allowed \in BOOLEAN
  /\ file \in Files
  /\ registry \subseteq Node
  /\ age \in 0..Refresh
  /\ barred \in [Node -> 0..Refresh]
  /\ newest \in [Node -> 0..MaxFrames]
  /\ edits \in 0..MaxEdits
  /\ crashes \in 0..MaxCrashes

\* What is stored under a node's observer_id was reported by that node, unless
\* the gateway's two tasks were formatting lines at the same time.
AttributionExplained ==
  pc \in {"observe", "enqueue"} /\ cur.node # cur.about => cur.torn

\* The rows of one observer are stored in the order in which it sent them, with
\* repeated, torn, lost and shed frames and restarts of either end.
StoredInOrder == [][\A n \in Node : newest'[n] >= newest[n]]_vars

\* A frame is taken up for storing only if the registry file lets its node
\* through, or did so less than a refresh period ago, however steadily the node
\* reports and whatever the file went through in between.
QuarantineRespected ==
  [][Take /\ allowed' =>
       cur'.node \in LoadRegistry(file) \/ barred[cur'.node] < Refresh]_vars

-----------------------------------------------------------------------------
(* Why they hold: the inductive invariants of the proofs.                  *)

\* A node the file lets through has not been kept out for any time; what a
\* cache still in use lets through was not kept out before it was loaded.
CacheInv ==
  /\ \A n \in LoadRegistry(file) : barred[n] = 0
  /\ age < Refresh => \A n \in registry : barred[n] <= age

\* Two tasks that format at once know it; one that formats alone finds its own
\* text in the buffer.
BufferInv ==
  /\ (\A t \in Task : emit[t].pc # "idle") => \A t \in Task : emit[t].raced
  /\ \A t \in Task : ~emit[t].raced =>
       /\ emit[t].pc # "idle" => g_json.head = emit[t].frame
       /\ emit[t].pc = "print" => g_json.rest = emit[t].frame

Misattributed(m) == m.node # m.about

AttributionInv ==
  /\ BufferInv
  /\ \A i \in DOMAIN wire : wire[i].torn \/ wire[i].head = wire[i].rest
  /\ \A i \in DOMAIN work : Misattributed(work[i]) => work[i].torn
  /\ Misattributed(cur) => cur.torn

\* The newest frame of a node the gateway can still print a line of.
Bound(x) ==
  IF x \notin Anchor THEN sent ELSE IF last[x] = Nothing THEN 0 ELSE last[x].n

\* What is stored and handled, queued, on the wire of node x is not newer than n.
Handled(x, n) ==
  newest[x] <= n /\ (pc # "idle" /\ cur.node = x => cur.n <= n)
Queued(x, n) ==
  Handled(x, n) /\ \A i \in DOMAIN work : work[i].node = x => work[i].n <= n
Wired(x, n) ==
  Queued(x, n) /\ \A i \in DOMAIN wire : wire[i].head.src = x => wire[i].head.n <= n

\* What an anchor transmits is its own.
LastOwn == \A a \in Anchor : last[a] # Nothing => last[a].src = a

BoundInOrder == \A x \in Node : Wired(x, Bound(x)) /\ Bound(x) <= sent

BufferInOrder ==
  /\ \A t \in Task : emit[t].pc # "idle" => g_json.head # Nothing
  /\ g_json.head # Nothing =>
       /\ Wired(g_json.head.src, g_json.head.n)
       /\ g_json.head.n <= Bound(g_json.head.src)

WireInOrder ==
  \A i \in DOMAIN wire :
    /\ wire[i].head # Nothing
    /\ Queued(wire[i].head.src, wire[i].head.n)
    /\ \A j \in DOMAIN wire : i <= j /\ wire[i].head.src = wire[j].head.src =>
                                wire[i].head.n <= wire[j].head.n

WorkInOrder ==
  \A i \in DOMAIN work :
    /\ Handled(work[i].node, work[i].n)
    /\ \A j \in DOMAIN work : i <= j /\ work[i].node = work[j].node =>
                                work[i].n <= work[j].n

CurInOrder == pc # "idle" => newest[cur.node] <= cur.n

\* Every stage of the pipeline is in the order of sending, node by node, and
\* not ahead of the stages before it.
OrderInv ==
  LastOwn /\ BoundInOrder /\ BufferInOrder /\ WireInOrder /\ WorkInOrder /\ CurInOrder

=============================================================================
