------------------------ MODULE AnchorPipelineProofs ------------------------
(***************************************************************************)
(* Proofs about AnchorPipeline, for any anchors, allowlist, registry       *)
(* files, refresh period and queue: its types, who scans are attributed    *)
(* to and what makes that exact, the quarantine, and the order in which    *)
(* scans are stored.                                                       *)
(***************************************************************************)
EXTENDS AnchorPipeline, TLAPS

-----------------------------------------------------------------------------
(* Types.                                                                  *)

LEMMA Bounds ==
  /\ Refresh \in Nat \ {0} /\ QueueMax \in Nat \ {0} /\ MaxTransit \in Nat \ {0}
  /\ MaxFrames \in Nat /\ MaxEdits \in Nat /\ MaxCrashes \in Nat
  BY PipelineAssumption

LEMMA EmptyTyped ==
  /\ <<>> \in Seq(Line) /\ <<>> \in Seq(Message)
  /\ Len(<<>>) = 0 /\ DOMAIN <<>> = {}
  OBVIOUS

\* What a line of the gateway's buffer is made of.
LEMMA TextFields ==
  ASSUME NEW f \in Text, f # Nothing
  PROVE  f \in Frame /\ f.src \in Node /\ f.kind \in Kind /\ f.n \in 1..MaxFrames
  BY DEF Text, Frame

LEMMA LoadTyped ==
  ASSUME NEW f \in Files
  PROVE  LoadRegistry(f) \subseteq Node
  BY PipelineAssumption DEF LoadRegistry

LEMMA OlderTyped ==
  ASSUME NEW t \in 0..Refresh
  PROVE  Older(t) \in 0..Refresh /\ t <= Older(t) /\ Older(t) <= t + 1
  BY PipelineAssumption DEF Older

LEMMA NextFrameTyped ==
  ASSUME NextFrame
  PROVE  pc' = "idle" /\ cur' = NoMessage /\ allowed' \in BOOLEAN
  BY DEF NextFrame

\* Beginning a line of a frame keeps the buffer and the tasks in their types.
LEMMA BeginTyped ==
  ASSUME TypeOK, NEW t \in Task, NEW f \in Frame, Begin(t, f)
  PROVE  /\ g_json' \in [head : Text, rest : Text]
         /\ emit' \in [Task -> Emission]
<1>1. f \in Text
  BY DEF Text
<1>2. ASSUME NEW u \in Task PROVE emit'[u] \in Emission
  <2>1. emit[u] \in Emission
    BY DEF TypeOK
  <2>2. CASE u = t
    <3>1. emit'[u] = [pc |-> "rest", frame |-> f, raced |-> emit[Other(t)].pc # "idle"]
      BY <2>2 DEF Begin
    <3> QED BY <1>1, <3>1 DEF Emission
  <2>3. CASE u # t
    <3>1. emit'[u] = [emit[u] EXCEPT !.raced = emit[u].pc # "idle"]
      BY <2>3 DEF Begin
    <3> QED BY <2>1, <3>1 DEF Emission
  <2> QED BY <2>2, <2>3
<1>3. emit' \in [Task -> Emission]
  BY <1>2 DEF Begin
<1> QED BY <1>1, <1>3 DEF Begin, Text

\* A line that parses makes a message.
LEMMA PublishedTyped ==
  ASSUME NEW line \in Line, Parses(line)
  PROVE  Published(line) \in Message
<1>1. line.head \in Text /\ line.rest \in Text /\ line.torn \in BOOLEAN
  BY DEF Line
<1>2. line.head # Nothing /\ line.rest # Nothing
  BY DEF Parses
<1> QED BY <1>1, <1>2, TextFields DEF Published, NodeId, Message

LEMMA GatewayTyped ==
  ASSUME TypeOK, GatewayRuns
  PROVE  TypeOK'
<1> USE PipelineAssumption
<1>1. ASSUME NEW a \in Anchor, HandleFrame(a) PROVE TypeOK'
  <2>1. PICK kind \in {"scan", "status"} :
          LET f == [src |-> a, kind |-> kind, n |-> sent'] IN
          Begin("wifi", f) /\ last' = [last EXCEPT ![a] = f]
    BY <1>1 DEF HandleFrame
  <2> DEFINE f == [src |-> a, kind |-> kind, n |-> sent']
  <2>2. sent' \in 0..MaxFrames /\ sent' \in 1..MaxFrames
    BY <1>1 DEF HandleFrame, TypeOK
  <2>3. f \in Frame
    BY <2>2 DEF Frame, Node, Kind
  <2>4. Begin("wifi", f) /\ last' = [last EXCEPT ![a] = f]
    BY <2>1
  <2> HIDE DEF f
  <2>5. /\ g_json' \in [head : Text, rest : Text]
        /\ emit' \in [Task -> Emission]
    BY <2>3, <2>4, BeginTyped DEF Task
  <2>6. last' \in [Anchor -> Text]
    BY <2>3, <2>4 DEF TypeOK, Text
  <2> QED BY <1>1, <2>2, <2>5, <2>6 DEF HandleFrame, TypeOK, writer, config, cache
<1>2. ASSUME NEW a \in Anchor, HandleRepeat(a) PROVE TypeOK'
  <2>1. last[a] \in Frame
    BY <1>2, TextFields DEF HandleRepeat, TypeOK
  <2>2. /\ g_json' \in [head : Text, rest : Text]
        /\ emit' \in [Task -> Emission]
    BY <1>2, <2>1, BeginTyped DEF Task, HandleRepeat
  <2> QED BY <1>2, <2>2 DEF HandleRepeat, TypeOK, writer, config, cache
<1>3. CASE SelfReport
  <2>1. PICK kind \in Kind :
          Begin("loop", [src |-> Gateway, kind |-> kind, n |-> sent'])
    BY <1>3 DEF SelfReport
  <2>2. sent' \in 0..MaxFrames /\ sent' \in 1..MaxFrames
    BY <1>3 DEF SelfReport, TypeOK
  <2>3. [src |-> Gateway, kind |-> kind, n |-> sent'] \in Frame
    BY <2>2 DEF Frame, Node
  <2>4. /\ g_json' \in [head : Text, rest : Text]
        /\ emit' \in [Task -> Emission]
    BY <2>1, <2>3, BeginTyped DEF Task
  <2> QED BY <1>3, <2>2, <2>4 DEF SelfReport, TypeOK, writer, config, cache
<1>4. ASSUME NEW t \in Task, WriteRest(t) PROVE TypeOK'
  BY <1>4 DEF WriteRest, TypeOK, Emission, writer, config, cache
<1>5. ASSUME NEW t \in Task, Println(t) PROVE TypeOK'
  <2> DEFINE line == [head |-> g_json.head, rest |-> g_json.rest,
                      torn |-> emit[t].raced]
  <2>1. line \in Line
    BY DEF TypeOK, Emission, Line
  <2>2. wire' = Append(wire, line) /\ Len(wire) < MaxTransit
    BY <1>5 DEF Println
  <2> HIDE DEF line
  <2>3. wire' \in Seq(Line) /\ Len(wire') <= MaxTransit
    BY <2>1, <2>2 DEF TypeOK
  <2>4. emit' \in [Task -> Emission]
    BY <1>5 DEF Println, TypeOK, Emission, Idle, Text
  <2> QED BY <1>5, <2>3, <2>4 DEF Println, TypeOK, writer, config, cache
<1>6. CASE GatewayRestarts
  <2>1. wire' = wire \/ wire' = <<>>
    BY <1>6 DEF GatewayRestarts
  <2>2. wire' \in Seq(Line) /\ Len(wire') <= MaxTransit
    <3>1. CASE wire' = wire
      BY <3>1 DEF TypeOK
    <3>2. CASE wire' = <<>>
      BY <3>2, EmptyTyped, Bounds
    <3> QED BY <2>1, <3>1, <3>2
  <2>3. crashes' \in 0..MaxCrashes
    BY <1>6 DEF GatewayRestarts, TypeOK
  <2> QED BY <1>6, <2>2, <2>3 DEF GatewayRestarts, TypeOK, writer, config, cache,
          Text, Idle, Emission
<1> QED BY <1>1, <1>2, <1>3, <1>4, <1>5, <1>6 DEF GatewayRuns

LEMMA TransportTyped ==
  ASSUME TypeOK, Transport
  PROVE  TypeOK'
<1> USE PipelineAssumption
<1>1. wire # <<>> /\ wire' = Tail(wire)
  BY DEF Transport, Delivered, Lost
<1>2. wire' \in Seq(Line) /\ Len(wire') <= MaxTransit /\ Head(wire) \in Line
  BY <1>1 DEF TypeOK
<1>3. CASE Delivered
  <2>1. Published(Head(wire)) \in Message
    BY <1>2, <1>3, PublishedTyped DEF Delivered
  <2>2. work' = Append(work, Published(Head(wire))) /\ Len(work) < QueueMax
    BY <1>3 DEF Delivered, Put, HasRoom
  <2>3. work' \in Seq(Message) /\ Len(work') <= QueueMax
    BY <2>1, <2>2 DEF TypeOK
  <2> QED BY <1>2, <1>3, <2>3 DEF Delivered, TypeOK, gateway, writer, config, cache
<1>4. CASE Lost
  BY <1>2, <1>4 DEF Lost, TypeOK, gateway, writer, config, cache
<1> QED BY <1>3, <1>4 DEF Transport

LEMMA WriterTyped ==
  ASSUME TypeOK, WriterRuns
  PROVE  TypeOK'
<1> USE PipelineAssumption
<1>1. CASE Take
  <2>1. cur' \in Message /\ work' \in Seq(Message) /\ Len(work') <= QueueMax
    BY <1>1 DEF Take, TypeOK
  <2>2. registry' \subseteq Node /\ age' \in 0..Refresh
    BY <1>1, LoadTyped DEF Take, RefreshRegistry, TypeOK, cache
  <2>3. allowed' \in BOOLEAN
    BY <1>1 DEF Take
  <2> QED BY <1>1, <2>1, <2>2, <2>3 DEF Take, TypeOK, gateway, config
<1>2. CASE Upserted
  BY <1>2, NextFrameTyped DEF Upserted, TypeOK, gateway, config, cache
<1>3. CASE Observed
  BY <1>3 DEF Observed, TypeOK, gateway, config, cache
<1>4. CASE Enqueued
  <2>1. newest' \in [Node -> 0..MaxFrames]
    <3>1. cur.n \in 0..MaxFrames
      BY <1>4 DEF TypeOK, Message, Enqueued
    <3> QED BY <1>4, <3>1 DEF Enqueued, TypeOK
  <2> QED BY <1>4, <2>1, NextFrameTyped DEF Enqueued, TypeOK, gateway, config, cache
<1>5. CASE WriteFails
  BY <1>5, NextFrameTyped DEF WriteFails, TypeOK, gateway, config, cache
<1>6. CASE SensorRestarts
  <2>1. work' \in Seq(Message) /\ Len(work') <= QueueMax /\ crashes' \in 0..MaxCrashes
    BY <1>6 DEF SensorRestarts, TypeOK
  <2> QED BY <1>6, <2>1, NextFrameTyped DEF SensorRestarts, TypeOK, gateway, config
<1> QED BY <1>1, <1>2, <1>3, <1>4, <1>5, <1>6 DEF WriterRuns

THEOREM TypeStep == TypeOK /\ [Next]_vars => TypeOK'
<1> SUFFICES ASSUME TypeOK, [Next]_vars PROVE TypeOK'
  OBVIOUS
<1>1. CASE UNCHANGED vars
  BY <1>1 DEF TypeOK, vars
<1>2. CASE RegistryEdited
  BY <1>2, PipelineAssumption DEF RegistryEdited, TypeOK, gateway, writer, cache
<1>3. CASE Tick
  <2>1. age' \in 0..Refresh
    BY <1>3, OlderTyped DEF Tick, TypeOK
  <2>2. barred' \in [Node -> 0..Refresh]
    <3>1. \A n \in Node : barred[n] \in 0..Refresh /\ 0 \in 0..Refresh
      BY Bounds DEF TypeOK
    <3>2. \A n \in Node : Older(barred[n]) \in 0..Refresh
      BY <3>1, OlderTyped
    <3> QED BY <1>3, <3>1, <3>2 DEF Tick
  <2> QED BY <1>3, <2>1, <2>2 DEF Tick, TypeOK, gateway, writer
<1> QED BY <1>1, <1>2, <1>3, GatewayTyped, TransportTyped, WriterTyped DEF Next

THEOREM TypeCorrect == Spec => []TypeOK
<1>1. Init => TypeOK
  <2> SUFFICES ASSUME Init PROVE TypeOK
    OBVIOUS
  <2>1. wire \in Seq(Line) /\ Len(wire) <= MaxTransit
        /\ work \in Seq(Message) /\ Len(work) <= QueueMax
    BY EmptyTyped, Bounds DEF Init
  <2>2. /\ last \in [Anchor -> Text] /\ g_json \in [head : Text, rest : Text]
        /\ emit \in [Task -> Emission]
    BY DEF Init, Text, Idle, Emission
  <2>3. /\ barred \in [Node -> 0..Refresh] /\ newest \in [Node -> 0..MaxFrames]
        /\ age \in 0..Refresh /\ sent \in 0..MaxFrames
        /\ edits \in 0..MaxEdits /\ crashes \in 0..MaxCrashes
    BY Bounds DEF Init
  <2> QED BY <2>1, <2>2, <2>3 DEF Init, TypeOK
<1> QED BY <1>1, TypeStep, PTL DEF Spec

-----------------------------------------------------------------------------
(* The quarantine.                                                         *)

LEMMA CacheStep ==
  ASSUME TypeOK, CacheInv, [Next]_vars
  PROVE  CacheInv'
<1> USE PipelineAssumption
<1>1. CASE UNCHANGED vars
  BY <1>1 DEF CacheInv, LoadRegistry, vars
<1>2. CASE RegistryEdited
  <2>1. \A n \in LoadRegistry(file') : n \in Node
    BY <1>2, LoadTyped DEF RegistryEdited
  <2>2. \A n \in Node : barred'[n] = 0 \/ barred'[n] = barred[n]
    BY <1>2 DEF RegistryEdited
  <2>3. \A n \in LoadRegistry(file') : barred'[n] = 0
    BY <1>2, <2>1 DEF RegistryEdited
  <2>4. age' = age /\ registry' = registry
    BY <1>2 DEF RegistryEdited, cache
  <2>5. \A n \in registry : n \in Node
    BY DEF TypeOK
  <2>6. age < Refresh => \A n \in registry : barred'[n] <= age
    <3>1. age \in 0..Refresh /\ Refresh \in Nat
      BY Bounds DEF TypeOK
    <3> SUFFICES ASSUME age < Refresh, NEW n \in registry PROVE barred'[n] <= age
      OBVIOUS
    <3>2. barred[n] <= age /\ (barred'[n] = 0 \/ barred'[n] = barred[n])
      BY <2>2, <2>5 DEF CacheInv
    <3> QED BY <3>1, <3>2
  <2> QED BY <2>3, <2>4, <2>6 DEF CacheInv
<1>3. CASE Tick
  <2>1. \A n \in LoadRegistry(file) : n \in Node
    BY LoadTyped DEF TypeOK
  <2>2. \A n \in LoadRegistry(file) : barred'[n] = 0
    BY <1>3, <2>1 DEF Tick
  <2>3. file' = file /\ registry' = registry
    BY <1>3 DEF Tick
  <2>4. ASSUME age' < Refresh PROVE \A n \in registry : barred'[n] <= age'
    <3>1. age < Refresh /\ age' = age + 1
      BY <1>3, <2>4 DEF Tick, Older, TypeOK
    <3>2. \A n \in registry : barred'[n] = 0 \/ barred'[n] = Older(barred[n])
      BY <1>3 DEF Tick, TypeOK
    <3>3. \A n \in registry : barred[n] \in 0..Refresh /\ barred[n] <= age
      BY <3>1 DEF CacheInv, TypeOK
    <3>4. \A n \in registry : Older(barred[n]) <= barred[n] + 1
      BY <3>3, OlderTyped
    <3>5. age \in 0..Refresh /\ Refresh \in Nat
      BY Bounds DEF TypeOK
    <3> SUFFICES ASSUME NEW n \in registry PROVE barred'[n] <= age'
      OBVIOUS
    <3>6. barred[n] \in 0..Refresh /\ Older(barred[n]) \in 0..Refresh
      BY <3>3, OlderTyped
    <3> QED BY <3>1, <3>2, <3>3, <3>4, <3>5, <3>6
  <2> QED BY <2>2, <2>3, <2>4 DEF CacheInv
<1>4. CASE Take
  <2>1. file' = file /\ barred' = barred
    BY <1>4 DEF Take, config
  <2>2. CASE age < Refresh
    BY <1>4, <2>1, <2>2 DEF Take, RefreshRegistry, CacheInv, cache
  <2>3. CASE ~(age < Refresh)
    BY <1>4, <2>1, <2>3 DEF Take, RefreshRegistry, CacheInv
  <2> QED BY <2>2, <2>3
<1>5. CASE SensorRestarts
  BY <1>5 DEF SensorRestarts, CacheInv, config
<1>6. CASE GatewayRuns
  BY <1>6 DEF GatewayRuns, HandleFrame, HandleRepeat, SelfReport, WriteRest, Println,
     GatewayRestarts, config, cache, CacheInv
<1>7. CASE Transport
  BY <1>7 DEF Transport, Delivered, Lost, config, cache, CacheInv
<1>8. CASE Upserted \/ Observed \/ Enqueued \/ WriteFails
  BY <1>8 DEF Upserted, Observed, Enqueued, WriteFails, config, cache, CacheInv
<1> QED BY <1>1, <1>2, <1>3, <1>4, <1>5, <1>6, <1>7, <1>8 DEF Next, WriterRuns

\* A frame is taken up for storing only if the registry file lets its node
\* through, or did so less than a refresh period ago.
THEOREM QuarantineHolds == Spec => QuarantineRespected
<1>1. Init => CacheInv
  BY PipelineAssumption DEF Init, CacheInv, LoadRegistry, Listing
<1>2. TypeOK /\ CacheInv /\ [Next]_vars => CacheInv'
  BY CacheStep
<1>3. TypeOK /\ CacheInv /\ [Next]_vars =>
        [Take /\ allowed' =>
           cur'.node \in LoadRegistry(file) \/ barred[cur'.node] < Refresh]_vars
  <2> SUFFICES ASSUME TypeOK, CacheInv, Take, allowed'
               PROVE  cur'.node \in LoadRegistry(file) \/ barred[cur'.node] < Refresh
    OBVIOUS
  <2>1. cur'.node \in registry'
    BY DEF Take
  <2>2. CASE age < Refresh
    <3>1. cur'.node \in registry
      BY <2>1, <2>2 DEF Take, RefreshRegistry, cache
    <3> QED BY <2>2, <3>1, PipelineAssumption DEF CacheInv, TypeOK
  <2>3. CASE ~(age < Refresh)
    BY <2>1, <2>3 DEF Take, RefreshRegistry
  <2> QED BY <2>2, <2>3
<1> QED BY <1>1, <1>2, <1>3, TypeCorrect, PTL DEF Spec, QuarantineRespected

-----------------------------------------------------------------------------
(* Attribution.                                                            *)

LEMMA BeginEmit ==
  ASSUME TypeOK, NEW t \in Task, NEW f \in Frame, Begin(t, f)
  PROVE  /\ emit[t].pc = "idle"
         /\ emit'[t].pc = "rest" /\ emit'[t].frame = f
         /\ emit'[t].raced <=> emit[Other(t)].pc # "idle"
         /\ Other(t) \in Task /\ Other(t) # t
         /\ \A u \in Task : u = t \/ u = Other(t)
         /\ emit'[Other(t)].pc = emit[Other(t)].pc
         /\ emit'[Other(t)].raced <=> emit[Other(t)].pc # "idle"
         /\ g_json'.head = f
<1>1. Other(t) \in Task /\ Other(t) # t /\ \A u \in Task : u = t \/ u = Other(t)
  BY DEF Other, Task
<1>2. emit'[t] = [pc |-> "rest", frame |-> f, raced |-> emit[Other(t)].pc # "idle"]
  BY DEF Begin
<1>3. emit'[Other(t)] =
        [emit[Other(t)] EXCEPT !.raced = emit[Other(t)].pc # "idle"]
  BY <1>1 DEF Begin
<1>4. emit[Other(t)] \in Emission
  BY <1>1 DEF TypeOK
<1>5. /\ emit'[Other(t)].pc = emit[Other(t)].pc
      /\ emit'[Other(t)].raced <=> emit[Other(t)].pc # "idle"
  BY <1>3, <1>4 DEF Emission
<1>6. g_json'.head = f /\ emit[t].pc = "idle"
  BY DEF Begin
<1>7. emit'[t].pc = "rest" /\ emit'[t].frame = f
  BY <1>2
<1>8. emit'[t].raced = (emit[Other(t)].pc # "idle")
  BY <1>2
<1> QED BY <1>1, <1>5, <1>6, <1>7, <1>8

LEMMA BeginBuffer ==
  ASSUME TypeOK, BufferInv, NEW t \in Task, NEW f \in Frame, Begin(t, f)
  PROVE  BufferInv'
<1>1. ASSUME NEW u \in Task, ~emit'[u].raced
      PROVE  /\ emit'[u].pc # "idle" => g_json'.head = emit'[u].frame
             /\ emit'[u].pc = "print" => g_json'.rest = emit'[u].frame
  BY <1>1, BeginEmit
<1>2. (\A u \in Task : emit'[u].pc # "idle") => \A u \in Task : emit'[u].raced
  BY BeginEmit
<1> QED BY <1>1, <1>2 DEF BufferInv

LEMMA BufferStep ==
  ASSUME TypeOK, BufferInv, GatewayRuns
  PROVE  BufferInv'
<1>1. ASSUME NEW a \in Anchor, HandleFrame(a) PROVE BufferInv'
  <2>1. PICK kind \in {"scan", "status"} :
          Begin("wifi", [src |-> a, kind |-> kind, n |-> sent'])
    BY <1>1 DEF HandleFrame
  <2>2. sent' \in 1..MaxFrames
    BY <1>1, Bounds DEF HandleFrame, TypeOK
  <2>3. [src |-> a, kind |-> kind, n |-> sent'] \in Frame /\ "wifi" \in Task
    BY <2>2 DEF Frame, Node, Kind, Task
  <2> QED BY <2>1, <2>3, BeginBuffer
<1>2. ASSUME NEW a \in Anchor, HandleRepeat(a) PROVE BufferInv'
  <2>1. last[a] \in Frame /\ "wifi" \in Task
    BY <1>2, TextFields DEF HandleRepeat, TypeOK, Task
  <2> QED BY <1>2, <2>1, BeginBuffer DEF HandleRepeat
<1>3. CASE SelfReport
  <2>1. PICK kind \in Kind :
          Begin("loop", [src |-> Gateway, kind |-> kind, n |-> sent'])
    BY <1>3 DEF SelfReport
  <2>2. sent' \in 1..MaxFrames
    BY <1>3, Bounds DEF SelfReport, TypeOK
  <2>3. [src |-> Gateway, kind |-> kind, n |-> sent'] \in Frame /\ "loop" \in Task
    BY <2>2 DEF Frame, Node, Task
  <2> QED BY <2>1, <2>3, BeginBuffer
<1>4. ASSUME NEW t \in Task, WriteRest(t) PROVE BufferInv'
  <2>1. /\ emit[t].pc = "rest"
        /\ g_json' = [g_json EXCEPT !.rest = emit[t].frame]
        /\ emit' = [emit EXCEPT ![t].pc = "print"]
    BY <1>4 DEF WriteRest
  <2>2. g_json'.head = g_json.head /\ g_json'.rest = emit[t].frame
    BY <2>1 DEF TypeOK
  <2>3. /\ emit'[t].pc = "print" /\ emit'[t].frame = emit[t].frame
        /\ emit'[t].raced = emit[t].raced
        /\ \A u \in Task \ {t} : emit'[u] = emit[u]
    BY <2>1 DEF TypeOK, Emission
  <2>4. \A u \in Task : u # t /\ emit[u].pc # "idle" => emit[u].raced
    BY <2>1 DEF BufferInv, Task
  <2>5. (\A u \in Task : emit'[u].pc # "idle") => \A u \in Task : emit'[u].raced
    BY <2>1, <2>3 DEF BufferInv
  <2>6. ASSUME NEW u \in Task, ~emit'[u].raced
        PROVE  /\ emit'[u].pc # "idle" => g_json'.head = emit'[u].frame
               /\ emit'[u].pc = "print" => g_json'.rest = emit'[u].frame
    BY <2>1, <2>2, <2>3, <2>4, <2>6 DEF BufferInv
  <2> QED BY <2>5, <2>6 DEF BufferInv
<1>5. ASSUME NEW t \in Task, Println(t) PROVE BufferInv'
  <2>1. emit'[t] = Idle /\ g_json' = g_json /\ \A u \in Task \ {t} : emit'[u] = emit[u]
    BY <1>5 DEF Println, TypeOK
  <2> QED BY <2>1 DEF BufferInv, Idle
<1>6. CASE GatewayRestarts
  <2>1. \A t \in Task : emit'[t] = Idle
    BY <1>6 DEF GatewayRestarts
  <2>2. "wifi" \in Task
    BY DEF Task
  <2> QED BY <2>1, <2>2 DEF BufferInv, Idle
<1> QED BY <1>1, <1>2, <1>3, <1>4, <1>5, <1>6 DEF GatewayRuns

LEMMA AttributionStep ==
  ASSUME TypeOK, AttributionInv, [Next]_vars
  PROVE  AttributionInv'
<1>1. BufferInv
  BY DEF AttributionInv
<1>2. CASE GatewayRuns
  <2>1. BufferInv'
    BY <1>1, <1>2, BufferStep
  <2>2. work' = work /\ cur' = cur
    BY <1>2 DEF GatewayRuns, HandleFrame, HandleRepeat, SelfReport, WriteRest,
       Println, GatewayRestarts, writer
  <2>3. \A i \in DOMAIN wire' : wire'[i].torn \/ wire'[i].head = wire'[i].rest
    <3>1. ASSUME NEW t \in Task, Println(t)
          PROVE  \A i \in DOMAIN wire' : wire'[i].torn \/ wire'[i].head = wire'[i].rest
      <4> DEFINE line == [head |-> g_json.head, rest |-> g_json.rest,
                          torn |-> emit[t].raced]
      <4>1. wire' = Append(wire, line) /\ emit[t].pc = "print"
        BY <3>1 DEF Println
      <4>2. line.torn \/ line.head = line.rest
        BY <1>1, <4>1 DEF BufferInv
      <4> HIDE DEF line
      <4>3. wire \in Seq(Line)
        BY DEF TypeOK
      <4> QED BY <4>1, <4>2, <4>3 DEF AttributionInv
    <3>2. CASE wire' = wire
      BY <3>2 DEF AttributionInv
    <3>3. CASE wire' = <<>>
      BY <3>3, EmptyTyped
    <3> QED BY <1>2, <3>1, <3>2, <3>3 DEF GatewayRuns, HandleFrame, HandleRepeat,
            SelfReport, WriteRest, GatewayRestarts
  <2> QED BY <2>1, <2>2, <2>3 DEF AttributionInv, Misattributed
<1>3. CASE Transport
  <2>1. wire # <<>> /\ wire' = Tail(wire) /\ wire \in Seq(Line) /\ work \in Seq(Message)
    BY <1>3 DEF Transport, Delivered, Lost, TypeOK
  <2>2. \A i \in DOMAIN wire' : wire'[i].torn \/ wire'[i].head = wire'[i].rest
    BY <2>1 DEF AttributionInv
  <2>3. \A i \in DOMAIN work' : Misattributed(work'[i]) => work'[i].torn
    <3>1. CASE Delivered
      <4> DEFINE m == Published(Head(wire))
      <4>1. work' = Append(work, m)
        BY <3>1 DEF Delivered, Put
      <4>2. Misattributed(m) => m.torn
        BY <2>1 DEF AttributionInv, Misattributed, Published, NodeId
      <4> HIDE DEF m
      <4> QED BY <2>1, <4>1, <4>2 DEF AttributionInv
    <3>2. CASE Lost
      BY <3>2 DEF Lost, AttributionInv
    <3> QED BY <1>3, <3>1, <3>2 DEF Transport
  <2>4. BufferInv' /\ cur' = cur
    BY <1>1, <1>3 DEF Transport, Delivered, Lost, gateway, writer, BufferInv
  <2> QED BY <2>2, <2>3, <2>4 DEF AttributionInv, Misattributed
<1>4. CASE WriterRuns
  <2>1. BufferInv' /\ wire' = wire
    BY <1>1, <1>4 DEF WriterRuns, Take, Upserted, Observed, Enqueued, WriteFails,
       SensorRestarts, gateway, BufferInv
  <2>2. CASE Take
    <3>1. work # <<>> /\ cur' = Head(work) /\ work' = Tail(work) /\ work \in Seq(Message)
      BY <2>2 DEF Take, TypeOK
    <3> QED BY <2>1, <3>1 DEF AttributionInv, Misattributed
  <2>3. CASE ~Take
    <3>1. (work' = work \/ work' = <<>>) /\ (cur' = cur \/ cur' = NoMessage)
      BY <1>4, <2>3 DEF WriterRuns, Upserted, Observed, Enqueued, WriteFails,
         SensorRestarts, NextFrame
    <3>2. \A i \in DOMAIN work' : Misattributed(work'[i]) => work'[i].torn
      BY <3>1, EmptyTyped DEF AttributionInv
    <3>3. Misattributed(cur') => cur'.torn
      BY <3>1 DEF AttributionInv, Misattributed, NoMessage
    <3> QED BY <2>1, <3>2, <3>3 DEF AttributionInv, Misattributed
  <2> QED BY <2>2, <2>3
<1>5. CASE RegistryEdited \/ Tick \/ UNCHANGED vars
  <2>1. wire' = wire /\ work' = work /\ cur' = cur /\ emit' = emit /\ g_json' = g_json
    BY <1>5 DEF RegistryEdited, Tick, vars, gateway, writer
  <2> QED BY <2>1 DEF AttributionInv, BufferInv, Misattributed
<1> QED BY <1>2, <1>3, <1>4, <1>5 DEF Next

\* What is stored under a node's observer_id was reported by that node, unless
\* the gateway's two tasks were formatting lines at the same time.
THEOREM AttributionHolds == Spec => []AttributionExplained
<1>1. Init => AttributionInv
  <2> SUFFICES ASSUME Init PROVE AttributionInv
    OBVIOUS
  <2>1. "wifi" \in Task /\ \A t \in Task : emit[t] = Idle
    BY DEF Init, Task
  <2> QED BY <2>1, EmptyTyped DEF Init, AttributionInv, BufferInv, Misattributed,
          NoMessage, Idle
<1>2. TypeOK /\ AttributionInv /\ [Next]_vars => AttributionInv'
  BY AttributionStep
<1>3. AttributionInv => AttributionExplained
  BY DEF AttributionInv, Misattributed, AttributionExplained
<1> QED BY <1>1, <1>2, <1>3, TypeCorrect, PTL DEF Spec

\* At most one task of the gateway is formatting, as with a lock for g_json.
OneTaskWrites == \E t \in Task : emit[t].pc = "idle"

\* No line has been, or is being, formatted while another was.
NothingTorn ==
  /\ \A t \in Task : ~emit[t].raced
  /\ \A i \in DOMAIN wire : ~wire[i].torn
  /\ \A i \in DOMAIN work : ~work[i].torn
  /\ ~cur.torn

LEMMA BeginAlone ==
  ASSUME TypeOK, OneTaskWrites', NEW t \in Task, NEW f \in Frame, Begin(t, f)
  PROVE  \A u \in Task : ~emit'[u].raced
<1>1. emit'[t].pc = "rest" /\ emit'[Other(t)].pc = emit[Other(t)].pc
  BY BeginEmit
<1>2. emit[Other(t)].pc = "idle"
  BY <1>1, BeginEmit DEF OneTaskWrites
<1> QED BY <1>2, BeginEmit

LEMMA GatewayTearsNothing ==
  ASSUME TypeOK, NothingTorn, OneTaskWrites', GatewayRuns
  PROVE  \A t \in Task : ~emit'[t].raced
<1>1. ASSUME NEW a \in Anchor, HandleFrame(a) PROVE \A t \in Task : ~emit'[t].raced
  <2>1. PICK kind \in {"scan", "status"} :
          Begin("wifi", [src |-> a, kind |-> kind, n |-> sent'])
    BY <1>1 DEF HandleFrame
  <2>2. sent' \in 1..MaxFrames
    BY <1>1, Bounds DEF HandleFrame, TypeOK
  <2>3. [src |-> a, kind |-> kind, n |-> sent'] \in Frame /\ "wifi" \in Task
    BY <2>2 DEF Frame, Node, Kind, Task
  <2> QED BY <2>1, <2>3, BeginAlone
<1>2. ASSUME NEW a \in Anchor, HandleRepeat(a) PROVE \A t \in Task : ~emit'[t].raced
  <2>1. last[a] \in Frame /\ "wifi" \in Task
    BY <1>2, TextFields DEF HandleRepeat, TypeOK, Task
  <2> QED BY <1>2, <2>1, BeginAlone DEF HandleRepeat
<1>3. CASE SelfReport
  <2>1. PICK kind \in Kind :
          Begin("loop", [src |-> Gateway, kind |-> kind, n |-> sent'])
    BY <1>3 DEF SelfReport
  <2>2. sent' \in 1..MaxFrames
    BY <1>3, Bounds DEF SelfReport, TypeOK
  <2>3. [src |-> Gateway, kind |-> kind, n |-> sent'] \in Frame /\ "loop" \in Task
    BY <2>2 DEF Frame, Node, Task
  <2> QED BY <2>1, <2>3, BeginAlone
<1>4. ASSUME NEW t \in Task, WriteRest(t) PROVE \A u \in Task : ~emit'[u].raced
  BY <1>4 DEF WriteRest, NothingTorn, TypeOK, Emission
<1>5. ASSUME NEW t \in Task, Println(t) PROVE \A u \in Task : ~emit'[u].raced
  BY <1>5 DEF Println, NothingTorn, TypeOK, Idle
<1>6. CASE GatewayRestarts
  BY <1>6 DEF GatewayRestarts, Idle
<1> QED BY <1>1, <1>2, <1>3, <1>4, <1>5, <1>6 DEF GatewayRuns

LEMMA NothingTornStep ==
  ASSUME TypeOK, NothingTorn, OneTaskWrites', [Next]_vars
  PROVE  NothingTorn'
<1>1. wire \in Seq(Line) /\ work \in Seq(Message)
  BY DEF TypeOK
<1>2. CASE GatewayRuns
  <2>1. \A t \in Task : ~emit'[t].raced
    BY <1>2, GatewayTearsNothing
  <2>2. work' = work /\ cur' = cur
    BY <1>2 DEF GatewayRuns, HandleFrame, HandleRepeat, SelfReport, WriteRest,
       Println, GatewayRestarts, writer
  <2>3. \A i \in DOMAIN wire' : ~wire'[i].torn
    <3>1. ASSUME NEW t \in Task, Println(t) PROVE \A i \in DOMAIN wire' : ~wire'[i].torn
      <4> DEFINE line == [head |-> g_json.head, rest |-> g_json.rest,
                          torn |-> emit[t].raced]
      <4>1. wire' = Append(wire, line)
        BY <3>1 DEF Println
      <4>2. ~line.torn
        BY DEF NothingTorn
      <4> HIDE DEF line
      <4> QED BY <1>1, <4>1, <4>2 DEF NothingTorn
    <3>2. CASE wire' = wire
      BY <3>2 DEF NothingTorn
    <3>3. CASE wire' = <<>>
      BY <3>3, EmptyTyped
    <3> QED BY <1>2, <3>1, <3>2, <3>3 DEF GatewayRuns, HandleFrame, HandleRepeat,
            SelfReport, WriteRest, GatewayRestarts
  <2> QED BY <2>1, <2>2, <2>3 DEF NothingTorn
<1>3. CASE Transport
  <2>1. wire # <<>> /\ wire' = Tail(wire) /\ emit' = emit /\ cur' = cur
    BY <1>3 DEF Transport, Delivered, Lost, gateway, writer
  <2>2. \A i \in DOMAIN wire' : ~wire'[i].torn
    BY <1>1, <2>1 DEF NothingTorn
  <2>3. CASE Delivered
    <3> DEFINE m == Published(Head(wire))
    <3>1. work' = Append(work, m)
      BY <2>3 DEF Delivered, Put
    <3>2. ~m.torn
      BY <1>1, <2>1 DEF NothingTorn, Published
    <3> HIDE DEF m
    <3> QED BY <1>1, <2>1, <2>2, <3>1, <3>2 DEF NothingTorn
  <2>4. CASE Lost
    BY <2>1, <2>2, <2>4 DEF Lost, NothingTorn
  <2> QED BY <1>3, <2>3, <2>4 DEF Transport
<1>4. CASE WriterRuns
  <2>1. emit' = emit /\ wire' = wire
    BY <1>4 DEF WriterRuns, Take, Upserted, Observed, Enqueued, WriteFails,
       SensorRestarts, gateway
  <2>2. CASE Take
    <3>1. work # <<>> /\ cur' = Head(work) /\ work' = Tail(work)
      BY <2>2 DEF Take
    <3> QED BY <1>1, <2>1, <3>1 DEF NothingTorn
  <2>3. CASE ~Take
    <3>1. (work' = work \/ work' = <<>>) /\ (cur' = cur \/ cur' = NoMessage)
      BY <1>4, <2>3 DEF WriterRuns, Upserted, Observed, Enqueued, WriteFails,
         SensorRestarts, NextFrame
    <3>2. \A i \in DOMAIN work' : ~work'[i].torn
      BY <3>1, EmptyTyped DEF NothingTorn
    <3> QED BY <2>1, <3>1, <3>2 DEF NothingTorn, NoMessage
  <2> QED BY <2>2, <2>3
<1>5. CASE RegistryEdited \/ Tick \/ UNCHANGED vars
  <2>1. wire' = wire /\ work' = work /\ cur' = cur /\ emit' = emit
    BY <1>5 DEF RegistryEdited, Tick, vars, gateway, writer
  <2> QED BY <2>1 DEF NothingTorn
<1> QED BY <1>2, <1>3, <1>4, <1>5 DEF Next

\* If the gateway's two tasks never format at once, every row is stored under
\* the node that reported it: a lock for g_json is all that exact attribution
\* needs, whatever is repeated, lost, shed or restarted.
THEOREM LockSuffices ==
  Spec => ([]OneTaskWrites =>
             [](pc \in {"observe", "enqueue"} => cur.node = cur.about))
<1>1. Init => NothingTorn
  <2> SUFFICES ASSUME Init PROVE NothingTorn
    OBVIOUS
  <2>1. \A t \in Task : emit[t] = Idle
    BY DEF Init
  <2> QED BY <2>1, EmptyTyped DEF Init, NothingTorn, NoMessage, Idle
<1>2. TypeOK /\ NothingTorn /\ OneTaskWrites' /\ [Next]_vars => NothingTorn'
  BY NothingTornStep
<1>3. NothingTorn /\ AttributionExplained
        => (pc \in {"observe", "enqueue"} => cur.node = cur.about)
  BY DEF NothingTorn, AttributionExplained
<1> QED BY <1>1, <1>2, <1>3, TypeCorrect, AttributionHolds, PTL DEF Spec

-----------------------------------------------------------------------------
(* The order of storing.                                                   *)

LEMMA BoundTyped ==
  ASSUME TypeOK
  PROVE  \A x \in Node : Bound(x) \in Nat
<1> SUFFICES ASSUME NEW x \in Node PROVE Bound(x) \in Nat
  OBVIOUS
<1>1. CASE x \notin Anchor
  BY <1>1, Bounds DEF Bound, TypeOK
<1>2. CASE x \in Anchor /\ last[x] = Nothing
  BY <1>2 DEF Bound
<1>3. CASE x \in Anchor /\ last[x] # Nothing
  <2>1. last[x] \in Text
    BY <1>3 DEF TypeOK
  <2> QED BY <1>3, <2>1, TextFields, Bounds DEF Bound
<1> QED BY <1>1, <1>2, <1>3

\* A later frame of a node is not older than what an earlier one is not.
LEMMA WiredMonotone ==
  ASSUME TypeOK, WireInOrder, NEW x \in Node, NEW k \in Nat, NEW m \in Nat,
         k <= m, Wired(x, k)
  PROVE  Wired(x, m)
<1>1. newest[x] \in Nat /\ newest[x] <= m
  BY Bounds DEF TypeOK, Wired, Queued, Handled
<1>2. ASSUME pc # "idle", cur.node = x PROVE cur.n <= m
  <2>1. cur \in Message
    BY <1>2 DEF TypeOK
  <2>2. cur.n \in Nat
    BY <2>1, Bounds DEF Message
  <2> QED BY <1>2, <2>2 DEF Wired, Queued, Handled
<1>3. ASSUME NEW i \in DOMAIN work, work[i].node = x PROVE work[i].n <= m
  <2>1. work[i] \in Message
    BY DEF TypeOK
  <2>2. work[i].n \in Nat
    BY <2>1, Bounds DEF Message
  <2> QED BY <1>3, <2>2 DEF Wired, Queued
<1>4. ASSUME NEW i \in DOMAIN wire, wire[i].head.src = x PROVE wire[i].head.n <= m
  <2>1. wire[i] \in Line /\ wire[i].head # Nothing
    BY DEF TypeOK, WireInOrder
  <2>2. wire[i].head.n \in Nat
    BY <2>1, TextFields, Bounds DEF Line
  <2> QED BY <1>4, <2>2 DEF Wired
<1> QED BY <1>1, <1>2, <1>3, <1>4 DEF Wired, Queued, Handled

\* A step that leaves the later stages alone leaves their order alone.
LEMMA DownstreamKept ==
  ASSUME WireInOrder, WorkInOrder, CurInOrder,
         UNCHANGED <<wire, work, pc, cur, newest>>
  PROVE  /\ WireInOrder' /\ WorkInOrder' /\ CurInOrder'
         /\ \A x \in Node, k \in Nat : Wired(x, k)' <=> Wired(x, k)
BY DEF WireInOrder, WorkInOrder, CurInOrder, Wired, Queued, Handled

\* So do the gateway's, of a step that leaves the gateway alone.
LEMMA UpstreamKept ==
  ASSUME TypeOK, OrderInv, UNCHANGED <<sent, last, g_json, emit>>,
         \A x \in Node, k \in Nat : Wired(x, k) => Wired(x, k)'
  PROVE  LastOwn' /\ BoundInOrder' /\ BufferInOrder'
<1>1. LastOwn'
  BY DEF OrderInv, LastOwn
<1>2. BoundInOrder'
  <2>1. ASSUME NEW x \in Node PROVE Wired(x, Bound(x))' /\ Bound(x)' <= sent'
    <3>1. PICK b \in Nat : b = Bound(x)
      BY BoundTyped
    <3>2. Bound(x)' = b /\ b <= sent /\ Wired(x, b)
      BY <3>1 DEF Bound, OrderInv, BoundInOrder
    <3>3. Wired(x, b)'
      BY <3>2
    <3> QED BY <3>2, <3>3 DEF Wired, Queued, Handled
  <2> QED BY <2>1 DEF BoundInOrder
<1>3. BufferInOrder'
  <2>1. CASE g_json.head = Nothing
    BY <2>1 DEF OrderInv, BufferInOrder
  <2>2. CASE g_json.head # Nothing
    <3>1. g_json.head \in Text
      BY DEF TypeOK
    <3>2. PICK s \in Node, k \in Nat : s = g_json.head.src /\ k = g_json.head.n
      BY <2>2, <3>1, TextFields, Bounds
    <3>3. Wired(s, k) /\ k <= Bound(s)
      BY <2>2, <3>2 DEF OrderInv, BufferInOrder
    <3>4. Wired(s, k)' /\ k <= Bound(s)'
      BY <3>3 DEF Bound
    <3>5. Wired(g_json.head.src, g_json.head.n)'
      BY <3>2, <3>4 DEF Wired, Queued, Handled
    <3>6. (g_json.head.n <= Bound(g_json.head.src))'
      BY <3>2, <3>4 DEF Bound
    <3>7. \A t \in Task : emit'[t].pc # "idle" => g_json'.head # Nothing
      BY DEF OrderInv, BufferInOrder
    <3> QED BY <3>5, <3>6, <3>7 DEF BufferInOrder
  <2> QED BY <2>1, <2>2
<1> QED BY <1>1, <1>2, <1>3

\* A line of a new frame, or of the newest of its node, is begun.
LEMMA BeginInOrder ==
  ASSUME TypeOK, OrderInv, NEW t \in Task, NEW f \in Frame, Begin(t, f),
         UNCHANGED <<wire, work, pc, cur, newest>>,
         \A x \in Node :
           Bound(x)' \in Nat /\ Bound(x) <= Bound(x)' /\ Bound(x)' <= sent',
         f.n = Bound(f.src)'
  PROVE  BoundInOrder' /\ BufferInOrder' /\ WireInOrder' /\ WorkInOrder' /\ CurInOrder'
<1>1. /\ WireInOrder' /\ WorkInOrder' /\ CurInOrder'
      /\ \A x \in Node, k \in Nat : Wired(x, k)' <=> Wired(x, k)
  BY DownstreamKept DEF OrderInv
<1>2. ASSUME NEW x \in Node, NEW b \in Nat, b = Bound(x)' PROVE Wired(x, b)'
  <2>1. Bound(x) \in Nat /\ Wired(x, Bound(x)) /\ Bound(x) <= b
    BY <1>2, BoundTyped DEF OrderInv, BoundInOrder
  <2>2. Wired(x, b)
    BY <2>1, WiredMonotone DEF OrderInv
  <2> QED BY <1>1, <2>2
<1>3. BoundInOrder'
  <2> SUFFICES ASSUME NEW x \in Node PROVE Wired(x, Bound(x))' /\ Bound(x)' <= sent'
    BY DEF BoundInOrder
  <2>1. PICK b \in Nat : b = Bound(x)'
    OBVIOUS
  <2>2. Wired(x, b)'
    BY <1>2, <2>1
  <2> QED BY <2>1, <2>2 DEF Wired, Queued, Handled
<1>4. f # Nothing /\ f.src \in Node /\ f.n \in Nat /\ f \in Text
  BY PipelineAssumption, Bounds DEF Frame, Text
<1>5. Wired(f.src, f.n)'
  BY <1>2, <1>4
<1>6. g_json'.head = f
  BY BeginEmit
<1>7. BufferInOrder'
  BY <1>4, <1>5, <1>6 DEF BufferInOrder, Wired, Queued, Handled
<1> QED BY <1>1, <1>3, <1>7

\* The gateway prints what is not newer than its node's newest frame.
LEMMA GatewayInOrder ==
  ASSUME TypeOK, OrderInv, GatewayRuns
  PROVE  OrderInv'
<1> USE PipelineAssumption
<1>1. ASSUME NEW a \in Anchor, HandleFrame(a) PROVE OrderInv'
  <2>1. PICK kind \in {"scan", "status"} :
          LET f == [src |-> a, kind |-> kind, n |-> sent'] IN
          Begin("wifi", f) /\ last' = [last EXCEPT ![a] = f]
    BY <1>1 DEF HandleFrame
  <2>2. sent' = sent + 1 /\ sent' \in 1..MaxFrames /\ sent \in Nat
    BY <1>1, Bounds DEF HandleFrame, TypeOK
  <2>3. [src |-> a, kind |-> kind, n |-> sent'] \in Frame
    BY <2>2 DEF Frame, Node, Kind
  <2>4. PICK f \in Frame : /\ f.src = a /\ f.n = sent'
                           /\ Begin("wifi", f) /\ last' = [last EXCEPT ![a] = f]
    BY <2>1, <2>3
  <2>5. f # Nothing /\ last'[a] = f /\ \A b \in Anchor \ {a} : last'[b] = last[b]
    BY <2>4 DEF TypeOK
  <2>6. LastOwn'
    BY <2>4, <2>5 DEF OrderInv, LastOwn
  <2>7. ASSUME NEW x \in Node
        PROVE  Bound(x)' \in Nat /\ Bound(x) <= Bound(x)' /\ Bound(x)' <= sent'
    <3>1. Bound(x) \in Nat /\ Bound(x) <= sent
      BY BoundTyped DEF OrderInv, BoundInOrder
    <3>2. CASE x = a
      BY <2>2, <2>4, <2>5, <3>1, <3>2 DEF Bound
    <3>3. CASE x # a
      BY <2>2, <2>5, <3>1, <3>3 DEF Bound
    <3> QED BY <3>2, <3>3
  <2>8. f.n = Bound(f.src)'
    BY <2>4, <2>5 DEF Bound
  <2>9. UNCHANGED <<wire, work, pc, cur, newest>>
    BY <1>1 DEF HandleFrame, writer
  <2> QED BY <2>4, <2>6, <2>7, <2>8, <2>9, BeginInOrder DEF OrderInv, Task
<1>2. ASSUME NEW a \in Anchor, HandleRepeat(a) PROVE OrderInv'
  <2>1. last[a] \in Frame /\ last[a].src = a
    BY <1>2, TextFields DEF HandleRepeat, TypeOK, OrderInv, LastOwn
  <2>2. last' = last /\ sent' = sent /\ UNCHANGED <<wire, work, pc, cur, newest>>
    BY <1>2 DEF HandleRepeat, writer
  <2>3. \A x \in Node : Bound(x)' = Bound(x)
    BY <2>2 DEF Bound
  <2>4. \A x \in Node :
          Bound(x)' \in Nat /\ Bound(x) <= Bound(x)' /\ Bound(x)' <= sent'
    BY <2>2, <2>3, BoundTyped DEF OrderInv, BoundInOrder
  <2>5. last[a].n = Bound(last[a].src)'
    BY <1>2, <2>1, <2>2 DEF Bound, HandleRepeat
  <2>6. LastOwn'
    BY <2>2 DEF OrderInv, LastOwn
  <2>7. Begin("wifi", last[a])
    BY <1>2 DEF HandleRepeat
  <2> QED BY <2>1, <2>2, <2>4, <2>5, <2>6, <2>7, BeginInOrder DEF OrderInv, Task
<1>3. CASE SelfReport
  <2>1. PICK kind \in Kind :
          Begin("loop", [src |-> Gateway, kind |-> kind, n |-> sent'])
    BY <1>3 DEF SelfReport
  <2>2. sent' = sent + 1 /\ sent' \in 1..MaxFrames /\ sent \in Nat
    BY <1>3, Bounds DEF SelfReport, TypeOK
  <2>3. [src |-> Gateway, kind |-> kind, n |-> sent'] \in Frame
    BY <2>2 DEF Frame, Node
  <2>4. PICK f \in Frame : f.src = Gateway /\ f.n = sent' /\ Begin("loop", f)
    BY <2>1, <2>3
  <2>5. last' = last /\ UNCHANGED <<wire, work, pc, cur, newest>>
    BY <1>3 DEF SelfReport, writer
  <2>6. ASSUME NEW x \in Node
        PROVE  Bound(x)' \in Nat /\ Bound(x) <= Bound(x)' /\ Bound(x)' <= sent'
    <3>1. Bound(x) \in Nat /\ Bound(x) <= sent
      BY BoundTyped DEF OrderInv, BoundInOrder
    <3> QED BY <2>2, <2>5, <3>1 DEF Bound
  <2>7. f.n = Bound(f.src)'
    BY <2>4 DEF Bound
  <2>8. LastOwn'
    BY <2>5 DEF OrderInv, LastOwn
  <2> QED BY <2>4, <2>5, <2>6, <2>7, <2>8, BeginInOrder DEF OrderInv, Task
<1>4. ASSUME NEW t \in Task, WriteRest(t) PROVE OrderInv'
  <2>1. /\ last' = last /\ sent' = sent
        /\ UNCHANGED <<wire, work, pc, cur, newest>> /\ g_json'.head = g_json.head
    BY <1>4 DEF WriteRest, writer, TypeOK
  <2>2. \A u \in Task : emit'[u].pc # "idle" => emit[u].pc # "idle"
    BY <1>4 DEF WriteRest, TypeOK, Emission
  <2>3. WireInOrder' /\ WorkInOrder' /\ CurInOrder'
    BY <2>1, DownstreamKept DEF OrderInv
  <2>4. LastOwn' /\ BoundInOrder'
    BY <2>1 DEF OrderInv, LastOwn, BoundInOrder, Bound, Wired, Queued, Handled
  <2>5. BufferInOrder'
    BY <2>1, <2>2 DEF OrderInv, BufferInOrder, Bound, Wired, Queued, Handled
  <2> QED BY <2>3, <2>4, <2>5 DEF OrderInv
<1>5. ASSUME NEW t \in Task, Println(t) PROVE OrderInv'
  <2> DEFINE line == [head |-> g_json.head, rest |-> g_json.rest,
                      torn |-> emit[t].raced]
  <2>1. wire' = Append(wire, line) /\ wire \in Seq(Line) /\ g_json' = g_json
    BY <1>5 DEF Println, TypeOK
  <2>2. last' = last /\ sent' = sent /\ UNCHANGED <<work, pc, cur, newest>>
    BY <1>5 DEF Println, writer
  <2>3. g_json.head # Nothing /\ g_json.head \in Text
    BY <1>5 DEF Println, OrderInv, BufferInOrder, TypeOK
  <2>4. line.head = g_json.head
    OBVIOUS
  <2> HIDE DEF line
  <2>5. /\ DOMAIN wire' = 1..(Len(wire) + 1) /\ DOMAIN wire = 1..Len(wire)
        /\ Len(wire) \in Nat
        /\ \A i \in DOMAIN wire : wire'[i] = wire[i]
        /\ wire'[Len(wire) + 1] = line
    BY <2>1
  <2>6. ASSUME NEW i \in DOMAIN wire'
        PROVE  \/ i \in DOMAIN wire /\ wire'[i] = wire[i]
               \/ i = Len(wire) + 1 /\ wire'[i].head = g_json.head
    <3>1. i \in DOMAIN wire \/ i = Len(wire) + 1
      BY <2>5
    <3> QED BY <2>4, <2>5, <3>1
  <2> DEFINE h == g_json.head
  <2>7. h.src \in Node /\ h.n \in Nat
    BY <2>3, TextFields, Bounds
  <2>8. Wired(h.src, h.n) /\ h.n <= Bound(h.src)
    BY <2>3 DEF OrderInv, BufferInOrder
  <2>9. ASSUME NEW x \in Node, NEW k \in Nat, Wired(x, k), h.src = x => h.n <= k
        PROVE  Wired(x, k)'
    <3>1. \A i \in DOMAIN wire' : wire'[i].head.src = x => wire'[i].head.n <= k
      BY <2>6, <2>9 DEF Wired
    <3> QED BY <2>2, <2>9, <3>1 DEF Wired, Queued, Handled
  <2>10. LastOwn' /\ WorkInOrder' /\ CurInOrder'
    BY <2>2 DEF OrderInv, LastOwn, WorkInOrder, CurInOrder, Handled
  <2>11. BoundInOrder'
    <3>1. ASSUME NEW x \in Node PROVE Bound(x)' = Bound(x)
      BY <2>2 DEF Bound
    <3>2. ASSUME NEW x \in Node, NEW b \in Nat, b = Bound(x) PROVE Wired(x, b)'
      <4>1. Wired(x, b)
        BY <3>2 DEF OrderInv, BoundInOrder
      <4>2. h.src = x => h.n <= b
        BY <2>8, <3>2
      <4> QED BY <2>9, <4>1, <4>2
    <3>3. ASSUME NEW x \in Node PROVE Wired(x, Bound(x))' /\ Bound(x)' <= sent'
      <4>1. PICK b \in Nat : b = Bound(x)
        BY BoundTyped
      <4>2. Wired(x, b)' /\ Bound(x)' = b
        BY <3>1, <3>2, <4>1
      <4>3. b <= sent
        BY <4>1 DEF OrderInv, BoundInOrder
      <4> QED BY <2>2, <4>2, <4>3 DEF Wired, Queued, Handled
    <3> QED BY <3>3 DEF BoundInOrder
  <2>12. BufferInOrder'
    <3>1. PICK s \in Node, k \in Nat : s = h.src /\ k = h.n
      BY <2>7
    <3>2. Wired(s, k)'
      BY <2>8, <2>9, <3>1
    <3>3. (h.n <= Bound(h.src))'
      BY <2>1, <2>2, <2>8 DEF Bound
    <3>4. Wired(h.src, h.n)'
      BY <2>1, <3>1, <3>2 DEF Wired, Queued, Handled
    <3> QED BY <2>1, <2>3, <3>3, <3>4 DEF BufferInOrder
  <2>13. WireInOrder'
    <3> SUFFICES ASSUME NEW i \in DOMAIN wire'
                 PROVE  /\ wire'[i].head # Nothing
                        /\ Queued(wire[i].head.src, wire[i].head.n)'
                        /\ \A j \in DOMAIN wire' :
                             i <= j /\ wire'[i].head.src = wire'[j].head.src =>
                               wire'[i].head.n <= wire'[j].head.n
      BY DEF WireInOrder
    <3>1. CASE i \in DOMAIN wire
      <4>1. wire'[i] = wire[i]
        BY <2>5, <3>1
      <4>2. wire'[i].head # Nothing /\ Queued(wire[i].head.src, wire[i].head.n)'
        BY <2>2, <3>1, <4>1 DEF OrderInv, WireInOrder, Queued, Handled
      <4>3. ASSUME NEW j \in DOMAIN wire', i <= j,
                   wire'[i].head.src = wire'[j].head.src
            PROVE  wire'[i].head.n <= wire'[j].head.n
        <5>1. CASE j \in DOMAIN wire
          BY <2>5, <3>1, <4>1, <4>3, <5>1 DEF OrderInv, WireInOrder
        <5>2. CASE wire'[j].head = h
          BY <2>8, <3>1, <4>1, <4>3, <5>2 DEF Wired
        <5> QED BY <2>6, <5>1, <5>2
      <4> QED BY <4>2, <4>3
    <3>2. CASE i = Len(wire) + 1
      <4>1. wire'[i].head = h /\ \A j \in DOMAIN wire' : i <= j => j = i
        BY <2>4, <2>5, <3>2
      <4>2. Queued(wire[i].head.src, wire[i].head.n)'
        BY <2>2, <2>8, <4>1 DEF Wired, Queued, Handled
      <4> QED BY <2>3, <2>7, <4>1, <4>2
    <3> QED BY <2>5, <3>1, <3>2
  <2> QED BY <2>10, <2>11, <2>12, <2>13 DEF OrderInv
<1>6. CASE GatewayRestarts
  <2>1. /\ last' = last /\ sent' = sent /\ UNCHANGED <<work, pc, cur, newest>>
        /\ wire' = wire \/ wire' = <<>>
        /\ g_json'.head = Nothing /\ \A t \in Task : emit'[t].pc = "idle"
    BY <1>6 DEF GatewayRestarts, writer, Idle
  <2>2. \A i \in DOMAIN wire' : i \in DOMAIN wire /\ wire' = wire
    BY <2>1, EmptyTyped
  <2>3. LastOwn' /\ WorkInOrder' /\ CurInOrder' /\ BufferInOrder'
    BY <2>1 DEF OrderInv, LastOwn, WorkInOrder, CurInOrder, BufferInOrder, Handled
  <2>4. WireInOrder'
    BY <2>1, <2>2 DEF OrderInv, WireInOrder, Queued, Handled
  <2>5. BoundInOrder'
    BY <2>1, <2>2 DEF OrderInv, BoundInOrder, Bound, Wired, Queued, Handled
  <2> QED BY <2>3, <2>4, <2>5 DEF OrderInv
<1> QED BY <1>1, <1>2, <1>3, <1>4, <1>5, <1>6 DEF GatewayRuns

\* A line that is delivered stands before all that is still on the wire.
LEMMA TransportInOrder ==
  ASSUME TypeOK, OrderInv, Transport
  PROVE  OrderInv'
<1>1. /\ wire # <<>> /\ wire' = Tail(wire) /\ wire \in Seq(Line)
      /\ last' = last /\ sent' = sent /\ g_json' = g_json /\ emit' = emit
      /\ UNCHANGED <<pc, cur, newest>>
  BY DEF Transport, Delivered, Lost, gateway, writer, TypeOK
<1>2. /\ \A i \in DOMAIN wire' : i + 1 \in DOMAIN wire /\ wire'[i] = wire[i + 1]
      /\ DOMAIN wire' \subseteq Nat /\ 1 \in DOMAIN wire
  BY <1>1
<1> DEFINE h == wire[1].head
<1>3. /\ h # Nothing /\ h \in Text /\ Queued(h.src, h.n)
      /\ \A j \in DOMAIN wire : wire[j].head.src = h.src => h.n <= wire[j].head.n
  <2>1. \A j \in DOMAIN wire : 1 <= j
    BY <1>1
  <2>2. wire[1] \in Line
    BY <1>1, <1>2
  <2> QED BY <1>2, <2>1, <2>2 DEF OrderInv, WireInOrder, Line
<1>4. h.src \in Node /\ h.n \in Nat
  BY <1>3, TextFields, Bounds
<1>5. \* The queue is as it was, or has taken the line up.
      /\ work \in Seq(Message) /\ DOMAIN work = 1..Len(work) /\ Len(work) \in Nat
      /\ \A i \in DOMAIN work' :
           \/ i \in DOMAIN work /\ work'[i] = work[i]
           \/ i = Len(work) + 1 /\ work'[i].node = h.src /\ work'[i].n = h.n
  <2>1. work \in Seq(Message) /\ DOMAIN work = 1..Len(work) /\ Len(work) \in Nat
    BY DEF TypeOK
  <2>2. CASE Lost
    BY <2>1, <2>2 DEF Lost
  <2>3. CASE Delivered
    <3> DEFINE m == Published(Head(wire))
    <3>1. work' = Append(work, m)
      BY <2>3 DEF Delivered, Put
    <3>2. m.node = h.src /\ m.n = h.n
      BY <1>1 DEF Published, NodeId
    <3> HIDE DEF m
    <3>3. DOMAIN work' = 1..(Len(work) + 1) /\ work'[Len(work) + 1] = m
          /\ \A i \in DOMAIN work : work'[i] = work[i]
      BY <2>1, <3>1
    <3>4. ASSUME NEW i \in DOMAIN work'
          PROVE  i \in DOMAIN work \/ i = Len(work) + 1
      BY <2>1, <3>3
    <3> QED BY <2>1, <3>2, <3>3, <3>4
  <2> QED BY <2>1, <2>2, <2>3 DEF Transport
<1>6. ASSUME NEW x \in Node, NEW k \in Nat, Queued(x, k), h.src = x => h.n <= k
      PROVE  Queued(x, k)'
  <2>1. \A i \in DOMAIN work' : work'[i].node = x => work'[i].n <= k
    BY <1>5, <1>6 DEF Queued
  <2> QED BY <1>1, <1>6, <2>1 DEF Queued, Handled
<1>7. ASSUME NEW x \in Node, NEW k \in Nat, Wired(x, k)
      PROVE  Wired(x, k)'
  <2>1. Queued(x, k) /\ (h.src = x => h.n <= k)
    BY <1>2, <1>7 DEF Wired
  <2>2. Queued(x, k)'
    BY <1>6, <2>1
  <2>3. \A i \in DOMAIN wire' : wire'[i].head.src = x => wire'[i].head.n <= k
    BY <1>2, <1>7 DEF Wired
  <2> QED BY <2>2, <2>3 DEF Wired
<1>8. CurInOrder'
  BY <1>1 DEF OrderInv, CurInOrder
<1>9. LastOwn' /\ BoundInOrder' /\ BufferInOrder'
  BY <1>1, <1>7, UpstreamKept
<1>10. WireInOrder'
  <2> SUFFICES ASSUME NEW i \in DOMAIN wire'
               PROVE  /\ wire'[i].head # Nothing
                      /\ Queued(wire[i].head.src, wire[i].head.n)'
                      /\ \A j \in DOMAIN wire' :
                           i <= j /\ wire'[i].head.src = wire'[j].head.src =>
                             wire'[i].head.n <= wire'[j].head.n
    BY DEF WireInOrder
  <2>1. /\ wire[i + 1].head # Nothing /\ i + 1 \in DOMAIN wire
        /\ wire'[i] = wire[i + 1] /\ wire[i + 1] \in Line
    BY <1>1, <1>2 DEF OrderInv, WireInOrder
  <2>2. PICK s \in Node, k \in Nat : s = wire[i + 1].head.src /\ k = wire[i + 1].head.n
    BY <2>1, TextFields, Bounds DEF Line
  <2>3. Queued(s, k) /\ (h.src = s => h.n <= k)
    BY <1>3, <2>1, <2>2 DEF OrderInv, WireInOrder
  <2>4. Queued(s, k)'
    BY <1>6, <2>3
  <2>5. Queued(wire[i].head.src, wire[i].head.n)'
    BY <2>1, <2>2, <2>4 DEF Queued, Handled
  <2>6. ASSUME NEW j \in DOMAIN wire', i <= j, wire'[i].head.src = wire'[j].head.src
        PROVE  wire'[i].head.n <= wire'[j].head.n
    <3>1. /\ j + 1 \in DOMAIN wire /\ wire'[j] = wire[j + 1]
          /\ i \in Nat /\ j \in Nat
      BY <1>2
    <3>2. i + 1 <= j + 1
      BY <2>6, <3>1
    <3> QED BY <2>1, <2>6, <3>1, <3>2 DEF OrderInv, WireInOrder
  <2> QED BY <2>1, <2>5, <2>6
<1>11. WorkInOrder'
  <2> SUFFICES ASSUME NEW i \in DOMAIN work'
               PROVE  /\ Handled(work[i].node, work[i].n)'
                      /\ \A j \in DOMAIN work' :
                           i <= j /\ work'[i].node = work'[j].node =>
                             work'[i].n <= work'[j].n
    BY DEF WorkInOrder
  <2>1. CASE i \in DOMAIN work /\ work'[i] = work[i]
    <3>1. Handled(work[i].node, work[i].n)'
      BY <1>1, <2>1 DEF OrderInv, WorkInOrder, Handled
    <3>2. ASSUME NEW j \in DOMAIN work', i <= j, work'[i].node = work'[j].node
          PROVE  work'[i].n <= work'[j].n
      <4>1. CASE j \in DOMAIN work /\ work'[j] = work[j]
        BY <2>1, <3>2, <4>1 DEF OrderInv, WorkInOrder
      <4>2. CASE work'[j].node = h.src /\ work'[j].n = h.n
        BY <1>3, <2>1, <3>2, <4>2 DEF Queued
      <4> QED BY <1>5, <4>1, <4>2
    <3> QED BY <3>1, <3>2
  <2>2. CASE i = Len(work) + 1 /\ work'[i].node = h.src /\ work'[i].n = h.n
    <3>1. Handled(work[i].node, work[i].n)'
      BY <1>1, <1>3, <2>2 DEF Queued, Handled
    <3>2. \A j \in DOMAIN work' : i <= j => j = i
      BY <1>5, <2>2
    <3> QED BY <1>4, <2>2, <3>1, <3>2
  <2> QED BY <1>5, <2>1, <2>2
<1> QED BY <1>8, <1>9, <1>10, <1>11 DEF OrderInv

\* What the writer takes up is older than all that is still queued, and what it
\* stores is not older than what is stored.
LEMMA WriterInOrder ==
  ASSUME TypeOK, OrderInv, WriterRuns
  PROVE  OrderInv'
<1>1. UNCHANGED <<sent, last, g_json, emit, wire>>
  BY DEF WriterRuns, Take, Upserted, Observed, Enqueued, WriteFails, SensorRestarts,
     gateway
<1>2. /\ \A x \in Node, k \in Nat : Queued(x, k) => Queued(x, k)'
      /\ WorkInOrder' /\ CurInOrder'
  <2>1. CASE Take
    <3>1. /\ pc = "idle" /\ pc' = "upsert" /\ newest' = newest
          /\ work # <<>> /\ work \in Seq(Message)
          /\ cur' = Head(work) /\ work' = Tail(work)
      BY <2>1 DEF Take, TypeOK
    <3>2. /\ 1 \in DOMAIN work /\ cur' = work[1]
          /\ \A i \in DOMAIN work' :
               i \in Nat /\ i + 1 \in DOMAIN work /\ work'[i] = work[i + 1]
      BY <3>1
    <3>3. /\ Handled(work[1].node, work[1].n)
          /\ \A j \in DOMAIN work : work[1].node = work[j].node => work[1].n <= work[j].n
      <4>1. \A j \in DOMAIN work : 1 <= j
        BY <3>1
      <4> QED BY <3>2, <4>1 DEF OrderInv, WorkInOrder
    <3>4. ASSUME NEW x \in Node, NEW k \in Nat, Queued(x, k) PROVE Queued(x, k)'
      BY <3>1, <3>2, <3>4 DEF Queued, Handled
    <3>5. CurInOrder'
      BY <3>1, <3>2, <3>3 DEF CurInOrder, Handled
    <3>6. ASSUME NEW i \in DOMAIN work'
          PROVE  /\ Handled(work[i].node, work[i].n)'
                 /\ \A j \in DOMAIN work' :
                      i <= j /\ work'[i].node = work'[j].node => work'[i].n <= work'[j].n
      <4>1. newest[work[i + 1].node] <= work[i + 1].n
        BY <3>2 DEF OrderInv, WorkInOrder, Handled
      <4>2. Handled(work[i].node, work[i].n)'
        BY <3>1, <3>2, <3>3, <4>1 DEF Handled
      <4>3. ASSUME NEW j \in DOMAIN work', i <= j, work'[i].node = work'[j].node
            PROVE  work'[i].n <= work'[j].n
        <5>1. i + 1 <= j + 1
          BY <3>2, <4>3
        <5> QED BY <3>2, <4>3, <5>1 DEF OrderInv, WorkInOrder
      <4> QED BY <4>2, <4>3
    <3> QED BY <3>4, <3>5, <3>6 DEF WorkInOrder
  <2>2. CASE ~Take
    <3>1. /\ work' = work \/ work' = <<>>
          /\ \/ pc' = "idle"
             \/ pc # "idle" /\ cur' = cur /\ newest' = newest
          /\ newest' = newest \/ Enqueued
      BY <2>2 DEF WriterRuns, Upserted, Observed, Enqueued, WriteFails,
         SensorRestarts, NextFrame
    <3>2. \A i \in DOMAIN work' : i \in DOMAIN work /\ work' = work
      BY <3>1, EmptyTyped
    <3>3. ASSUME NEW x \in Node, NEW k, Handled(x, k) PROVE newest'[x] <= k
      <4>1. CASE newest' = newest
        BY <3>3, <4>1 DEF Handled
      <4>2. CASE Enqueued
        <5>1. pc # "idle" /\ newest' = [newest EXCEPT ![cur.node] = cur.n]
          BY <4>2 DEF Enqueued
        <5>2. newest'[x] = IF cur.node = x THEN cur.n ELSE newest[x]
          BY <5>1 DEF TypeOK
        <5> QED BY <3>3, <5>1, <5>2 DEF Handled
      <4> QED BY <3>1, <4>1, <4>2
    <3>4. ASSUME NEW x \in Node, NEW k, Handled(x, k) PROVE Handled(x, k)'
      BY <3>1, <3>3, <3>4 DEF Handled
    <3>5. \A x \in Node, k \in Nat : Queued(x, k) => Queued(x, k)'
      BY <3>2, <3>4 DEF Queued
    <3>6. CurInOrder'
      BY <3>1 DEF OrderInv, CurInOrder
    <3>7. ASSUME NEW i \in DOMAIN work' PROVE Handled(work[i].node, work[i].n)'
      <4>1. i \in DOMAIN work /\ work' = work
        BY <3>2
      <4>2. work[i] \in Message
        BY <4>1 DEF TypeOK
      <4>3. PICK s \in Node, k \in Int : s = work[i].node /\ k = work[i].n
        BY <4>2 DEF Message
      <4>4. Handled(s, k)'
        BY <3>4, <4>1, <4>3 DEF OrderInv, WorkInOrder
      <4> QED BY <4>1, <4>3, <4>4 DEF Handled
    <3>8. WorkInOrder'
      BY <3>2, <3>7 DEF OrderInv, WorkInOrder
    <3> QED BY <3>5, <3>6, <3>8
  <2> QED BY <2>1, <2>2
<1>3. \A x \in Node, k \in Nat : Wired(x, k) => Wired(x, k)'
  BY <1>1, <1>2 DEF Wired
<1>4. LastOwn' /\ BoundInOrder' /\ BufferInOrder'
  BY <1>1, <1>3, UpstreamKept
<1>5. WireInOrder'
  <2>1. ASSUME NEW i \in DOMAIN wire PROVE Queued(wire[i].head.src, wire[i].head.n)'
    <3>1. wire[i] \in Line /\ wire[i].head # Nothing
      BY DEF TypeOK, OrderInv, WireInOrder
    <3>2. PICK s \in Node, k \in Nat : s = wire[i].head.src /\ k = wire[i].head.n
      BY <3>1, TextFields, Bounds DEF Line
    <3>3. Queued(s, k)'
      BY <1>2, <3>2 DEF OrderInv, WireInOrder
    <3> QED BY <1>1, <3>2, <3>3 DEF Queued, Handled
  <2> QED BY <1>1, <2>1 DEF OrderInv, WireInOrder
<1> QED BY <1>2, <1>4, <1>5 DEF OrderInv

LEMMA OrderStep ==
  ASSUME TypeOK, OrderInv, [Next]_vars
  PROVE  OrderInv'
<1>1. CASE RegistryEdited \/ Tick \/ UNCHANGED vars
  <2>1. UNCHANGED <<sent, last, g_json, emit, wire, work, pc, cur, newest>>
    BY <1>1 DEF RegistryEdited, Tick, vars, gateway, writer
  <2>2. WireInOrder' /\ WorkInOrder' /\ CurInOrder'
    BY <2>1, DownstreamKept DEF OrderInv
  <2>3. LastOwn' /\ BoundInOrder' /\ BufferInOrder'
    BY <2>1 DEF OrderInv, LastOwn, BoundInOrder, BufferInOrder, Bound, Wired, Queued,
       Handled
  <2> QED BY <2>2, <2>3 DEF OrderInv
<1> QED BY <1>1, GatewayInOrder, TransportInOrder, WriterInOrder DEF Next

\* The rows of one observer are stored in the order in which it sent them, with
\* repeated, torn, lost and shed frames and restarts of either end.
THEOREM StoringInOrder == Spec => StoredInOrder
<1>1. Init => OrderInv
  <2> SUFFICES ASSUME Init PROVE OrderInv
    OBVIOUS
  <2>1. \A x \in Node : Bound(x) = 0
    BY DEF Init, Bound
  <2>2. LastOwn /\ WireInOrder /\ WorkInOrder /\ CurInOrder
    BY EmptyTyped DEF Init, LastOwn, WireInOrder, WorkInOrder, CurInOrder
  <2>3. BoundInOrder
    BY <2>1, EmptyTyped DEF Init, BoundInOrder, Wired, Queued, Handled
  <2>4. BufferInOrder
    BY DEF Init, BufferInOrder, Idle
  <2> QED BY <2>2, <2>3, <2>4 DEF OrderInv
<1>2. TypeOK /\ OrderInv /\ [Next]_vars => OrderInv'
  BY OrderStep
<1>3. TypeOK /\ OrderInv /\ [Next]_vars =>
        [\A n \in Node : newest'[n] >= newest[n]]_vars
  <2> SUFFICES ASSUME TypeOK, OrderInv, Next, NEW n \in Node
               PROVE  newest'[n] >= newest[n]
    OBVIOUS
  <2>1. newest[n] \in Nat
    BY Bounds DEF TypeOK
  <2>2. CASE Enqueued
    <3>1. pc # "idle" /\ newest' = [newest EXCEPT ![cur.node] = cur.n]
      BY <2>2 DEF Enqueued
    <3>2. cur.n \in Nat /\ newest[cur.node] <= cur.n
      BY <3>1, Bounds DEF OrderInv, CurInOrder, TypeOK, Message
    <3> QED BY <2>1, <3>1, <3>2 DEF TypeOK
  <2>3. CASE ~Enqueued
    <3>1. newest' = newest
      BY <2>3 DEF Next, RegistryEdited, Tick, GatewayRuns, HandleFrame, HandleRepeat,
         SelfReport, WriteRest, Println, GatewayRestarts, Transport, Delivered, Lost,
         WriterRuns, Take, Upserted, Observed, WriteFails, SensorRestarts
    <3> QED BY <2>1, <3>1
  <2> QED BY <2>2, <2>3
<1> QED BY <1>1, <1>2, <1>3, TypeCorrect, PTL DEF Spec, StoredInOrder

=============================================================================
