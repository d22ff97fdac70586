# Smart Trucks edge: a TLA+ model

TLA+ modules, TLC configurations and TLAPS proofs for the software that runs
on a truck: the data plane (`edge`: telematics-edge, ble-sensor, sync-service),
the wifi-provisioner beside it, the power-monitor (which `docker-compose.yml` does
not start at this commit), and the ESP32 anchors in the load bed. Every
definition is translated from the source named for it in `PROJECT.json`
(`map`); comments and documents were used only to find out what the code is
meant to do, and where the code does something else a run shows it.

## 1. The system

| Component | State it keeps | Operations | Talks to |
|---|---|---|---|
| **shared SQLite database** (`telematics-edge/db.py`, `shared/sqlite_util.py`) | four upload tables (`gps_points`, `heartbeats`, `edge_health`, `ble_scans`), each row with `sent_at_utc` and `attempt_count`; `wake_signals` | INSERT by the collectors, purge by age, UPDATE by sync-service, all with a write lock that may time out | every process of `edge`, the watchdog |
| **sync-service** (`sync-service/main.py`) | the batch under way, the beacon latch | load a batch per table, POST it, mark or bump its rows, priority beacon, drain until empty | database, cloud, Sentry sentinel |
| **telematics-edge** (`telematics-edge/main.py`, `sentry.py`) | `RuntimeState`: parked mode, wake event, WiFi flag, sentry flag; the sentinel file | asyncio workers: GPS, motion, heartbeat, maintenance, network watchdog, parked scan, sentry | database, sentinel, GPS, IMU, network |
| **ble-sensor** (`ble-sensor/main.py`) | scan episode counters, observation store | scan, back off, reset the adapter, resolve assets, key-beacon wake signal | BlueZ, database, sentinel |
| **anchor pipeline** (`anchor-bridge`, `ble-sensor/anchor_ingest.py`) | registry cache, bounded hand-off queue | read NDJSON, publish, fold frames into the store | gateway (serial), MQTT, database |
| **anchor firmware** (`anchor-firmware/src`) | aggregation table, ESP-NOW handshake flags, learned gateway | record adverts, report in parts, heartbeat, retry | gateway by radio |
| **edge watchdog** (`wifi-provisioner/edge_watchdog.py`) | boot grace, time of last restart | read the newest heartbeat, ask the Supervisor for a restart | database, Balena Supervisor |
| **wifi-provisioner** (`wifi-provisioner/main.py`, `nm.py`) | hotspot flag, rejoin event, time last online | raise and drop the hotspot, retry saved networks, portal | NetworkManager, technician |
| **NMEA reader** (`telematics-edge/nmea_reader.py`) | reader thread and its stop event, bounded line queue, merged reading | read lines, merge sentence types, emit a reading, start again after an error | receiver (serial or TCP), GPS track |
| **GPS track** (`telematics-edge/main.py`, `gps_filter.py`) | latest fix, filter state and anchor, stabilized position | read a fix, filter it, publish it, store a track point | NMEA reader, database, parked mode |
| **power-monitor** (`power-monitor/main.py`) | sensor driver with a coulomb counter, bounded sample queue, low-battery counter, shutdown latch | sample, recover the sensor, store, count breaches, power off | INA219 (I2C), database, host |
| **calibration tools**, **trip tracker**, **geofence** | | not in `docker-compose.yml`, or not imported by a running service | |
| **IMU reader** | filter state | signal processing | I2C device |

They interact through shared state more than through calls: the database, a
sentinel file on `/run`, one radio, one asyncio `RuntimeState`.

What is hard in each, and what correctness means:

* **Queue.** A batch is read, sent and marked in many transactions; the
  answer may be lost, the process may die between any two, writers and the
  purge run meanwhile. Correct: nothing is forgotten before it arrived, tables
  are drained oldest first, a backlog is not mistaken for an empty queue,
  nothing is repeated without cause, everything gets out.
* **Sentry Mode.** Five workers write the same flags across awaits; the
  process may die with the sentinel up. Correct: the co-processes are
  suspended only during a sleep that was announced (or could not be), and every
  reason to wake is acted on although the link is known only through a cached
  flag and a read of the charger may fail.
* **Watchdog.** It decides by wall-clock age on a device without an RTC,
  through a remote call whose answer may be lost, and may itself restart.
  Correct: restarts are spaced, a booting edge is left alone, a wedged edge is
  restarted.
* **Provisioner.** Supervisor, technician and NetworkManager move one radio;
  `nmcli` may fail after it took effect. Correct: the hotspot appears only
  after the grace period, reappears while offline, and does not keep the truck
  from a saved network.
* **Anchors.** Three tasks share a table and two flags; callbacks come late,
  acknowledgements get lost. Correct: what leaves the table was delivered, and
  a good link gets every window out.
* **Scanner.** A radio that refuses the one call that could clear it. Correct:
  a wedge ends in a power-cycle or a fresh connection, in time, and neither is
  used without cause or too often.
* **Pipeline.** Two tasks of the gateway format into one buffer, every stage up
  to the database may lose a line, and who may report is decided from a cached
  file. Correct: rows are stored under the node that reported them, in the
  order of its reports, and a node that was kept out stays out.
* **NMEA reader.** A thread that may outlive its join, a queue that drops, a
  reading merged from sentences that come in any order, errors in the middle.
  Correct: lines of two threads never mix, a lost fix is not published as a new
  one, every failure is recovered from.
* **GPS track.** Fixes stray, speeds read wrong, a fix is sampled long after it
  was read, an insert may fail after the filter has moved on. Correct: a truck
  that stands still is one point while its fixes are good, the point where it came to rest is on its
  track, and a stop is noticed.
* **power-monitor.** It decides on samples that may have waited, from a counter
  that starts where a freshly built driver says. Correct: a poweroff ends a run
  of low samples, comes in time, and a blind or missing sensor is found again.

## 2. Modules

| Module | Models | State and actions in the code |
|---|---|---|
| `StoreForward` | the promise of the queue, abstract: rows are held, may arrive, are forgotten only after that | `held` is the rows on the truck, `reached` those in the cloud |
| `SyncQueue` | tables, writers, purge, upload loop, cloud as seen by the loop | `store`/`sent`/`attempted` are rows, `sent_at_utc`, `attempt_count > 0`; `pc` walks `run()` and `sync_cycle()`, one step per transaction or await; `late` holds requests the client gave up on |
| `MCSyncQueue` | values of `Limit` for TLC | |
| `SyncQueueProofs` | proofs about `SyncQueue` | |
| `SentryMode` | `RuntimeState` flags, the five workers that touch them, sentinel, crash and boot | a step is what a worker does between two awaits |
| `SentryModeProofs` | proof about `SentryMode` | |
| `EdgeWatchdog` | `watchdog_worker`, Supervisor, clock, the edge seen through its heartbeats | `worker` is where the loop is, `age` the newest heartbeat's age, `up` and `since` the two monotonic timers |
| `WifiProvisioner` | `supervisor()`, portal handlers, `nmcli`'s effects, air and cable | `pc` walks `supervisor()`, `radio` is what wlan0 does |
| `WifiProvisionerProofs` | proofs about `WifiProvisioner` and `EdgeWatchdog`, two tasks of one process | |
| `AnchorNode` | an anchor's table, reports, heartbeats, `espnow_send_to_gateway` with `on_sent`, beacons, reboots | `table`, `snap`, `start`, `attempt`, `pending`, `ok` are the variables of the firmware; `air` is the driver's queue |
| `AnchorNodeProofs` | proofs about `AnchorNode` | |
| `AnchorPipeline` | the gateway's lines, bridge and MQTT, ingest queue, registry cache, writer thread | `g_json` is the buffer, `emit` how far each task is with its line, `wire` everything between `println` and `on_message`, `work` is `work_queue`; `pc` walks `handle_frame`, one step per transaction |
| `MCAnchorPipeline` | values of `Files` for TLC | |
| `AnchorPipelineProofs` | proofs about `AnchorPipeline` | |
| `BleScanner` | ble-sensor's scan loop, the adapter, `start.sh`'s restart | `pc` walks `run()`, `wait` is the sleep it is in; `attempt`, `contended` with `since`, and `sinceReset` are its counters and times |
| `BleScannerProofs` | proofs about `BleScanner` | |
| `GpsTrack` | `on_reading`, `gps_collector_worker`, `GpsTrackFilter`, the insert | `state`, `anchor`, `progress` are the filter's attributes, its two times are ages; one action per return of `process`; `still` and `fixStill` remember whether the truck has moved since a fix was read |
| `GpsTrackProofs` | proofs about `GpsTrack` and `NmeaReader`, whose readings it samples | |
| `NmeaReader` | reader thread, line queue, `read_loop`, `gps_reader_worker` | `thread` walks `_serial_reader_loop` and `_tcp_reader_loop`, `stray` is one that outlived its join; `readLoop` walks `read_loop` and the worker; `receiver` and `hasFix` are what the receiver sends; `reading` is what `_is_valid_fix` looks at |
| `PowerMonitor` | `sensor_loop`, `state_engine_loop`, the INA219 driver, the pack | `sensor` and `engine` are where the two loops are, `counter` and `requested` the low-battery counter and the latch; `total` is the coulomb counter, on the scale of the charge; `run` remembers the low samples taken since the last recovery |
| `PowerMonitorProofs` | proofs about `PowerMonitor` | |

The modules meet where the components do. `SyncQueue.Insert` is what the
workers of telematics-edge and ble-sensor store; `SyncQueue.ToggleSuspend` is
the sentinel `SentryMode` raises and clears, with any timing;
`EdgeWatchdog`'s parked edge is `SentryMode`'s parked mode seen from outside;
`SentryMode`'s `link` is what `WifiProvisioner` brings up; a frame that
reaches `received` in `AnchorNode` is one that `AnchorPipeline.HandleFrame` or,
if its acknowledgement was lost, `HandleRepeat` takes up, and
`AnchorPipeline.Enqueued` is another `SyncQueue.Insert`;
`NmeaReader.Publishes` is `GpsTrack.Read`. What
`PowerMonitor` sees of the database is its lock. Each module allows
its neighbours every order of steps, so what holds in it holds in the system. `EdgeWatchdog` and `NmeaReader` spell
their names out (`WatchdogNext`, `readerVars`), because each is extended beside
another component by one module of proofs.

`SyncQueue` is shown to implement `StoreForward` by `held <- store`,
`reached <- cloud`, `Discard <-` the rows of tables the cloud does not
recognise. (`docs/EDGE_SEAM_CLEANUP.md` tells of payload types the cloud
answers 2xx for and drops; `RefusedTables` is that.)

## 3. Runs

Every run keeps TLC's deadlock check on.

| Run | States | Question |
|---|---|---|
| `sync_queue` | 1,666,244 | safety of the queue and the refinement |
| `sync_live` | 28,934 | every row is sent |
| `sentry` | 136,640 | announced sleeps, wake-ups, database errors |
| `watchdog` | 4,002 | spacing, booting edges, wedged edges |
| `watchdog_parked` | violation | is a stale edge a wedged one? |
| `provisioner` | 17,280 | hotspot flag, hotspot while offline, rejoining |
| `anchor` | 498,952 | losses and delivery of windows |
| `pipeline` | 2,739,033 | attribution, order, quarantine |
| `scanner` | 529,708 | exits and power-cycles in time, spaced and justified |
| `nmea` | 48,220 | lines in order, lost fixes, recovery |
| `gps_track` | 428,396 | pinning, the stopping spot, stop detection |
| `power` | 1,250,202 | poweroffs with a cause and in time, a sensor found again |

**Bounds.** They are constants (`MaxId`, `MaxNow`, `MaxCrashes`, `MaxJumps`,
`MaxAdverts`, ...) that appear in guards only.

* `sync_queue`: two tables of two rows are the least in which ids repeat across
  tables, a limit of 2 fills in one read, a limit of 1 needs two cycles, and a
  purge meets a mark that is half done. `MaxLateness = 1` lets a row be stored
  after a younger one. One restart lies between any two steps. Retention 0
  purges as early as the clock allows.
* `sync_live`: one refused table and a sentinel that comes and goes; limits of
  1 make the beacon and the drain alternate.
* `sentry`: two ticks of fresh motion, one of idleness, one of grace and two
  failed probes are the smallest values at which the timers can overtake each
  other; one crash; setting the sentinel, storing the announcement and reading
  the charger may fail each time.
* `watchdog`: `Stale = 4` exceeds grace and cooldown so that each can be the
  binding one, boot time is below both (the case `BootingNotRestarted` is
  about), one clock jump in either direction, one restart of the provisioner.
* `provisioner`: two networks that come, go and lose their internet, and a
  cable, let one be joined while another is saved or forgotten.
* `anchor`: three devices against a table of two make it overflow, one record
  per part makes a report two parts, two attempts let a callback outlive its
  attempt and confirm the next part; the driver refuses a second frame, so
  both outcomes of `esp_now_send` occur with a frame outstanding.
* `pipeline`: one anchor and the gateway are one writer per task, which is what
  a race takes; two frames, each repeated at will, show a change of order; one
  line on the wire and two in the queue let a line wait before each stage, and
  fill the queue; a refresh of two ticks tells a cache that is used from one
  that is loaded. The file starts damaged (the allowlist lets the anchor in) or
  with the anchor deactivated, and changes once.
* `nmea`: a queue of two lines (of 256) drops at once and holds a former line
  beside a new one; two lines that break the loop let the second be one that
  the first life left behind; RMC with GGA and GSA with GLL are two receivers
  whose sentences clear what they set in different ways. One thread at a time
  outlives its join: a TCP connection attempt lasts 5 s, a join 3 s, and two
  joins are at least a second apart.
* `power`: charge 0 to 4 with trip at 1 and recovery at 2, so that a sample can
  be low, neither, or recovered; an idle interval of 3 against a fast one of 1
  and a margin of 2 is the least margin `MarginAssumption` allows; a queue of
  one fills when one insert waits for the lock, which it does for one tick. The
  counter on the rail may move by any amount in the direction of the filtered
  current, which lags behind the real one and starts from 0; unclamped, it
  would only take longer to come back, and a delay is among the amounts.
* `scanner`: three attempts with a cooldown after the second and a cap that the
  third would exceed; two decisions fit into `RestartAfter` and are closer than
  `ResetInterval`, so all three outcomes of a decision occur, as with the
  defaults (about 263 s to the first decision, 300 s, 600 s). One kill. That
  `ResetsSpaced` holds across an exit is arithmetic, the subject of
  `ResetsAreSpaced` below: the next process needs a whole pass of attempts.
* `gps_track`: four places, wherever the truck is, so that a fix is on the spot,
  near it (one place off, `Radius = 3`), or strays; between two of them lies
  less than the radius, or more. The gate lets each fix pass or not, which is both
  of its settings (off is the default). Moves and restarts are not counted.

**Fairness**, and what justifies it:

* `SyncQueue`: the loop never exits (`run()` catches all of a cycle's
  exceptions), so WF of its steps; SF of starting a cycle, of a table's read
  and mark (SQLite's lock does not time out for ever) and of the cloud's
  processing and 2xx (a request repeated for ever is answered now and then).
  Nothing is assumed of writers, purge, failures or the beacon. `EveryRowSent`
  is conditional on the sentinel being down infinitely often.
* `SentryMode`: WF of each worker (endless loops of one asyncio program) and of
  time. Nothing about link, charger, truck, or database, and nothing about
  the boot: `start.sh` runs a dead process again, but the hardware probe of
  `run()` may raise every time before the sentinel is cleared. `ResumesOnLink` and
  the charger's half of `ResumesOnActivity` are therefore conditional on a process
  that is up again and again (`[]<>Up`), the latter also on reads of the charger
  that no longer fail (`ChargerRead`). Activity needs neither: it is forgotten
  by a crash, and seen only by a process that is up.
* `EdgeWatchdog`: WF of time and the worker; SF that the database can be read
  and that the Supervisor executes a restart asked for again and again.
* `WifiProvisioner`: WF of time and the supervisor; SF that `nmcli` does not
  fail every time. Nothing about the technician, the air or autoconnect.
* `BleScanner`: WF of time and of the loop; SF of the beginning of a scan, which
  says that a sentinel seen down again and again is once seen down by the loop.
  Nothing about the adapter; `WedgedIsFreed` is conditional on that sentinel.
* `NmeaReader`: WF of thread and loop, both endless; SF of connecting, of each
  sentence type being read and being taken (a receiver repeats its sentences
  every second, and the loop is far faster than 256 lines take to arrive).
  Nothing about the fix, failures and garbled lines.
* `PowerMonitor`: WF of time and of both loops, and that an empty pack cuts
  out. Nothing about lock, sensor and crashes; `SensorComesBack` is conditional
  on a service that stays up and a sensor that answers.
* `GpsTrack`: WF of reading a fix that passes the gate, of the end of an insert
  (its retries are counted) and of time; SF that the collector, which wakes again
  and again, samples such a fix. Nothing about where fixes are, speeds, poor
  fixes or inserts that succeed. `StopIsSeen` is conditional on a truck that stands
  and collects, and on speeds that read so or drift too small for progress.
* `AnchorNode`: WF of the loop, of callbacks, and of the beacon while the
  radio is good; SF of starting a report, whose timer every pass checks.

### What the runs found

One statement of a comment is not what the code does; it is the run with
`expect: violation` and the entry in `findings`: **a parked edge looks wedged.**
Parked mode suppresses heartbeats, so the watchdog restarts a healthy edge.

Seen while modelling, and not run:

* **Queue.** 4xx batches are retried although `EDGE_DASHBOARD_CONTRACT.md`, section
  3.3, and the loop's log line say they are not: `attempt_count` is bumped, the
  rows stay pending (`Reply4xx`, `BumpTable`). The beacon is said to go first
  (`sync-service/main.py`, header) but follows the first batch. Rows leave a
  table in capture order, but several tables share a request, so the order
  across tables is by batch.
* **Sentry Mode.** `should_suspend` is not asked again after the flush grace,
  so a sleep may begin with the link up. `clear_suspended` swallows every
  `OSError`, and the controller's shadow then says that the others run.
  `insert_heartbeat` swallows every database error, and the entry goes on: the
  truck then sleeps unannounced, although `docs/power-optimization.md` says that
  the announcement is emitted before and the dashboard shows the truck as
  sleeping (`announced = "lost"`). A read of the charger that fails counts as not
  charging, so a charging truck may be suspended until the next read. After a
  crash the sentinel stays while the hardware probe keeps failing.
* **Provisioner.** A save can miss the supervisor: `_start_hotspot` clears the
  wake event of a save that ended just before, although
  `docs/WIFI_PROVISIONING.md` promises that saving wakes it.
* **Anchors.** A confirmed report can lose samples although
  `anchor-firmware/README.md` says that brief outages lose nothing, because
  `scanner_clear` clears the live table with what was recorded while the
  snapshot was being sent; `on_sent` does not say which frame it is about, so a
  callback later than 50 ms may confirm a part that was lost (`LossExplained`
  names both). The gateway's own report keeps 24 devices and clears the whole
  table.
* **Pipeline.** The race for `g_json` may store one node's devices under
  another's name (`AttributionExplained` names it as the only way). A part that
  is repeated is stored twice, because the bridge's receipt time is in its
  idempotency key.
* **Scanner.** A power-cycle cut off between off and on leaves the adapter off,
  and scans then fail with an error that leads neither to a power-cycle nor to
  the exit.
* **NMEA reader.** Without RMC and GSA a lost fix (GGA quality 0, GLL "V") leaves
  coordinates and `fix_type`, so the old position is stamped as a new fix again
  and again (`TellsLoss` excludes such receivers), although the collector's
  comment says that a frozen position cannot be re-emitted. RMC's speed, "a
  fallback when VTG is absent", fills `speed_kmh` only while it is `None`, so
  without VTG the first speed stays for ever. Lines left in the queue across a
  restart are stamped with the new time. `gps_reader_worker`'s back-off never
  resets. Garbled lines of talkers other than GP pass unchecked.
* **GPS track.** A poor fix while moving is published as the anchor of the last
  stop, although the result's documentation says the raw fix. `latest_valid_gps`
  never expires, so Sentry Mode still sees the speed of a receiver that died.
  The HDOP gate is off by default and the filter's own header speaks of tens of
  metres of drift against a radius of 20 m: one stray fix that reads as moving
  makes a parked truck depart, and drift of 8 m or more that reads as moving
  counts as progress and keeps the points flowing. `StillStaysPinned` and
  `StopIsSeen` say what remains true: nothing but such a fix, sampled after the
  anchor, unpins a truck, and nothing but such drift keeps it moving.
* **power-monitor.** On the 5 V rail a driver without a starting charge reads
  empty, which powers off a full pack; a re-initialisation there takes the
  pack for full, which delays the trip. The coulomb counter there sums up the
  filtered current, which lags and restarts at 0, without bounds, so also one
  that started right may read a full pack as low, or an empty one as full. A
  sample that waited at a full queue chooses the next interval (why
  `TripInTime` excludes `held`). Samples between trip and recovery neither count
  nor reset, so "consecutive" breaches need not be. A poweroff that fails is not
  tried again: its latch is set before the command is run.
* **Provisioner.** The portal's add deletes a profile of any name, the hotspot's
  own included, which `delete_network` refuses to do.

## 4. Proofs

TLAPS proves these for every value of the constants that satisfies the
module's `ASSUME`. TLC checked each inductive invariant first.

* `SyncQueueProofs!TypeCorrect`: the types.
* `SyncQueueProofs!SentRowsReachedCloud`: `[]SentReachedCloud`. The invariant
  is not inductive: a mark selects rows by id, so one must know that ids are
  never reused (`FreshIds`), that an id list selects the batch and nothing else
  (`UniqueIds`), that the batch stays pending and present while the request is
  out (`BatchHeld`), that marking starts only after the cloud has the rows
  (`BatchTaken`), and that late requests carry rows the truck still holds or
  the cloud has (`LateHeld`). Their conjunction is `CoreInv`.
* `SyncQueueProofs!Implements`: `Spec => Promise!Spec`. Initial states map to
  initial states; an `Insert` is an `Enqueue` (needs `FreshIds`), the cloud's
  steps are `Forward`, the purge is `Forget` (needs `SentReachedCloud`), all
  else stutters.
* `SyncQueueProofs!RowsSentInOrder`: `[]PerTableFifo`, with `FifoInv`: a batch
  is closed downwards in its table (`BatchClosed`). The oldest rows of a table
  are chosen by counting, hence `IsFiniteSet(store)`.
* `SyncQueueProofs!DrainedIsDrained`: `[]DrainedMeansDrained`, with `DrainedInv`:
  while a cycle has met no full batch, every pending row of a table it has read
  is in its batch (`ReadComplete`), and what it has marked is sent
  (`MarkedSoFar`). That a table below its limit was read to its end
  (`UnsaturatedIsAll`) takes the least id among the rows left out
  (`SmallestNat`, from the well-foundedness of the naturals).
* `SyncQueueProofs!RepeatsHaveCause`: `[]NoNeedlessReupload`, with `RepeatInv`:
  what is pending and in the cloud, or still on its way there, is excused or
  about to be marked.
* `SentryModeProofs!SuspensionIsAnnounced`: `[]SuspendedOnlyAsleep` under
  `ClearWorks` (removing the sentinel from `/run` does not fail), with
  `SentryInv`: between two rounds the controller's shadow and the sleep agree,
  a sleep being entered is unsuspended and has tried to announce itself before
  the grace, a sentinel never outlives the shadow. Whether the announcement was
  stored is not promised, since the code does not look.
* `SentryModeProofs!TypeCorrect`, `GpsTrackProofs!TypeCorrect`,
  `BleScannerProofs!TypeCorrect` and `WifiProvisionerProofs!TypeCorrect`: the
  types of these modules, which no run needs to check any more.
* `WifiProvisionerProofs!FlagIsTrue` (`[]HotspotFlagTrue`, with `FlagInv`) and
  `GraceIsRespected` (`GraceRespected`, with `GraceInv`: past the check, the
  grace period is over until connectivity is seen again).
* `AnchorNodeProofs!TypeCorrect`: the table never overflows, a report never
  runs past its snapshot.
* `AnchorNodeProofs!LossIsExplained`: `[]LossExplained`, with `LossInv`: the
  table is covered by snapshot and excused adverts (`TableCovered`), confirmed
  parts have arrived (`PartsArrived`), and `g_send_ok` speaks of the current
  frame unless a callback of another one is outstanding (`Handshake`).
* `AnchorPipelineProofs!TypeCorrect`: queue and wire within their bounds.
* `AnchorPipelineProofs!QuarantineHolds`: `QuarantineRespected`, an action
  property, with `CacheInv`: a cache still in use lets through only nodes the
  file has not kept out for longer than the cache is old.
* `AnchorPipelineProofs!AttributionHolds`: `[]AttributionExplained`, with
  `AttributionInv`: a task that formats alone finds its own text in the buffer
  (`BufferInv`), and what is not marked as torn agrees with itself on the wire,
  in the queue and in the writer's hands.
* `AnchorPipelineProofs!StoringInOrder`: `StoredInOrder`, an action property,
  with `OrderInv`. What is stored of a node can only go back if an older frame
  of it is still under way behind a newer one, so the invariant orders every
  stage (`WireInOrder`, `WorkInOrder`, `CurInOrder`) and bounds it by the stage
  before: what is handled is not newer than what is queued, nor that than the
  wire, nor that than the buffer, nor that than the node's newest frame
  (`BufferInOrder`, `BoundInOrder`). Repetitions keep it because an anchor
  repeats only its last frame (`LastOwn`). `Println` of one task's line with
  the other's text keeps it, since the order is that of the line's head, the
  part rows are filed under.
* `GpsTrackProofs!TrailComplete` (`[]TrailReachesStop`, with `PinnedInv`: what is
  published of a parked truck is its anchor) and `NoStarburst`
  (`StillStaysPinned`, with `NearInv`: as long as the truck has not moved, an
  anchor that a near fix set is near, and every fix still to be sampled was read
  since). Fixes may be anywhere and the gate off: two near places are within
  the radius of each other, so only a fix that strays can unpin the truck.
* `BleScannerProofs!ExitsAreJustified`: `ExitsJustified`, with `EpisodeInv`: an
  episode is not older than the last success. `QueuedAreObserved`:
  `[]QueuedWereObserved`. `ExitsInTime`: `[]ExitInTime`, with `TimelyInv`: an
  undisturbed episode is no older than when its pass began plus what the
  attempts since may have waited (`Spent`). The back-off is a power of two, which
  the provers do not compute with; that powers of two are naturals is
  `PowersAssumption`, and TLC evaluates it.
* `PowerMonitorProofs!TypeCorrect`, `PoweroffHasCause` (`PoweroffExplained`, with
  `CauseInv`: along the samples under way, from the counter through the engine,
  the queue and the sensor loop, each has at least the run of the one before it
  and itself; that an engine behind its queue counts no more than that takes
  the monotony of `After`) and `TripsInTime` (`[]TripInTime`, with `TripInv`: since
  the pack called for a poweroff, every sample under way or counted is a breach,
  and each took one fast interval). The last needs `MarginAssumption`: an idle
  interval cannot cross the margin above the trip.
* `WifiProvisionerProofs!WatchdogTypeCorrect` (`[]WatchdogTypeOK`, with `TimesInv`:
  an age is below zero by no more than the clock was set back),
  `RestartsAreSpaced` (`RestartsSpaced`, with `SpacingInv`: unless `Spacing`
  has passed since the last confirmed restart, one of the two monotonic timers
  started no earlier than that) and
  `BootingIsNotRestarted` (`BootingNotRestarted`, with `BootInv`: a boot that
  a confirmed restart caused began before the confirmation). The last supposes
  `BootTime < Spacing`, the lesser of cooldown and boot grace; with a slower
  edge the code does restart one that boots.
* `GpsTrackProofs!ReaderTypeCorrect` (`[]ReaderTypeOK`) and `LinesInOrder`
  (`[]InOrder`): the lines of a thread that outlived its join stand before all
  of its successor's, for any queue.
* `BleScannerProofs!ResetsAreSpaced`: `ResetsSpaced`, with `CycleInv`: what has
  passed since a power-cycle is at least what the attempts of the pass have
  waited, and the restart's delay if the process is a new one. It supposes
  `ResetInterval <= RestartDelay + 2 * Floor(MaxAttempts)`, which the defaults
  grant: a pass of ten attempts waits at least 190 s, and two of them exceed the
  interval of 300 s. `PowersAssumption` also says that powers are positive.

Some properties of the runs are liveness, whose one half can be proved: that
what must come about, once it has, is not undone while its reason lasts. These
need no fairness, and are proved for all constants:

* `SentryModeProofs!ActiveStaysAwake`, `ChargingStaysAwake` and `OnlineStaysAwake`
  (of `ResumesOnActivity` and `ResumesOnLink`): a truck awake and in use, on the
  charger or online is not suspended while it stays so; on the charger, as long
  as its reads do not fail. A link has to be known
  (`LinkSeen`), and a restart forgets it, since the flag starts false.
  `ActiveStaysUnparked` (of `ActiveUnparks`): nor is it parked again, unless a
  sleep was being announced when it came into use. None needs `ClearWorks`.
* `WifiProvisionerProofs!OnlineLasts` (of `RejoinsSavedNetwork`), with
  `JoinedIsSaved` (the radio is a client of saved networks only): while cable,
  air and profiles stay as they are, a truck online and not about to raise or
  drop a hotspot (`Online`) stays online.
* `GpsTrackProofs!StopLasts` (of `StopIsSeen`), with `NearInv`: a stop that has been
  seen is seen as long as the truck stands and no fix strays (`NoStray`). `SilenceLasts` (of `LostFixStops`):
  once no line and no reading of the old fix is left (`Quiet`), nothing is
  published before a new one, for every receiver, also those `TellsLoss` excludes.

And some say what the invariants only imply:

* `AnchorNodeProofs!ToldWasHeard`: `received` is within what was heard.
  `GoodLinkDelivers`: what is cleared was delivered while the gateway is in good
  reach, with `OneInAir`: a frame is in the air only while its sender waits, so
  that no callback is about another one; this is where `doubtful`, one of the
  excuses of `LossExplained`, cannot arise.
* `AnchorPipelineProofs!LockSuffices`: if the gateway's two tasks never format at
  once (`OneTaskWrites`), no line is torn on its way (`NothingTorn`) and every row
  is stored under the node that reported it: a lock for `g_json` is all that
  exact attribution needs.
* `SyncQueueProofs!BatchWithinLimits`: no request holds more rows of a table than
  its limit. Rows are chosen by how many pending ones precede them; that count
  numbers them without repetition below the limit (`OldestBounded`).
* `PowerMonitorProofs!FullPackKeepsHost`: with the sensor at the battery and a pack
  above the trip (`Plenty`), no poweroff is requested, whatever sensor, driver,
  queue and restarts do. On the output rail nothing of the kind holds: the
  coulomb counter may be wrong in both directions.

Every safety property the passing runs check has its theorem. Left to TLC are
the liveness properties, for which TLAPS would need ENABLED, and the run that
expects a violation.

## 5. Not modelled

* Payload contents, the values in NMEA sentences, VTG, IMU processing: data,
  little control.
* Schema creation and migration, connection reuse, WAL tuning, power cuts below
  SQLite's commit.
* The asset resolver (planned, below), and what a scan of the Pi says.
* What a frame of the pipeline says besides its author; the retained status of
  the bridge and the configuration it pushes; the log of quarantined nodes; a
  registry file that disappears between `exists` and `open`, or is not UTF-8.
* power-monitor without a UPS, with its dummy sensor or on a warehouse device,
  where it idles or reports invented readings; what its rows and log lines say.
* A technician who gives a network the hotspot's own name; damage of a gateway line,
  other than a torn or merged one, that leaves valid JSON (lines carry no
  checksum); an overflow of the INA219 (its driver never reports one); a bus
  voltage that takes a sensor from the battery to the rail and back.
* Calibration tools, trip tracker, geofence: not deployed or not imported at
  this commit.
* Configuration parsing and hardware probing: their results are constants.
* PIN and form checks of the portal, HTML, dry-run mode.

## 6. Plan

In order of what matters most to the data that reaches the cloud:

1. `AssetResolver`: ranking of observers by median and choice of a position, as
   operators against reference definitions.
2. `Sentinel`: `SentryMode` and `SyncQueue` composed over one sentinel, with
   the flush grace against a backlog.
3. Proofs: that `Sentinel` implies both of its parts; an abstract specification
   of the sleep (announced, suspended, resumed) that `SentryMode` implements.

## 7. Running it

    tlc -workers 2 -config SyncQueue.cfg MCSyncQueue
    tlc -workers 2 -config SentryMode.cfg SentryMode
    tlc -workers 2 -config EdgeWatchdog.cfg EdgeWatchdog
    tlc -workers 2 -config WifiProvisioner.cfg WifiProvisioner
    tlc -workers 2 -config AnchorNode.cfg AnchorNode
    tlc -workers 2 -config AnchorPipeline.cfg MCAnchorPipeline
    tlc -workers 2 -config BleScanner.cfg BleScanner
    tlc -workers 2 -config NmeaReader.cfg NmeaReader
    tlc -workers 2 -config GpsTrack.cfg GpsTrack
    tlc -workers 2 -config PowerMonitor.cfg PowerMonitor
    tlapm SyncQueueProofs.tla
    tlapm SentryModeProofs.tla
    tlapm WifiProvisionerProofs.tla
    tlapm AnchorNodeProofs.tla
    tlapm AnchorPipelineProofs.tla
    tlapm BleScannerProofs.tla
    tlapm GpsTrackProofs.tla
    tlapm PowerMonitorProofs.tla

`PROJECT.json` lists runs, mutants (one plausible bug per property, each found
by TLC), the map from definitions to source lines, findings, hazards and
theorems.
