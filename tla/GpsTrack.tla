------------------------------ MODULE GpsTrack ------------------------------
(***************************************************************************)
(* The GPS track of a truck: the reader that keeps the latest fix, the     *)
(* collector that samples it, the filter that pins the position while the  *)
(* truck stands still, and the track points stored for upload.             *)
(*                                                                         *)
(* Places lie on a line, and a fix may be any of them, wherever the truck  *)
(* is.  A fix is poor if the quality gate keeps it out; with max_hdop = 0, *)
(* its default, or no HDOP in the fix, none is: the model leaves it open   *)
(* for each fix and so has both settings.  Times are ages, in ticks.       *)
(***************************************************************************)
EXTENDS Integers

CONSTANTS
  Place,      \* where the truck and its fixes may be, on a line
  Radius,     \* stationary_radius_m
  MinTrack,   \* min_track_distance_m
  Hold,       \* stationary_hold_seconds
  Keepalive,  \* keepalive_seconds, 0 disables
  Nowhere     \* None, of a position

ASSUME TrackAssumption ==
  /\ Place \subseteq Int /\ Place # {} /\ Radius \in Nat
  /\ MinTrack \in Nat /\ Hold \in Nat /\ Keepalive \in Nat
  /\ Nowhere \notin Place

Position == Place \cup {Nowhere}

\* fast: speed_kmh is at or above stationary_speed_kmh.  poor: max_hdop is set,
\* HDOP is known and above it.
Fix == [at : Position, fast : BOOLEAN, poor : BOOLEAN]

VARIABLES
  truck,          \* where the truck is
  fix,            \* state.latest_valid_gps
  fresh,          \* last_gps_fix_utc # last_processed_fix_utc
  parked,         \* state.parked_mode
  state,          \* _state
  anchor,         \* _anchor_lat, _anchor_lon
  progress,       \* _progress_lat, _progress_lon
  sinceProgress,  \* time since _last_progress_monotonic
  sinceEmit,      \* time since _last_emit_monotonic
  live,           \* state.stabilized_gps
  pc,             \* whether the collector awaits insert_gps_point
  stored,         \* the newest track point in the queue
  lost,           \* history: the insert of the last point failed
  fixStill,       \* history: the truck has not moved since the fix was read
  still           \* history: ... since the fix at the anchor was read, and that
                  \* fix was near the truck

filter == <<state, anchor, progress, sinceProgress, sinceEmit>>
reader == <<fix, fixStill>>
world == <<truck, parked>>
vars == <<truck, fix, fresh, parked, state, anchor, progress, sinceProgress,
          sinceEmit, live, pc, stored, lost, fixStill, still>>

NoFix == [at |-> Nowhere, fast |-> FALSE, poor |-> FALSE]

-----------------------------------------------------------------------------
(* The truck, the receiver and the clock.                                  *)

\* haversine_m
Distance(a, b) == IF a < b THEN b - a ELSE a - b

Move ==
  /\ truck' \in {p \in Place : Distance(p, truck) <= Radius + 1} \ {truck}
  /\ fixStill' = FALSE
  /\ still' = FALSE
  /\ UNCHANGED <<fix, fresh, parked, filter, live, pc, stored, lost>>

\* Two places this near to the truck are within the drift radius of each other.
Near(p) == 2 * Distance(p, truck) <= Radius

\* on_reading, of a valid fix; its speed may be wrong in either direction.
Read(poor) ==
  /\ \E p \in Place, fast \in BOOLEAN :
       fix' = [at |-> p, fast |-> fast, poor |-> poor]
  /\ fresh' = TRUE
  /\ fixStill' = TRUE
  /\ UNCHANGED <<world, filter, live, pc, stored, lost, still>>

Older(t, limit) == IF t < limit THEN t + 1 ELSE t

Tick ==
  /\ sinceProgress' = Older(sinceProgress, Hold)
  /\ sinceEmit' = Older(sinceEmit, Keepalive)
  /\ UNCHANGED <<world, reader, fresh, state, anchor, progress, live, pc,
                 stored, lost, still>>

\* Sentry Mode parks the truck, or wakes it.
ParkedChanges ==
  /\ parked' = ~parked
  /\ UNCHANGED <<truck, reader, fresh, filter, live, pc,
                 stored, lost, still>>

-----------------------------------------------------------------------------
(* GpsTrackFilter.process, and what the collector does with its result:    *)
(* the position is published, and stored as a track point if it says so.   *)

Publish(p) == live' = p
Emit == pc' = "insert" /\ sinceEmit' = 0
NoEmit == pc' = "idle" /\ UNCHANGED sinceEmit

AnchorHere ==
  /\ state' = "stationary"
  /\ anchor' = fix.at
  /\ still' = (fixStill /\ Near(fix.at))

\* A fix that the gate keeps out changes nothing.
Rejected ==
  /\ fix.poor
  /\ Publish(IF anchor # Nowhere THEN anchor ELSE fix.at)
  /\ NoEmit
  /\ UNCHANGED <<state, anchor, progress, sinceProgress, still>>

FirstFix ==
  /\ ~fix.poor
  /\ state = "none"
  /\ AnchorHere
  /\ Publish(fix.at)
  /\ Emit
  /\ UNCHANGED <<progress, sinceProgress>>

\* Mutant of Confirmed: a moving speed is enough.
ConfirmedBySpeed == fix.fast

\* A departure takes a moving speed and a displacement beyond the drift radius.
Confirmed == fix.fast /\ Distance(anchor, fix.at) > Radius

Departs ==
  /\ ~fix.poor
  /\ state = "stationary"
  /\ Confirmed
  /\ state' = "moving"
  /\ progress' = fix.at
  /\ sinceProgress' = 0
  /\ Publish(fix.at)
  /\ Emit
  /\ UNCHANGED <<anchor, still>>

StaysPinned ==
  /\ ~fix.poor
  /\ state = "stationary"
  /\ ~Confirmed
  /\ Publish(anchor)
  /\ IF Keepalive > 0 /\ sinceEmit >= Keepalive THEN Emit ELSE NoEmit
  /\ UNCHANGED <<state, anchor, progress, sinceProgress, still>>

\* Mutant of Advances: every fix counts as progress.
AdvancesAlways == progress' = fix.at /\ sinceProgress' = 0

\* Real progress is noted.
Advances ==
  IF Distance(progress, fix.at) >= MinTrack
    THEN progress' = fix.at /\ sinceProgress' = 0
    ELSE UNCHANGED <<progress, sinceProgress>>

Halted == ~fix.fast \/ sinceProgress' >= Hold

KeepsMoving ==
  /\ ~fix.poor
  /\ state = "moving"
  /\ Advances
  /\ ~Halted
  /\ Publish(fix.at)
  /\ Emit
  /\ UNCHANGED <<state, anchor, still>>

\* Mutant of Arrives: the point where the truck came to rest is not stored.
ArrivesSilently ==
  /\ ~fix.poor
  /\ state = "moving"
  /\ Advances
  /\ Halted
  /\ AnchorHere
  /\ Publish(fix.at)
  /\ NoEmit

Arrives ==
  /\ ~fix.poor
  /\ state = "moving"
  /\ Advances
  /\ Halted
  /\ AnchorHere
  /\ Publish(fix.at)
  /\ Emit

Process ==
  Rejected \/ FirstFix \/ Departs \/ StaysPinned \/ KeepsMoving \/ Arrives

\* One cycle of gps_collector_worker that finds a new fix, up to its insert.
Sample ==
  /\ pc = "idle"
  /\ ~parked
  /\ fresh
  /\ fresh' = FALSE
  /\ Process
  /\ UNCHANGED <<world, reader, stored, lost>>

Inserted ==
  /\ pc = "insert"
  /\ pc' = "idle"
  /\ stored' = live
  /\ lost' = FALSE
  /\ UNCHANGED <<world, reader, fresh, filter, live, still>>

\* insert_gps_point gives up, and says so in the log only.
InsertFails ==
  /\ pc = "insert"
  /\ pc' = "idle"
  /\ lost' = TRUE
  /\ UNCHANGED <<world, reader, fresh, filter, live, stored, still>>

\* telematics-edge is started again; what is in the queue stays.
EdgeRestarts ==
  /\ fix' = NoFix
  /\ fresh' = FALSE
  /\ parked' = FALSE
  /\ state' = "none"
  /\ anchor' = Nowhere
  /\ progress' = Nowhere
  /\ sinceProgress' = Hold
  /\ sinceEmit' = Keepalive
  /\ live' = Nowhere
  /\ pc' = "idle"
  /\ fixStill' = FALSE
  /\ still' = FALSE
  /\ UNCHANGED <<truck, stored, lost>>

-----------------------------------------------------------------------------

Init ==
  /\ truck \in Place
  /\ fix = NoFix
  /\ fresh = FALSE
  /\ parked = FALSE
  /\ state = "none"
  /\ anchor = Nowhere
  /\ progress = Nowhere
  /\ sinceProgress = Hold
  /\ sinceEmit = Keepalive
  /\ live = Nowhere
  /\ pc = "idle"
  /\ stored = Nowhere
  /\ lost = FALSE
  /\ fixStill = FALSE
  /\ still = FALSE

Next ==
  \/ Move
  \/ Read(FALSE)
  \/ Read(TRUE)
  \/ Tick
  \/ ParkedChanges
  \/ Sample
  \/ Inserted
  \/ InsertFails
  \/ EdgeRestarts

Spec == Init /\ [][Next]_vars

\* The receiver goes on delivering fixes, not poor ones only, and the collector,
\* whose sleep ends, now and then meets one that passes the gate; an insert ends;
\* time passes.
Fairness ==
  /\ WF_vars(Read(FALSE))
  /\ SF_vars(Sample /\ ~fix.poor)
  /\ WF_vars(Inserted \/ InsertFails)
  /\ WF_vars(Tick)

FairSpec == Spec /\ Fairness

-----------------------------------------------------------------------------
(* Properties.                                                             *)

\* While the filter works the anchor is known, and so is the point of progress
\* while it moves.
TypeOK ==
  /\ truck \in Place
  /\ fix \in Fix
  /\ fresh \in BOOLEAN /\ (fresh => fix.at # Nowhere)
  /\ parked \in BOOLEAN
  /\ state \in {"none", "stationary", "moving"}
  /\ anchor \in IF state = "none" THEN {Nowhere} ELSE Place
  /\ progress \in IF state = "moving" THEN Place ELSE Position
  /\ sinceProgress \in 0..Hold
  /\ sinceEmit \in 0..Keepalive
  /\ live \in Position
  /\ pc \in {"idle", "insert"} /\ (pc = "insert" => live \in Place)
  /\ stored \in Position
  /\ lost \in BOOLEAN
  /\ fixStill \in BOOLEAN
  /\ still \in BOOLEAN

\* The trail reaches the stopping spot: while the truck is parked, the newest
\* point of its track is the place it is pinned to, unless the store refused it.
TrailReachesStop ==
  state = "stationary" /\ pc = "idle" => stored = anchor \/ lost

\* No starburst: a truck that has not moved since a fix near it pinned it is not
\* seen to depart by its speed, by what is left from before the stop, or by drift
\* within the radius; it takes a fix that strays and that the gate lets pass.
StillStaysPinned ==
  [][state = "stationary" /\ state' = "moving" =>
       ~still \/ (fixStill /\ ~Near(fix.at) /\ ~fix.poor)]_vars

\* The speed that passing fixes read, or the drift of a truck that stands: too
\* little for a progress.
Slow == ~fix.fast \/ fix.poor
Steady == fix.at # Nowhere => 2 * Distance(fix.at, truck) < MinTrack \/ fix.poor

\* A truck that stands for good is pinned in the end if its speed reads so, or,
\* although its speed may keep reading as moving, if its drift stays too small for
\* progress.  (Faster and wider drift does keep the filter moving.)
StopIsSeen ==
  /\ <>[]~parked
  /\ <>[][truck' = truck]_vars
  /\ <>[]Slow \/ <>[]Steady
  => <>[](state # "moving")

-----------------------------------------------------------------------------
(* Why they hold: the inductive invariant of the proofs.                   *)

\* An anchor that a near fix has set stays near while the truck stands, and a fix
\* still to be sampled is later than the anchor.
NearInv ==
  /\ still => anchor # Nowhere /\ Near(anchor)
  /\ still /\ fresh => fixStill

\* What is published of a parked truck is its anchor, and so is what is stored.
PinnedInv == (state = "stationary" => live = anchor) /\ TrailReachesStop

=============================================================================
