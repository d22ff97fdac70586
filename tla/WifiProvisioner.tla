--------------------------- MODULE WifiProvisioner --------------------------
(***************************************************************************)
(* The wifi-provisioner (wifi-provisioner/main.py, nm.py): a supervisor    *)
(* that raises a setup hotspot when the truck has been offline too long    *)
(* and drops it now and then to retry the saved networks, and a portal on  *)
(* which a technician saves and forgets networks meanwhile.  Both drive    *)
(* NetworkManager's one radio through nmcli.                               *)
(*                                                                         *)
(* A step is one await of the supervisor or of a portal handler, or one    *)
(* move of NetworkManager or of the truck.  PIN and form checks that       *)
(* refuse a request, and the HTML, are left out.                           *)
(***************************************************************************)
EXTENDS Integers

CONSTANTS
  Net,     \* SSIDs
  AP,      \* the radio is the setup hotspot
  None,    \* the radio is idle; no request is being served
  Grace    \* WIFI_PROVISIONER_GRACE_SECONDS, in ticks

ASSUME ProvisionerConstants ==
  /\ AP \notin Net
  /\ None \notin Net
  /\ AP # None
  /\ Grace \in Nat

VARIABLES
  lan,      \* another interface (a cable) reaches the internet
  air,      \* per network: "away", "dead" (no internet behind it) or "good"
  radio,    \* what wlan0 is doing
  saved,    \* client profiles of NetworkManager
  pc,       \* where supervisor() is
  next,     \* where it goes after _start_hotspot
  hotspot,  \* state.hotspot_active
  event,    \* state.rejoin_event is set
  offline,  \* ticks since state.last_up_monotonic
  adding    \* the network an add_handler is saving

vars == <<lan, air, radio, saved, pc, next, hotspot, event, offline, adding>>

TypeOK ==
  /\ lan \in BOOLEAN
  /\ air \in [Net -> {"away", "dead", "good"}]
  /\ radio \in Net \cup {AP, None}
  /\ saved \subseteq Net
  /\ pc \in {"check", "idle", "unneeded", "profiles", "reconnect", "settle",
             "starting", "raised", "stopping", "rejoin", "probe"}
  /\ next \in {"raised", "check"}
  /\ hotspot \in BOOLEAN
  /\ event \in BOOLEAN
  /\ offline \in 0..Grace
  /\ adding \in Net \cup {None}

Init ==
  /\ lan \in BOOLEAN
  /\ air \in [Net -> {"away", "dead", "good"}]
  /\ radio = None
  /\ saved \in SUBSET Net
  /\ pc = "check"
  /\ next = "raised"
  /\ hotspot = FALSE
  /\ event = FALSE
  /\ offline = 0
  /\ adding = None

\* is_network_connected: whatever the interface.
Connected == lan \/ (radio \in Net /\ air[radio] = "good")

Visible == {n \in Net : air[n] # "away"}

-----------------------------------------------------------------------------
(* The truck, the clock and NetworkManager.                                *)

Tick ==
  /\ offline < Grace
  /\ offline' = offline + 1
  /\ UNCHANGED <<lan, air, radio, saved, pc, next, hotspot, event, adding>>

\* A network comes, goes, or gains or loses its internet.
AirChanges ==
  \E n \in Net, a \in {"away", "dead", "good"} :
    /\ air[n] # a
    /\ air' = [air EXCEPT ![n] = a]
    /\ radio' = IF radio = n /\ a = "away" THEN None ELSE radio
    /\ UNCHANGED <<lan, saved, pc, next, hotspot, event, offline, adding>>

\* A cable is plugged in or out.
CableChanges ==
  /\ lan' = ~lan
  /\ UNCHANGED <<air, radio, saved, pc, next, hotspot, event, offline, adding>>

\* An idle radio may join any saved network it sees.
Autoconnect ==
  /\ radio = None
  /\ radio' \in saved \cap Visible
  /\ UNCHANGED <<lan, air, saved, pc, next, hotspot, event, offline, adding>>

-----------------------------------------------------------------------------
(* supervisor(): probe, grace, saved networks.                             *)

CheckOnline ==
  /\ pc = "check"
  /\ Connected
  /\ offline' = 0
  /\ pc' = IF hotspot THEN "unneeded" ELSE "idle"
  /\ UNCHANGED <<lan, air, radio, saved, next, hotspot, event, adding>>

OverGrace == offline >= Grace

\* A hotspot that is up stays up; else the saved networks come first, but only
\* after the grace period.
CheckOffline ==
  /\ pc = "check"
  /\ ~Connected
  /\ pc' = IF hotspot THEN "raised"
           ELSE IF OverGrace THEN "profiles"
           ELSE "idle"
  /\ UNCHANGED <<lan, air, radio, saved, next, hotspot, event, offline, adding>>

\* _sleep_or_wake between two checks.
IdleOver ==
  /\ pc = "idle"
  /\ event' = FALSE
  /\ pc' = "check"
  /\ UNCHANGED <<lan, air, radio, saved, next, hotspot, offline, adding>>

\* _start_hotspot first clears the wake event, then hands over to nmcli.
BeginHotspot(after) ==
  /\ event' = FALSE
  /\ pc' = "starting"
  /\ next' = after

\* _has_saved_client_profile; a listing that fails counts as none.
NoProfiles ==
  /\ pc = "profiles"
  /\ BeginHotspot("raised")
  /\ UNCHANGED <<lan, air, radio, saved, hotspot, offline, adding>>

HasProfiles ==
  /\ pc = "profiles"
  /\ saved # {}
  /\ pc' = "reconnect"
  /\ UNCHANGED <<lan, air, radio, saved, next, hotspot, event, offline, adding>>

\* reconnect_saved_networks brings up a saved network it sees, the first by
\* priority that nmcli does not fail on.
BringsUp == radio' \in saved \cap Visible

\* It saw none, or every attempt failed and may have cost the radio its link.
BringsUpNone == radio' \in {radio, None}

ReconnectOk ==
  /\ pc = "reconnect"
  /\ BringsUp
  /\ pc' = "settle"
  /\ UNCHANGED <<lan, air, saved, next, hotspot, event, offline, adding>>

ReconnectFails ==
  /\ pc = "reconnect"
  /\ BringsUpNone
  /\ BeginHotspot("raised")
  /\ UNCHANGED <<lan, air, saved, hotspot, offline, adding>>

\* Up to five probes while DHCP settles.
Settled ==
  /\ pc = "settle"
  /\ Connected
  /\ offline' = 0
  /\ pc' = "idle"
  /\ UNCHANGED <<lan, air, radio, saved, next, hotspot, event, adding>>

SettleGivesUp ==
  /\ pc = "settle"
  /\ ~Connected
  /\ BeginHotspot("raised")
  /\ UNCHANGED <<lan, air, radio, saved, hotspot, offline, adding>>

-----------------------------------------------------------------------------
(* supervisor(): the hotspot and its retries.                              *)

StartOk ==
  /\ pc = "starting"
  /\ radio' = AP
  /\ hotspot' = TRUE
  /\ pc' = next
  /\ UNCHANGED <<lan, air, saved, next, event, offline, adding>>

\* nmcli failed, or timed out on an activation that went through.
StartFails ==
  /\ pc = "starting"
  /\ radio' \in {IF radio = AP THEN None ELSE radio, None, AP}
  /\ pc' = next
  /\ UNCHANGED <<lan, air, saved, next, hotspot, event, offline, adding>>

\* Mutant of RaisedOver: only a save drops the hotspot, no retry interval.
RaisedOverOnSave ==
  /\ pc = "raised"
  /\ event
  /\ event' = FALSE
  /\ pc' = "stopping"
  /\ UNCHANGED <<lan, air, radio, saved, next, hotspot, offline, adding>>

\* The portal saved a network, or the retry interval is over.
RaisedOver ==
  /\ pc = "raised"
  /\ event' = FALSE
  /\ pc' = "stopping"
  /\ UNCHANGED <<lan, air, radio, saved, next, hotspot, offline, adding>>

\* Mutant of Stopped: a failing nmcli leaves the flag set.
StoppedIfDown(after) ==
  /\ radio' \in IF radio = AP THEN {None, AP} ELSE {radio}
  /\ hotspot' = (hotspot /\ radio' # AP)
  /\ pc' = after
  /\ UNCHANGED <<lan, air, saved, next, event, offline, adding>>

\* _stop_hotspot: the flag is cleared even if nmcli fails to take the AP down.
Stopped(after) ==
  /\ radio' \in IF radio = AP THEN {None, AP} ELSE {radio}
  /\ hotspot' = FALSE
  /\ pc' = after
  /\ UNCHANGED <<lan, air, saved, next, event, offline, adding>>

StopToRetry == pc = "stopping" /\ Stopped("rejoin")

StopOnline == pc = "unneeded" /\ Stopped("idle")

RejoinTried ==
  /\ pc = "rejoin"
  /\ BringsUp \/ BringsUpNone
  /\ pc' = "probe"
  /\ UNCHANGED <<lan, air, saved, next, hotspot, event, offline, adding>>

Rejoined ==
  /\ pc = "probe"
  /\ Connected
  /\ offline' = 0
  /\ pc' = "check"
  /\ UNCHANGED <<lan, air, radio, saved, next, hotspot, event, adding>>

\* Mutant of ProbeGivesUp: no hotspot after a failed retry, only a new probe.
ProbeGivesUpQuietly ==
  /\ pc = "probe"
  /\ ~Connected
  /\ pc' = "rejoin"
  /\ UNCHANGED <<lan, air, radio, saved, next, hotspot, event, offline, adding>>

\* The last probe before the deadline failed.
ProbeGivesUp ==
  /\ pc = "probe"
  /\ ~Connected
  /\ BeginHotspot("check")
  /\ UNCHANGED <<lan, air, radio, saved, hotspot, offline, adding>>

-----------------------------------------------------------------------------
(* The portal, reached over the hotspot or over the network joined.        *)

Reachable == radio = AP \/ Connected

\* Deleting a profile in use takes the radio off it.
Forget(n) ==
  /\ saved' = saved \ {n}
  /\ radio' = IF radio = n THEN None ELSE radio

\* add_handler: add_network first deletes a profile of that name, ...  (It would
\* delete the hotspot's own, too; nobody submits that name here.)
AddBegins ==
  /\ adding = None
  /\ Reachable
  /\ \E n \in Net : adding' = n /\ Forget(n)
  /\ UNCHANGED <<lan, air, pc, next, hotspot, event, offline>>

\* ... then creates the new one, and the supervisor is woken.
AddEnds ==
  /\ adding # None
  /\ saved' = saved \cup {adding}
  /\ event' = TRUE
  /\ adding' = None
  /\ UNCHANGED <<lan, air, radio, pc, next, hotspot, offline>>

\* nmcli fails to create it; the profile deleted before stays deleted.
AddFails ==
  /\ adding # None
  /\ adding' = None
  /\ UNCHANGED <<lan, air, radio, saved, pc, next, hotspot, event, offline>>

\* delete_handler
DeleteNetwork ==
  /\ Reachable
  /\ \E n \in saved : Forget(n)
  /\ UNCHANGED <<lan, air, pc, next, hotspot, event, offline, adding>>

-----------------------------------------------------------------------------

Supervisor ==
  \/ CheckOnline \/ CheckOffline \/ IdleOver
  \/ NoProfiles \/ HasProfiles \/ ReconnectOk \/ ReconnectFails
  \/ Settled \/ SettleGivesUp
  \/ StartOk \/ StartFails \/ RaisedOver \/ StopToRetry \/ StopOnline
  \/ RejoinTried \/ Rejoined \/ ProbeGivesUp

Portal == AddBegins \/ AddEnds \/ AddFails \/ DeleteNetwork

Next == Tick \/ AirChanges \/ CableChanges \/ Autoconnect \/ Supervisor \/ Portal

Spec == Init /\ [][Next]_vars

(***************************************************************************)
(* Fairness.  The supervisor is an endless loop of bounded waits, and time *)
(* goes on.  Strong fairness of nmcli's successes says that it does not    *)
(* fail every time it is asked.  Nothing is assumed of Autoconnect, of the *)
(* technician or of the air.                                               *)
(***************************************************************************)
Fairness ==
  /\ WF_vars(Tick)
  /\ WF_vars(Supervisor)
  /\ SF_vars(StartOk)
  /\ SF_vars(pc = "rejoin" /\ BringsUp /\ RejoinTried)

FairSpec == Spec /\ Fairness

-----------------------------------------------------------------------------
(* Properties.                                                             *)

\* The hotspot is raised only after the whole grace period without
\* connectivity, on both paths that raise it.
GraceRespected == [][radio # AP /\ radio' = AP => offline = Grace]_vars

\* What /healthz calls an active hotspot is one: no failure of nmcli leaves the
\* flag set on a radio that does something else.
HotspotFlagTrue == hotspot => radio = AP

\* A truck that stays offline shows its hotspot again and again, so a
\* technician can always get at the portal.
OfflineShowsHotspot == <>[]~Connected => []<>(radio = AP)

\* Some saved network is in range, and all that are have internet.
Recoverable ==
  /\ saved \cap Visible # {}
  /\ \A n \in saved : air[n] # "dead"

\* A truck that stays in range of a saved network with internet, and of none
\* without, gets online and stays there: the supervisor's own hotspot, raised
\* again after each failed retry, does not lock it out.
RejoinsSavedNetwork ==
  <>[]Recoverable /\ <>[][UNCHANGED <<lan, air, saved>>]_vars => <>[]Connected

-----------------------------------------------------------------------------
(* Why they hold: the inductive invariants of the proofs.                  *)

\* Only with the access point up, and before it is taken down, is the flag set.
FlagInv ==
  hotspot => radio = AP /\ pc \in {"check", "unneeded", "raised", "stopping"}

\* Past the grace check the supervisor goes from hotspot to retry and back
\* without a success, which alone would start the grace period again.
GraceInv ==
  /\ pc \in {"profiles", "reconnect", "settle", "starting", "raised",
             "stopping", "rejoin", "probe"} => offline = Grace
  /\ hotspot /\ pc = "check" => offline = Grace

=============================================================================
