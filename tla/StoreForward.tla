---------------------------- MODULE StoreForward ----------------------------
(***************************************************************************)
(* What the truck promises about a telemetry row, with no word on how: a   *)
(* row written to the local database is held until the cloud has it, may   *)
(* reach the cloud at any time while it is held, and is forgotten only     *)
(* after that.  SyncQueue implements this with SQLite tables, batches,     *)
(* HTTP answers and a purge.                                               *)
(***************************************************************************)

CONSTANTS
  Row,        \* every row the truck can write
  Discard     \* rows the cloud answers 2xx for without keeping them

VARIABLES
  held,       \* rows in the local database
  reached     \* rows the cloud has kept

vars == <<held, reached>>

TypeOK ==
  /\ held \subseteq Row
  /\ reached \subseteq Row

Init ==
  /\ held = {}
  /\ reached = {}

\* A row is written once; a forgotten row never comes back.
Enqueue(r) ==
  /\ r \notin held \cup reached
  /\ held' = held \cup {r}
  /\ UNCHANGED reached

\* Some of the held rows arrive, in one request.
Forward ==
  \E S \in SUBSET (held \ reached) :
    /\ reached' = reached \cup S
    /\ UNCHANGED held

\* The device frees only what it no longer owes to the cloud.
Forget ==
  \E S \in SUBSET (held \cap (reached \cup Discard)) :
    /\ held' = held \ S
    /\ UNCHANGED reached

Next ==
  \/ \E r \in Row : Enqueue(r)
  \/ Forward
  \/ Forget

Spec == Init /\ [][Next]_vars

=============================================================================
