---------------------------- MODULE MCSyncQueue -----------------------------
(* Values of SyncQueue's constants for TLC.                                *)
EXTENDS SyncQueue

LimitOne == [t \in Tables |-> 1]
LimitTwoOne == [t \in Tables |-> IF t = 1 THEN 2 ELSE 1]

=============================================================================
