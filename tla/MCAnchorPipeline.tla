-------------------------- MODULE MCAnchorPipeline --------------------------
(* Values of Files for TLC: the anchors are deactivated, or the file is       *)
(* damaged and the allowlist decides.                                         *)
EXTENDS AnchorPipeline

AnchorOut == [n \in Node |-> IF n \in Anchor THEN "inactive" ELSE "active"]

MCFiles == {AnchorOut, Unreadable}

=============================================================================
