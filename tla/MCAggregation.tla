--------------------------- MODULE MCAggregation ---------------------------
(* Small instances of Aggregation. *)
EXTENDS Aggregation, TLC

CONSTANTS t1, t2, t3, ann, bob

\* Ann has ridden twice where she can, Bob once.
OwnerAnn == t1 :> ann @@ t2 :> ann
Owner3 == t1 :> ann @@ t2 :> ann @@ t3 :> bob
=============================================================================
