---------------------------- MODULE MCUsageTask -----------------------------
(* Values for the model checker. *)
EXTENDS UsageTask

CONSTANTS t1, t2, t3, k1, k2, d1, w1, w2, p1, p2
=============================================================================
