------------------------------ MODULE MCBilling ------------------------------
(* Model values for the checks of Billing. *)
EXTENDS Billing
CONSTANTS c1, c2, p1, p2
=============================================================================
