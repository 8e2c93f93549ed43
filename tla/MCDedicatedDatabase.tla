------------------------- MODULE MCDedicatedDatabase -------------------------
(* Model values for the checks of DedicatedDatabase. *)
EXTENDS DedicatedDatabase
CONSTANTS w1, w2
=============================================================================
