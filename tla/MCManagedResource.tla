-------------------------- MODULE MCManagedResource --------------------------
(* Model values for the checks of ManagedResource. *)
EXTENDS ManagedResource
CONSTANTS w1, w2, h1, h2
=============================================================================
