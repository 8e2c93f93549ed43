---------------------------- MODULE MCApplication ----------------------------
(* Model values for the checks of Application. *)
EXTENDS Application, TLC
CONSTANTS w1, w2, r1
Symmetry == Permutations(Workers)
=============================================================================
