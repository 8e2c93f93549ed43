----------------------------- MODULE MCRecharge -----------------------------
(* Model values for the checks of Recharge. *)
EXTENDS Recharge, TLC
CONSTANTS o1, o2, g1, g2, r1, r2
MCTiers == {[amount |-> 2, reward |-> 1]}
=============================================================================
