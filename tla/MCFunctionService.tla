------------------------- MODULE MCFunctionService -------------------------
(* FunctionService for TLC: model values, and the bounds of the explorations. *)
EXTENDS FunctionService

CONSTANTS i1, i2, n1, n2, c1, c2, q1, q2, k1, k2

AllKinds == {"create", "update", "rename", "remove", "restore", "use"}

\* Requests that overlap and fail while no runtime is up.
Overlapping == [calls |-> 3, atOnce |-> 2, faults |-> 1, triggers |-> FALSE,
                runtime |-> FALSE, closes |-> 0, kinds |-> AllKinds]

\* A runtime, with one request after the other.
Serving == [calls |-> 3, atOnce |-> 1, faults |-> 0, triggers |-> FALSE,
            runtime |-> TRUE, closes |-> 1, kinds |-> {"create", "update", "rename", "remove"}]
\* Triggers of a function that is renamed.
Triggering == [calls |-> 2, atOnce |-> 2, faults |-> 1, triggers |-> TRUE,
               runtime |-> FALSE, closes |-> 0, kinds |-> {"update", "rename"}]

AllBounds == {Overlapping, Triggering, Serving}
Serial == {[Overlapping EXCEPT !.atOnce = 1, !.faults = 0]}

\* Requests, reads and codes are exchangeable; ids and names are chosen from.
Symmetry == Permutations(Requests) \cup Permutations(Reads) \cup Permutations(Codes)
=============================================================================
