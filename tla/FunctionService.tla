--------------------------- MODULE FunctionService ---------------------------
(***************************************************************************)
(* The functions of an application: the control plane that stores and      *)
(* publishes them, together with a runtime that serves them.               *)
(***************************************************************************)
EXTENDS CloudFunctions, FunctionCache

CONSTANT
    Bounds   \* a set of [calls, atOnce, faults, triggers, runtime, closes, kinds]

VARIABLES
    bound,   \* one of Bounds; it never changes
    calls,   \* how many requests there were
    closes   \* how often the stream closed

vars == <<publication, control, runtime, bound, calls, closes>>

Init ==
    /\ bound \in Bounds
    /\ ControlInit
    /\ CacheInit
    /\ calls = 0 /\ closes = 0

Called ==
    /\ calls < bound.calls
    /\ calls' = calls + 1
    /\ Cardinality({r \in Requests : Live(r)}) < bound.atOnce
    /\ \E r \in Requests, n \in Names :
         \/ \E c \in Codes, kind \in bound.kinds \cap {"create", "update"} : Call(r, kind, n, None, c, {})
         \/ "use" \in bound.kinds /\ n = Taken /\ \E c \in Codes : Call(r, "use", n, Copy, c, {})
         \/ "rename" \in bound.kinds /\ \E m \in Names \ {n} : Call(r, "rename", n, m, None, {})
         \/ "remove" \in bound.kinds /\ Call(r, "remove", n, None, None, {})
         \/ "restore" \in bound.kinds /\ \E ids \in SUBSET Ids \ {{}} :
              Call(r, "restore", None, None, None, ids)
    /\ UNCHANGED <<runtime, bound, closes>>

Requested ==
    /\ \E r \in Requests : RequestStep(r)
    /\ UNCHANGED <<runtime, bound, calls, closes>>

Disturbed ==
    /\ \/ faults < bound.faults /\ \E r \in Requests : Fail(r)
       \/ bound.triggers /\ \E n \in Names : CreateTrigger(n)
       \/ "restore" \in bound.kinds /\ \E ids \in SUBSET Ids : Purge(ids)
    /\ UNCHANGED <<runtime, bound, calls, closes>>

Served ==
    /\ CacheStep \/ OpenStream
    /\ UNCHANGED <<control, bound, calls, closes>>

StartsOrStops ==
    /\ bound.runtime
    /\ (Start \/ Stop)
    /\ UNCHANGED <<control, bound, calls, closes>>

Disconnected ==
    /\ closes < bound.closes
    /\ closes' = closes + 1
    /\ CloseStream
    /\ UNCHANGED <<control, bound, calls>>

Next == Called \/ Requested \/ Disturbed \/ Served \/ StartsOrStops \/ Disconnected

Spec == Init /\ [][Next]_vars

-----------------------------------------------------------------------------
(* Properties *)

Quiet == \A r \in Requests : ~Live(r)

\* Every variable keeps to its domain; what requests publish are whole documents.
TypeOK ==
    /\ CacheTypeOK
    /\ stored \in [Ids -> Docs]
    /\ \A b \in bin : b.id \in Ids /\ b.doc \in Doc
    /\ trigger \subseteq Names /\ torn \subseteq Names
    /\ born \subseteq Ids /\ purged \subseteq born
    /\ \A r \in Requests : DOMAIN Fns(r) \subseteq Ids /\ \A i \in DOMAIN Fns(r) : Fns(r)[i] \in Doc

\* Whatever overlaps and fails: a function is in the collection or in the recycle bin,
\* never in both, until it is deleted from the bin; and triggers survive the renaming of
\* what they call.
NothingLost ==
    /\ \A i \in Ids : ~(Has(stored, i) /\ \E b \in bin : b.id = i)
    /\ \A i \in born \ purged : Has(stored, i) \/ \E b \in bin : b.id = i
    /\ triggered => trigger # {}

\* Between requests the two databases agree about every name, and what runs is what was
\* written, unless requests about the name overlapped or failed since it was last updated
\* without being disturbed.
Agreement ==
    Quiet => \A n \in Names \ (torn \cup Doubled(stored)) :
        /\ Items(stored, Named(stored, {n})) = Items(published, Named(published, {n}))
        /\ \A i \in Named(stored, {n}) : stored[i].compiled = stored[i].code

\* A function's name is unique in the application.
NamesAreUnique == Doubled(stored) = {}
=============================================================================
