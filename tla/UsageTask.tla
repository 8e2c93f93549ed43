----------------------------- MODULE UsageTask ------------------------------
(***************************************************************************)
(* The tasks that measure what an application stores and enforce what its  *)
(* bundle allows: database-usage-limit-task, database-usage-capture-task,  *)
(* storage-usage-capture-task.  Each minute a tick counts the documents    *)
(* whose lock is old and calls a handler for each through pLimit; a        *)
(* handler claims one document and starts the work on it without waiting   *)
(* for it.                                                                 *)
(***************************************************************************)
EXTENDS PLimit, SequencesExt

CONSTANTS
    Ticks,       \* ticks of a server that may be under way at once
    Documents,   \* documents of the collection Database or StorageUser
    Watched,     \* those whose size, capacity and existence change
    Works,       \* works that may be under way at once
    Parts,       \* the buckets, or collections, whose sizes add up
    Growing,     \* those of them whose size changes
    MaxSize,     \* sizes and capacities are in 0..MaxSize
    NaN,         \* what a sum with a size that is missing gives
    Nothing,     \* no document, no count
    Kinds,       \* the tasks to consider
    MaxFaults    \* how often something fails or a server restarts

AllKinds == {"DatabaseLimit", "DatabaseCapture", "StorageCapture"}

ASSUME UsageAssumption ==
    /\ IsFiniteSet(Documents) /\ IsFiniteSet(Tasks)
    /\ Watched \subseteq Documents /\ Growing \subseteq Parts
    /\ Nothing \notin Documents
    /\ Nothing \notin Nat
    /\ NaN \notin Int
    /\ MaxFaults \in Nat /\ MaxSize \in Nat
    /\ Kinds \subseteq AllKinds
    /\ Cardinality(Tasks) >= Cardinality(Documents) + Concurrency

VARIABLES
    kind,      \* which task it is; it never changes
    doc,       \* [exists, stale, dataSize]: stale says that the lock is old
    store,     \* what the document describes: [part, total, capacity, permission]; part is
               \* the size of each part and total that of all
    work,      \* works under way: [at, doc, left, total, capacity, permission]
    counted,   \* what each tick under way has counted and not used yet
    faults

vars == <<kind, doc, store, work, counted, faults, limiter>>

-----------------------------------------------------------------------------

Idle == [at |-> "idle", doc |-> Nothing, left |-> {}, total |-> 0, capacity |-> 0,
         permission |-> "readWrite"]
Stale == {d \in Documents : doc[d].exists /\ doc[d].stale}
Live(w) == work[w].at # "idle"
At(w, step) == work[w].at = step
Of(w) == work[w].doc
Goto(w, step) == work' = [work EXCEPT ![w].at = step]
End(w) == work' = [work EXCEPT ![w] = Idle]

\* The documents right after their insert: the locks are TASK_LOCK_INIT_TIME.
Init ==
    /\ kind \in Kinds
    /\ doc = [d \in Documents |-> [exists |-> TRUE, stale |-> TRUE, dataSize |-> 0]]
    /\ store = [d \in Documents |-> [part |-> [p \in Parts |-> 0], total |-> 0,
                                     capacity |-> MaxSize, permission |-> "readWrite"]]
    /\ work = [w \in Works |-> Idle]
    /\ counted = [i \in Ticks |-> Nothing]
    /\ faults = 0
    /\ LimitInit

-----------------------------------------------------------------------------
(* tick *)

\* Mutant: the documents of another collection are counted, as storage-usage-limit does.
TickCountsOthers(i) ==
    /\ counted[i] = Nothing
    /\ counted' = [counted EXCEPT ![i] = 0]
    /\ UNCHANGED <<kind, doc, store, work, faults, limiter>>

\* A tick that counts no document is over.
TickCount(i) ==
    /\ counted[i] = Nothing
    /\ Stale # {}
    /\ counted' = [counted EXCEPT ![i] = Cardinality(Stale)]
    /\ UNCHANGED <<kind, doc, store, work, faults, limiter>>

\* Mutant: what waits already is enqueued again.
EnqueueAll(i) ==
    /\ counted[i] # Nothing /\ checks = 0
    /\ counted[i] <= Cardinality(FreeTasks)
    /\ Enqueue(SubSeq(SetToSeq(FreeTasks), 1, counted[i]))
    /\ counted' = [counted EXCEPT ![i] = Nothing]
    /\ UNCHANGED <<kind, doc, store, work, faults>>

\* Another tick may have counted the same documents, and enqueued their handlers in between;
\* its answer came over another connection, in an event whose microtasks are done.
TickEnqueue(i) ==
    /\ counted[i] # Nothing /\ checks = 0
    /\ Enqueue(SubSeq(SetToSeq(FreeTasks), 1, counted[i] - Waiting))
    /\ counted' = [counted EXCEPT ![i] = Nothing]
    /\ UNCHANGED <<kind, doc, store, work, faults>>

-----------------------------------------------------------------------------
(* The handler: findOneAndUpdate, and the work is started *)

FirstStep == CASE kind = "DatabaseLimit" -> "bundle"
               [] kind = "DatabaseCapture" -> "connect"
               [] OTHER -> "buckets"

\* The lock becomes the last half-hour mark.
ClaimAndStart(d) ==
    /\ d \in Stale
    /\ doc' = [doc EXCEPT ![d].stale = FALSE]
    /\ \E w \in Works :
         /\ ~Live(w)
         /\ work' = [work EXCEPT ![w] = [Idle EXCEPT !.at = FirstStep, !.doc = d]]

HandleClaim(t, d) ==
    /\ Settle(t)
    /\ ClaimAndStart(d)
    /\ UNCHANGED <<kind, store, counted, faults>>

HandleNothing(t) ==
    /\ Settle(t)
    /\ Stale = {}
    /\ UNCHANGED <<kind, doc, store, work, counted, faults>>

\* A handler of another replica.
ClaimElsewhere(d) ==
    /\ ClaimAndStart(d)
    /\ UNCHANGED <<kind, store, counted, faults, limiter>>

\* The claim itself fails and is logged.
HandlerFails(t) ==
    /\ Settle(t)
    /\ faults < MaxFaults
    /\ faults' = faults + 1
    /\ UNCHANGED <<kind, doc, store, work, counted>>

-----------------------------------------------------------------------------
(* limitDatabaseUsage *)

\* What is gone gives an exception, which ends the work.
IfThere(w, step) ==
    IF doc[Of(w)].exists THEN step ELSE End(w)

ReadBundle(w) ==
    /\ At(w, "bundle")
    /\ IfThere(w, work' = [work EXCEPT ![w].at = "database",
                                       ![w].capacity = store[Of(w)].capacity])
    /\ UNCHANGED <<kind, doc, store, counted, faults, limiter>>

ReadDatabase(w) ==
    /\ At(w, "database")
    /\ IfThere(w, work' = [work EXCEPT ![w].at = "permission",
                                       ![w].total = doc[Of(w)].dataSize])
    /\ UNCHANGED <<kind, doc, store, counted, faults, limiter>>

ReadPermission(w) ==
    /\ At(w, "permission")
    /\ IfThere(w, work' = [work EXCEPT ![w].at = "enforce",
                                       ![w].permission = store[Of(w)].permission])
    /\ UNCHANGED <<kind, doc, store, counted, faults, limiter>>

Overused(w) == work[w].capacity < work[w].total
Verdict(w) == IF Overused(w) THEN "read" ELSE "readWrite"

\* Write permission is taken from a user who has it, or given to one who has not.
Enforce(w) ==
    /\ At(w, "enforce")
    /\ store' = IF doc[Of(w)].exists /\ work[w].permission # Verdict(w)
                  THEN [store EXCEPT ![Of(w)].permission = Verdict(w)] ELSE store
    /\ End(w)
    /\ UNCHANGED <<kind, doc, counted, faults, limiter>>

-----------------------------------------------------------------------------
(* captureDatabaseUsage and captureStorageUsage *)

Connect(w) ==
    /\ At(w, "connect")
    /\ IfThere(w, Goto(w, "stats"))
    /\ UNCHANGED <<kind, doc, store, counted, faults, limiter>>

Stats(w) ==
    /\ At(w, "stats")
    /\ work' = [work EXCEPT ![w].at = "save", ![w].total = store[Of(w)].total]
    /\ UNCHANGED <<kind, doc, store, counted, faults, limiter>>

ListBuckets(w) ==
    /\ At(w, "buckets")
    /\ work' = [work EXCEPT ![w].at = "measure", ![w].left = Parts]
    /\ UNCHANGED <<kind, doc, store, counted, faults, limiter>>

NextBucket(w) == CHOOSE p \in work[w].left : TRUE

\* The buckets are measured one after the other, while their sizes change.
MeasureBucket(w) ==
    /\ At(w, "measure") /\ work[w].left # {}
    /\ LET p == NextBucket(w) IN
         work' = [work EXCEPT ![w].left = @ \ {p},
                              ![w].total = IF @ = NaN THEN NaN ELSE @ + store[Of(w)].part[p]]
    /\ UNCHANGED <<kind, doc, store, counted, faults, limiter>>

\* mc answers with an error, which has no size and is not looked at.
MeasureFails(w) ==
    /\ At(w, "measure") /\ work[w].left # {}
    /\ faults < MaxFaults
    /\ faults' = faults + 1
    /\ work' = [work EXCEPT ![w].left = @ \ {NextBucket(w)}, ![w].total = NaN]
    /\ UNCHANGED <<kind, doc, store, counted, limiter>>

\* Mutant: only the first size is stored.
SaveFirst(w) ==
    /\ At(w, "save") \/ (At(w, "measure") /\ work[w].left = {})
    /\ doc' = IF doc[Of(w)].exists /\ work[w].total # NaN /\ doc[Of(w)].dataSize = 0
                THEN [doc EXCEPT ![Of(w)].dataSize = work[w].total] ELSE doc
    /\ End(w)
    /\ UNCHANGED <<kind, store, counted, faults, limiter>>

Save(w) ==
    /\ At(w, "save") \/ (At(w, "measure") /\ work[w].left = {})
    /\ doc' = IF doc[Of(w)].exists THEN [doc EXCEPT ![Of(w)].dataSize = work[w].total]
                                   ELSE doc
    /\ End(w)
    /\ UNCHANGED <<kind, store, counted, faults, limiter>>

-----------------------------------------------------------------------------
(* Faults, locks, and what others do *)

\* A command of the work fails; it is logged.
WorkFails(w) ==
    /\ Live(w)
    /\ faults < MaxFaults
    /\ faults' = faults + 1
    /\ End(w)
    /\ UNCHANGED <<kind, doc, store, counted, limiter>>

\* The server starts again: what waited, ran and was under way in it is gone.
Restart ==
    /\ faults < MaxFaults
    /\ faults' = faults + 1
    /\ queue' = <<>> /\ activeCount' = 0 /\ checks' = 0
    /\ task' = [t \in Tasks |-> "free"]
    /\ counted' = [i \in Ticks |-> Nothing]
    /\ \E dead \in SUBSET Works : work' = [w \in Works |-> IF w \in dead THEN Idle ELSE work[w]]
    /\ UNCHANGED <<kind, doc, store>>

\* Mutant: the lock of a limit is as short as that of a capture.
LockExpiresEarly(d) ==
    /\ doc[d].exists /\ ~doc[d].stale
    /\ doc' = [doc EXCEPT ![d].stale = TRUE]
    /\ UNCHANGED <<kind, store, work, counted, faults, limiter>>

\* A limit's lock lasts two hours at least, longer than any work; a capture's, which may
\* be set back by an hour and lasts one, may be over at once.
LockExpires(d) ==
    /\ doc[d].exists /\ ~doc[d].stale
    /\ kind = "DatabaseLimit" => \A w \in Works : Of(w) # d
    /\ doc' = [doc EXCEPT ![d].stale = TRUE]
    /\ UNCHANGED <<kind, store, work, counted, faults, limiter>>

\* The user stores and removes data.
Write(d, p, size) ==
    /\ kind # "DatabaseLimit" /\ doc[d].exists
    /\ store' = [store EXCEPT ![d].part[p] = size,
                              ![d].total = @ + size - store[d].part[p]]
    /\ UNCHANGED <<kind, doc, work, counted, faults, limiter>>

\* For the limit: a capture, and a change of the bundle.
Captured(d, size) ==
    /\ kind = "DatabaseLimit" /\ doc[d].exists
    /\ doc' = [doc EXCEPT ![d].dataSize = size]
    /\ UNCHANGED <<kind, store, work, counted, faults, limiter>>
ChangeBundle(d, size) ==
    /\ kind = "DatabaseLimit" /\ doc[d].exists
    /\ store' = [store EXCEPT ![d].capacity = size]
    /\ UNCHANGED <<kind, doc, work, counted, faults, limiter>>

\* The application is deleted.
Deleted(d) ==
    /\ doc[d].exists
    /\ doc' = [doc EXCEPT ![d].exists = FALSE]
    /\ UNCHANGED <<kind, store, work, counted, faults, limiter>>

-----------------------------------------------------------------------------

Microtask ==
    /\ LimiterStep
    /\ UNCHANGED <<kind, doc, store, work, counted, faults>>
Handler(t) == HandleNothing(t) \/ (\E d \in Documents : HandleClaim(t, d))
WorkStep(w) ==
    \/ ReadBundle(w) \/ ReadDatabase(w) \/ ReadPermission(w) \/ Enforce(w)
    \/ Connect(w) \/ Stats(w)
    \/ ListBuckets(w) \/ MeasureBucket(w) \/ Save(w)

Environment ==
    \/ \E d \in Watched :
         \/ Deleted(d)
         \/ \E size \in 0..MaxSize :
              \/ Captured(d, size) \/ ChangeBundle(d, size)
              \/ \E p \in Growing : Write(d, p, size)
    \/ \E d \in Documents : LockExpires(d) \/ ClaimElsewhere(d)

Next ==
    \/ \E i \in Ticks : TickCount(i) \/ TickEnqueue(i)
    \/ Microtask
    \/ \E t \in Tasks : Handler(t) \/ HandlerFails(t)
    \/ \E w \in Works : WorkStep(w) \/ MeasureFails(w) \/ WorkFails(w)
    \/ Environment
    \/ Restart

Spec == Init /\ [][Next]_vars

(***************************************************************************)
(* Ticks come each minute, promises settle, locks grow old.  A document    *)
(* whose lock is old is claimed sooner or later, although others are       *)
(* claimed first: a tick calls as many handlers as there are such          *)
(* documents, and locks last hours.                                        *)
(***************************************************************************)
Fairness ==
    /\ \A i \in Ticks : WF_vars(TickCount(i)) /\ WF_vars(TickEnqueue(i))
    /\ WF_vars(Microtask)
    /\ \A t \in Tasks : WF_vars(Handler(t))
    /\ \A d \in Documents : SF_vars(\E t \in Tasks : HandleClaim(t, d)) /\ WF_vars(LockExpires(d))
    /\ \A w \in Works : WF_vars(WorkStep(w))
FairSpec == Spec /\ Fairness

-----------------------------------------------------------------------------
(* Properties *)

Permissions == {"read", "readWrite"}
WorkSteps == {"idle", "bundle", "database", "permission", "enforce", "connect", "stats",
              "buckets", "measure", "save"}
Sizes == Int \cup {NaN}

TypeOK ==
    /\ kind \in Kinds
    /\ doc \in [Documents -> [exists : BOOLEAN, stale : BOOLEAN, dataSize : Sizes]]
    /\ store \in [Documents -> [part : [Parts -> Int], total : Int, capacity : Int,
                                permission : Permissions]]
    /\ work \in [Works -> [at : WorkSteps, doc : Documents \cup {Nothing}, left : SUBSET Parts,
                           total : Sizes, capacity : Int, permission : Permissions]]
    /\ \A w \in Works : Live(w) => Of(w) \in Documents
    /\ counted \in [Ticks -> (0..Cardinality(Documents)) \cup {Nothing}]
    /\ faults \in 0..MaxFaults
    /\ queue \in Seq(Tasks) /\ checks \in Nat /\ activeCount \in Nat
    /\ task \in [Tasks -> {"free", "queued", "running", "settled"}]

\* However slow handlers are and however often the tick comes: no more handlers wait than
\* there are documents.
QueueBounded == Waiting <= Cardinality(Documents)

\* The end of a check leaves the permission that follows from the sizes it read, although
\* it writes only when the permission it read differs.
VerdictIsApplied ==
    [][\A w \in Works :
         At(w, "enforce") /\ work'[w] = Idle /\ faults' = faults /\ doc[Of(w)].exists =>
             store'[Of(w)].permission = Verdict(w)]_vars

\* Once bundle and stored size stay as they are, a database that is too large becomes
\* read-only and one within its bundle writable.  While both change, a check may read the
\* old capacity with the new size and judge wrongly, until the next check.
LimitIsEnforced ==
    \A d \in Watched, capacity \in 0..MaxSize, size \in 0..MaxSize :
        <>[](/\ kind = "DatabaseLimit" /\ doc[d].exists
             /\ store[d].capacity = capacity /\ doc[d].dataSize = size)
          => <>[](store[d].permission = IF capacity < size THEN "read" ELSE "readWrite")

\* Once the user stops writing, the stored size becomes the true one, whatever was
\* measured in between, added up in the middle of a change, or not a number.
SizeIsCaptured ==
    \A d \in Watched :
        \A size \in 0..(MaxSize * Cardinality(Parts)) :
            <>[](kind # "DatabaseLimit" /\ doc[d].exists /\ store[d].total = size)
                => <>[](doc[d].dataSize = size)
=============================================================================
