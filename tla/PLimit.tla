------------------------------- MODULE PLimit -------------------------------
(***************************************************************************)
(* The helper pLimit(concurrency): functions wait in a queue and at most   *)
(* concurrency of them run.  Each call enqueues its function and looks, in *)
(* a later microtask, whether there is room; a function that settles gives *)
(* its place to the head of the queue.  Microtasks may run here in any     *)
(* order, which is more than the event loop does.                          *)
(***************************************************************************)
EXTENDS Integers, FiniteSets, Sequences

CONSTANTS
    Tasks,        \* names for the functions that wait or run; a name is used again
    Concurrency   \* how many may run

ASSUME ConcurrencyAssumption == Concurrency \in Nat \ {0}

VARIABLES
    queue,        \* the functions that wait
    activeCount,
    checks,       \* how many calls have not looked for room yet
    task          \* "free", "queued", "running" or "settled"

limiter == <<queue, activeCount, checks, task>>

LimitInit ==
    /\ queue = <<>>
    /\ activeCount = 0
    /\ checks = 0
    /\ task = [t \in Tasks |-> "free"]

FreeTasks == {t \in Tasks : task[t] = "free"}
Waiting == Len(queue)

\* limit(fn), for each of the functions.
Enqueue(fns) ==
    /\ queue' = queue \o fns
    /\ checks' = checks + Len(fns)
    /\ task' = [t \in Tasks |-> IF \E i \in 1..Len(fns) : fns[i] = t THEN "queued" ELSE task[t]]
    /\ UNCHANGED activeCount

\* Mutant: there is always room.
CheckBlind ==
    /\ checks > 0
    /\ checks' = checks - 1
    /\ IF queue # <<>>
         THEN /\ activeCount' = activeCount + 1
              /\ queue' = Tail(queue)
              /\ task' = [task EXCEPT ![Head(queue)] = "running"]
         ELSE UNCHANGED <<activeCount, queue, task>>

Check ==
    /\ checks > 0
    /\ checks' = checks - 1
    /\ IF activeCount < Concurrency /\ queue # <<>>
         THEN /\ activeCount' = activeCount + 1
              /\ queue' = Tail(queue)
              /\ task' = [task EXCEPT ![Head(queue)] = "running"]
         ELSE UNCHANGED <<activeCount, queue, task>>

\* The function's promise is resolved or rejected; run() goes on after its await.
Settle(t) ==
    /\ task[t] = "running"
    /\ task' = [task EXCEPT ![t] = "settled"]
    /\ UNCHANGED <<queue, activeCount, checks>>

\* Mutant: nothing takes the place of a function that has settled.
NextForgets(t) ==
    /\ task[t] = "settled"
    /\ activeCount' = activeCount - 1
    /\ task' = [task EXCEPT ![t] = "free"]
    /\ UNCHANGED <<queue, checks>>

\* next()
NextRuns(t) ==
    /\ task[t] = "settled"
    /\ IF queue # <<>>
         THEN /\ task' = [task EXCEPT ![t] = "free", ![Head(queue)] = "running"]
              /\ queue' = Tail(queue)
              /\ UNCHANGED activeCount
         ELSE /\ task' = [task EXCEPT ![t] = "free"]
              /\ activeCount' = activeCount - 1
              /\ UNCHANGED queue
    /\ UNCHANGED checks

LimiterStep == Check \/ \E t \in Tasks : NextRuns(t)

-----------------------------------------------------------------------------
(* Properties *)

Running == {t \in Tasks : task[t] \in {"running", "settled"}}

\* At most Concurrency functions run, and activeCount counts them, whether they resolve or
\* reject.
ActiveBound == activeCount = Cardinality(Running) /\ activeCount <= Concurrency

\* No function waits while there is room, although next() and the check of a call compete
\* for the head of the queue and neither looks again.
SlotsAreUsed == checks = 0 /\ queue # <<>> => activeCount = Concurrency
=============================================================================
