--------------------------- MODULE ApplicationDoc ---------------------------
(***************************************************************************)
(* The Application document of the control plane, the lock stored in it,   *)
(* the handler executions that work on it, and the API requests that state *)
(* what its owner wants.                                                   *)
(*                                                                         *)
(* The document holds an intent (state, written by the API) and a progress *)
(* marker (phase, written by the handlers that the cron tick of every      *)
(* server replica starts).  A handler claims the document with one atomic  *)
(* findOneAndUpdate that stores the time in lockedAt; a lockedAt older     *)
(* than lockTimeout counts as unlocked.  No token fences a handler that    *)
(* outlives its lock.                                                      *)
(***************************************************************************)
EXTENDS Naturals, Sequences

CONSTANTS
    Workers,       \* handler executions that may be in flight at once
    Requests,      \* API requests that may be in flight at once
    Free,          \* lockedAt is older than lockTimeout
    Nobody,        \* lockedAt is recent, and the handler that set it has ended
    SlowHandlers,  \* may a live handler outlast lockTimeout?
    MaxFaults      \* how many handlers may throw or die half-way

ASSUME LockAssumption ==
    /\ Free # Nobody
    /\ Free \notin Workers
    /\ Nobody \notin Workers
ASSUME BoundAssumption == SlowHandlers \in BOOLEAN /\ MaxFaults \in Nat

States == {"Running", "Stopped", "Restarting", "Deleted"}

\* "Removed" is not a phase of the code: it says that the document is gone.
Phases == {"Creating", "Created", "Starting", "Started", "Stopping",
           "Stopped", "Deleting", "Deleted", "Removed"}

\* The phases in which each handler claims the document.
JobPhases == [creating   |-> {"Creating"},
              deleting   |-> {"Deleting"},
              starting   |-> {"Starting"},
              stopping   |-> {"Stopping"},
              restarting |-> {"Started", "Stopped"}]
Jobs == {"creating", "deleting", "starting", "stopping", "restarting"}

VARIABLES
    app,      \* [state, phase, lock]: the document
    worker,   \* handler executions: what each runs, where it is, what it has read
    request,  \* state an admitted API request is about to write, or "none"
    faults    \* handlers that have thrown or died so far

docVars == <<app, worker, request, faults>>

Idle == [job |-> "none", at |-> "idle", toState |-> "Running", i |-> 0, saw |-> {}]

Exists == app.phase # "Removed"
Live(w) == worker[w].job # "none"

\* The document as application.service create() commits it.
DocInit ==
    /\ app = [state |-> "Running", phase |-> "Creating", lock |-> Free]
    /\ worker = [w \in Workers |-> Idle]
    /\ request = [r \in Requests |-> "none"]
    /\ faults = 0

-----------------------------------------------------------------------------
(* Building blocks of the handlers *)

\* Mutant: the filter on lockedAt is forgotten.
ClaimLocked(w, job, first) ==
    /\ ~Live(w)
    /\ app.phase \in JobPhases[job]
    /\ app' = [app EXCEPT !.lock = w]
    /\ worker' = [worker EXCEPT ![w] =
                    [Idle EXCEPT !.job = job, !.at = first, !.toState = app.state]]

\* findOneAndUpdate({phase, lockedAt older than the timeout}, {lockedAt: now}).
\* The handler keeps the document it read: toState is app.state at that time.
Claim(w, job, first) ==
    /\ ~Live(w)
    /\ app.phase \in JobPhases[job]
    /\ app.lock = Free
    /\ app' = [app EXCEPT !.lock = w]
    /\ worker' = [worker EXCEPT ![w] =
                    [Idle EXCEPT !.job = job, !.at = first, !.toState = app.state]]

At(w, job, step) == worker[w].job = job /\ worker[w].at = step

Goto(w, step) == worker' = [worker EXCEPT ![w].at = step]

End(w) == worker' = [worker EXCEPT ![w] = Idle]

\* updateOne({appid}, {lockedAt}) on a document that may be gone.
SetLock(lock) == app' = IF Exists THEN [app EXCEPT !.lock = lock] ELSE app

\* unlock(appid): the next tick may claim the document.
Unlock(w) == worker[w].at = "unlock" /\ SetLock(Free) /\ End(w)

\* relock(appid, waitingTime): claimable again after a delay.
Relock(w) == worker[w].at = "relock" /\ SetLock(Nobody) /\ End(w)

\* Mutant: updateOne({appid}, ...), without the phase in the filter.
WriteAlways(from, state, phase) ==
    app' = IF Exists THEN [state |-> state, phase |-> phase, lock |-> Free] ELSE app

\* updateOne({phase in from}, {state, phase, lockedAt: TASK_LOCK_INIT_TIME}).
WriteIfPhase(from, state, phase) ==
    app' = IF app.phase \in from
             THEN [state |-> state, phase |-> phase, lock |-> Free]
             ELSE app

\* A step of the handler throws, or the replica that runs it dies: the handler
\* ends and lockedAt stays as it is.
Throw(w) ==
    /\ Live(w)
    /\ faults < MaxFaults
    /\ faults' = faults + 1
    /\ End(w)
    /\ UNCHANGED <<app, request>>

\* Mutant: only relock() leaves a lock that times out.
LockOfTheDeadStays ==
    /\ app.lock = Nobody
    /\ app' = [app EXCEPT !.lock = Free]
    /\ UNCHANGED <<worker, request, faults>>

\* lockedAt gets older than the timeout.  Nobody is left to renew it once its
\* handler has ended; a live handler is overtaken only if handlers may be slow.
LockExpires ==
    /\ app.lock # Free
    /\ \/ SlowHandlers
       \/ app.lock = Nobody
       \/ app.lock \in Workers /\ ~Live(app.lock)
    /\ app' = [app EXCEPT !.lock = Free]
    /\ UNCHANGED <<worker, request, faults>>

-----------------------------------------------------------------------------
(* API requests.  The guard is evaluated on the document the request read  *)
(* before the handler ran; the write comes later and is unconditional.  A  *)
(* negative balance rejects any of them, so each may fail to be admitted.  *)

MayRestart == app.state = "Running" \/ app.phase = "Started"
MayStop    == app.state = "Running" \/ app.phase = "Started"
MayStart   == app.state = "Stopped" \/ app.phase = "Stopped"
MayDelete  == app.state = "Stopped" \/ app.phase = "Stopped"
MayResize  == app.phase = "Started"

Admit(r, target) ==
    /\ Exists
    /\ request[r] = "none"
    /\ request' = [request EXCEPT ![r] = target]
    /\ UNCHANGED <<app, worker, faults>>

AdmitRestart(r) == MayRestart /\ Admit(r, "Restarting")
AdmitStop(r)    == MayStop /\ Admit(r, "Stopped")
AdmitStart(r)   == MayStart /\ Admit(r, "Running")
AdmitDelete(r)  == MayDelete /\ Admit(r, "Deleted")
AdmitResize(r)  == MayResize /\ Admit(r, "Restarting")  \* new cpu, memory or scaling

\* ApplicationService.updateState and remove: neither looks at phase or lock.
ServeRequest(r) ==
    /\ request[r] # "none"
    /\ app' = IF Exists THEN [app EXCEPT !.state = request[r]] ELSE app
    /\ request' = [request EXCEPT ![r] = "none"]
    /\ UNCHANGED <<worker, faults>>

\* The billing payment task stops the application of an indebted account.
ForceStop ==
    /\ app.state = "Running" /\ Exists
    /\ app' = [app EXCEPT !.state = "Stopped"]
    /\ UNCHANGED <<worker, request, faults>>

ApiNext ==
    \/ \E r \in Requests :
         \/ AdmitRestart(r) \/ AdmitStop(r) \/ AdmitStart(r)
         \/ AdmitDelete(r) \/ AdmitResize(r) \/ ServeRequest(r)
    \/ ForceStop
=============================================================================
