-------------------------- MODULE DedicatedDatabase --------------------------
(***************************************************************************)
(* DedicatedDatabaseTaskService: the handlers that start, stop and delete  *)
(* the dedicated database of one application, and the KubeBlocks manifest  *)
(* they apply to the cluster.  One action per await.                       *)
(*                                                                         *)
(* The locks are those of the Application document, with two differences:  *)
(* the handlers of the five states do not look at them, and a handler that *)
(* has scaled down or deleted the manifest relocks the document and then   *)
(* goes on to its last write, without the lock.                            *)
(***************************************************************************)
EXTENDS Naturals

CONSTANTS
    Workers,       \* handler executions that may be in flight at once
    Free,          \* lockedAt is older than lockTimeout
    Nobody,        \* lockedAt is recent, and no handler counts on it
    SlowHandlers,  \* may a live handler outlast lockTimeout?
    MaxFaults      \* how many handlers may throw or die half-way

ASSUME DdbLockAssumption ==
    /\ Free # Nobody
    /\ Free \notin Workers
    /\ Nobody \notin Workers
ASSUME DdbBoundAssumption == SlowHandlers \in BOOLEAN /\ MaxFaults \in Nat

VARIABLES
    doc,       \* [state, phase, lock]; phase "None" says that it is gone
    worker,    \* handler executions: [job, at, toState]
    manifest,  \* the object of the cluster: [is, up]; up says that replicas are asked for
    faults,    \* handlers that have thrown or died so far
    met,       \* history: have two handlers been live at once?
    misread    \* history: has the last handler been told of no manifest though there is one?

taskVars == <<doc, worker, manifest, faults>>
vars == <<taskVars, met, misread>>

JobPhase == [starting |-> "Starting", stopping |-> "Stopping", deleting |-> "Deleting"]
Jobs == {"starting", "stopping", "deleting"}
DocStates == {"Running", "Stopped", "Restarting", "Deleted"}
DocPhases == {"None", "Starting", "Started", "Stopping", "Stopped", "Deleting", "Deleted"}

Idle == [job |-> "none", at |-> "idle", toState |-> "Running"]
Absent == [is |-> "absent", up |-> FALSE]
Exists == doc.phase # "None"
Live(w) == worker[w].job # "none"

Init ==
    /\ doc = [state |-> "Running", phase |-> "Starting", lock |-> Free]
    /\ worker = [w \in Workers |-> Idle]
    /\ manifest = Absent
    /\ faults = 0
    /\ met = FALSE
    /\ misread = FALSE

-----------------------------------------------------------------------------
(* Building blocks *)

At(w, job, step) == worker[w].job = job /\ worker[w].at = step
Goto(w, step) == worker' = [worker EXCEPT ![w].at = step]
End(w) == worker' = [worker EXCEPT ![w] = Idle]

\* findOneAndUpdate({phase, lockedAt older than the timeout}, {lockedAt: now}).
Claim(w, job) ==
    /\ ~Live(w)
    /\ doc.phase = JobPhase[job]
    /\ doc.lock = Free
    /\ doc' = [doc EXCEPT !.lock = w]
    /\ worker' = [worker EXCEPT ![w] = [job |-> job, at |-> "get", toState |-> doc.state]]
    /\ UNCHANGED <<manifest, faults>>

\* Mutant: updateOne({appid}, ...), without the phase in the filter.
WriteAlways(from, state, phase) ==
    doc' = IF Exists THEN [state |-> state, phase |-> phase, lock |-> Free] ELSE doc

\* updateOne({appid, phase}, {state, phase, lockedAt: TASK_LOCK_INIT_TIME}).
WriteIfPhase(from, state, phase) ==
    doc' = IF doc.phase = from THEN [state |-> state, phase |-> phase, lock |-> Free] ELSE doc

Relock(w, step) ==
    /\ worker[w].at = "relock"
    /\ doc' = IF Exists THEN [doc EXCEPT !.lock = Nobody] ELSE doc
    /\ IF step = "idle" THEN End(w) ELSE Goto(w, step)
    /\ UNCHANGED <<manifest, faults>>

\* applyDeployManifest creates or patches the object; a patch does not save an
\* object that terminates.
Apply(up) ==
    manifest' = [is |-> IF manifest = Absent THEN "there" ELSE manifest.is, up |-> up]

\* getDeployManifest returns null on any error of its read, which the handlers take for a
\* manifest that is not there.
ReadFails(w) ==
    /\ worker[w].at = "get"
    /\ manifest # Absent
    /\ Goto(w, IF worker[w].job = "starting" THEN "apply" ELSE "conclude")
    /\ UNCHANGED <<doc, manifest, faults>>

\* It throws when the application's deletion has removed the bundle it reads.
ApplyFails(w) ==
    /\ worker[w].at \in {"apply", "scale"}
    /\ doc.state = "Deleted"
    /\ End(w)
    /\ UNCHANGED <<doc, manifest, faults>>

-----------------------------------------------------------------------------
(* handleStartingPhase *)

StartingGet(w) ==
    /\ At(w, "starting", "get")
    /\ Goto(w, IF manifest.up THEN "age" ELSE "apply")
    /\ UNCHANGED <<doc, manifest, faults>>

StartingApply(w) ==
    /\ At(w, "starting", "apply")
    /\ Apply(TRUE)
    /\ Goto(w, "age")
    /\ UNCHANGED <<doc, faults>>

\* updatedAt is more than five minutes old.
StartingTimeout(w) ==
    /\ At(w, "starting", "age")
    /\ WriteIfPhase("Starting", "Stopped", "Stopping")
    /\ End(w)
    /\ UNCHANGED <<manifest, faults>>

StartingUnavailable(w) ==
    /\ At(w, "starting", "age")
    /\ Goto(w, "relock")
    /\ UNCHANGED <<doc, manifest, faults>>

\* The manifest's status says Running: the cluster decides when.
StartingAvailable(w) ==
    /\ At(w, "starting", "age")
    /\ manifest.up
    /\ Goto(w, "conclude")
    /\ UNCHANGED <<doc, manifest, faults>>

\* toState is the state read when the document was claimed.
StartingConclude(w) ==
    /\ At(w, "starting", "conclude")
    /\ WriteIfPhase("Starting",
                    IF worker[w].toState = "Restarting" THEN "Running" ELSE worker[w].toState,
                    "Started")
    /\ End(w)
    /\ UNCHANGED <<manifest, faults>>

StartingRelock(w) == worker[w].job = "starting" /\ Relock(w, "idle")

-----------------------------------------------------------------------------
(* handleStoppingPhase *)

\* Mutant: the test of the replicas is the wrong way round.
StoppingGetSwapped(w) ==
    /\ At(w, "stopping", "get")
    /\ Goto(w, IF manifest.up THEN "conclude" ELSE "scale")
    /\ UNCHANGED <<doc, manifest, faults>>

StoppingGet(w) ==
    /\ At(w, "stopping", "get")
    /\ Goto(w, IF manifest.up THEN "scale" ELSE "conclude")
    /\ UNCHANGED <<doc, manifest, faults>>

\* Applying replicas 0 creates a manifest that is missing by now.
StoppingScale(w) ==
    /\ At(w, "stopping", "scale")
    /\ Apply(FALSE)
    /\ Goto(w, "relock")
    /\ UNCHANGED <<doc, faults>>

StoppingConclude(w) ==
    /\ At(w, "stopping", "conclude")
    /\ WriteIfPhase("Stopping", doc.state, "Stopped")
    /\ End(w)
    /\ UNCHANGED <<manifest, faults>>

StoppingRelock(w) == worker[w].job = "stopping" /\ Relock(w, "conclude")

-----------------------------------------------------------------------------
(* handleDeletingPhase *)

DeletingGet(w) ==
    /\ At(w, "deleting", "get")
    /\ Goto(w, IF manifest = Absent THEN "conclude" ELSE "delete")
    /\ UNCHANGED <<doc, manifest, faults>>

\* Mutant: the manifest is only scaled down.
DeletingScale(w) ==
    /\ At(w, "deleting", "delete")
    /\ Apply(FALSE)
    /\ Goto(w, "relock")
    /\ UNCHANGED <<doc, faults>>

\* deleteDeployManifest reads it again, and throws if it is gone; an error of this second
\* read is a Throw.
DeletingDelete(w) ==
    /\ At(w, "deleting", "delete")
    /\ IF manifest = Absent
         THEN End(w) /\ UNCHANGED manifest
         ELSE manifest' = [manifest EXCEPT !.is = "terminating"] /\ Goto(w, "relock")
    /\ UNCHANGED <<doc, faults>>

DeletingConclude(w) ==
    /\ At(w, "deleting", "conclude")
    /\ WriteIfPhase("Deleting", doc.state, "Deleted")
    /\ End(w)
    /\ UNCHANGED <<manifest, faults>>

DeletingRelock(w) == worker[w].job = "deleting" /\ Relock(w, "conclude")

-----------------------------------------------------------------------------
(* The handlers of the states: updateMany, whoever holds the lock *)

Move(state, from, phase) ==
    /\ doc.state = state
    /\ doc.phase \in from
    /\ doc' = [doc EXCEPT !.phase = phase, !.lock = Free]
    /\ UNCHANGED <<worker, manifest, faults>>

\* Nothing makes it match: remove() is the only one to write Deleted, and it writes the
\* phase as well.
HandleDeletedState == Move("Deleted", {"Started", "Stopped"}, "Deleting")
HandleStoppedState == Move("Stopped", {"Started"}, "Stopping")
HandleRunningState == Move("Running", {"Stopped"}, "Starting")

\* Mutant: a restart that has stopped the database leaves it there.
RestartingForgotten == Move("Restarting", {"Started"}, "Stopping")

HandleRestartingState ==
    \/ Move("Restarting", {"Started"}, "Stopping")
    \/ Move("Restarting", {"Stopped"}, "Starting")

\* deleteMany, in handleDeletedState and again in handleRestartingState.
Purge ==
    /\ doc.state = "Deleted" /\ doc.phase = "Deleted"
    /\ doc' = [doc EXCEPT !.phase = "None", !.lock = Free]
    /\ UNCHANGED <<worker, manifest, faults>>

-----------------------------------------------------------------------------
(* The application's handlers, the cluster, faults *)

UpdateState(state) ==
    /\ Exists
    /\ doc' = [doc EXCEPT !.state = state]
    /\ UNCHANGED <<worker, manifest, faults>>

\* DedicatedDatabaseService.remove: the phase changes under whoever holds the lock.
Remove ==
    /\ Exists
    /\ doc' = [doc EXCEPT !.state = "Deleted", !.phase = "Deleting"]
    /\ UNCHANGED <<worker, manifest, faults>>

Terminated ==
    /\ manifest.is = "terminating"
    /\ manifest' = Absent
    /\ UNCHANGED <<doc, worker, faults>>

Throw(w) ==
    /\ Live(w)
    /\ faults < MaxFaults
    /\ faults' = faults + 1
    /\ End(w)
    /\ UNCHANGED <<doc, manifest>>

\* Mutant: a handler that dies keeps the lock.
LockOutlivesHandler ==
    /\ doc.lock = Nobody
    /\ doc' = [doc EXCEPT !.lock = Free]
    /\ UNCHANGED <<worker, manifest, faults>>

LockExpires ==
    /\ doc.lock # Free
    /\ \/ SlowHandlers
       \/ doc.lock = Nobody
       \/ doc.lock \in Workers /\ ~Live(doc.lock)
    /\ doc' = [doc EXCEPT !.lock = Free]
    /\ UNCHANGED <<worker, manifest, faults>>

-----------------------------------------------------------------------------

Step(w) ==
    \/ StartingGet(w) \/ StartingApply(w) \/ StartingTimeout(w) \/ StartingUnavailable(w)
    \/ StartingAvailable(w) \/ StartingConclude(w) \/ StartingRelock(w)
    \/ StoppingGet(w) \/ StoppingScale(w) \/ StoppingConclude(w) \/ StoppingRelock(w)
    \/ DeletingGet(w) \/ DeletingDelete(w) \/ DeletingConclude(w) \/ DeletingRelock(w)
    \/ ApplyFails(w)

Tick == \/ HandleDeletedState \/ HandleStoppedState \/ HandleRunningState
        \/ HandleRestartingState \/ Purge

Act ==
    \/ \E w \in Workers : Step(w) \/ Throw(w)
    \/ Tick
    \/ \E s \in {"Running", "Stopped", "Restarting"} : UpdateState(s)
    \/ Remove
    \/ Terminated
    \/ LockExpires

\* Two handlers meet where one has relocked the document and is not done when the delay
\* is over, or outlasts its lock.
Next == /\ \/ Act /\ UNCHANGED misread
           \/ (\E w \in Workers, job \in Jobs : Claim(w, job)) /\ misread' = FALSE
           \/ (\E w \in Workers : ReadFails(w)) /\ misread' = TRUE
        /\ met' = (met \/ \E v, w \in Workers : v # w /\ Live(v)' /\ Live(w)')

Spec == Init /\ [][Next]_vars

(***************************************************************************)
(* Every replica ticks each second and handlers go on; an unavailable      *)
(* database is given up after five minutes at the latest, which is the     *)
(* strong fairness of the timeout.  The purge is only weakly fair: where   *)
(* Deleted is written after a tick's deleteMany and the application        *)
(* repeats remove() before the next one, the purge misses the phase, and   *)
(* nothing in the code keeps that from happening again.                    *)
(***************************************************************************)
Fairness ==
    /\ \A w \in Workers : WF_taskVars(Step(w)) /\ SF_taskVars(StartingTimeout(w))
    /\ \A job \in Jobs : WF_taskVars(\E w \in Workers : Claim(w, job))
    /\ WF_taskVars(HandleDeletedState) /\ WF_taskVars(HandleStoppedState)
    /\ WF_taskVars(HandleRunningState) /\ WF_taskVars(HandleRestartingState)
    /\ WF_taskVars(Purge) /\ WF_taskVars(Terminated) /\ WF_taskVars(LockExpires)
FairSpec == Spec /\ Fairness

-----------------------------------------------------------------------------
(* Properties *)

StepsOf == [none     |-> {"idle"},
            starting |-> {"get", "apply", "age", "relock", "conclude"},
            stopping |-> {"get", "scale", "relock", "conclude"},
            deleting |-> {"get", "delete", "relock", "conclude"}]
Steps == {"idle", "get", "apply", "age", "relock", "conclude", "scale", "delete"}

TypeOK ==
    /\ doc \in [state : DocStates, phase : DocPhases, lock : Workers \cup {Free, Nobody}]
    /\ worker \in [Workers -> [job : Jobs \cup {"none"}, at : Steps, toState : DocStates]]
    /\ \A w \in Workers : worker[w].at \in StepsOf[worker[w].job]
    /\ manifest \in [is : {"absent", "there", "terminating"}, up : BOOLEAN]
    /\ manifest.is = "absent" => manifest = Absent
    /\ faults \in 0..MaxFaults
    /\ met \in BOOLEAN
    /\ misread \in BOOLEAN

\* What the application's handlers rely on: its document makes no other moves than
\* those of the abstract life cycle, however handlers overlap.
Lifecycle == INSTANCE DedicatedDatabaseLifecycle
               WITH HasDedicatedDatabase <- TRUE,
                    ddb <- [state |-> doc.state, phase |-> doc.phase]
ImplementsLifecycle == Lifecycle!DdbSpec

\* As long as no two handlers have met, the phase agrees with the manifest, although what
\* is wanted changes while a handler runs, and remove() changes the phase under it.  A
\* read that fails may leave a database up behind phase Stopped, but none down behind
\* phase Started, and only until the next handler reads the manifest.
PhaseIsTrue ==
    ~met => /\ doc.phase = "Started" => manifest.up
            /\ doc.phase = "Stopped" => ~manifest.up \/ misread

\* No manifest outlives its document, whichever handler remove() overtakes, unless the
\* handler that wrote Deleted had failed to read the manifest or handlers have met.
NoOrphan == ~met /\ ~Exists => manifest.is # "there" \/ misread

\* A wanted deletion that is not taken back brings the document to phase Deleted, again
\* and again if the application's remove() keeps taking it back from there, and once it
\* does not, to its end; the manifest goes with it, unless its read fails.  Handlers that
\* meet are left out: a stop that meets the deletion may create the manifest anew.
DeleteIsServed ==
    <>[](doc.state = "Deleted") =>
      \/ <>met
      \/ <>[](~Exists /\ (manifest = Absent \/ misread))
      \/ []<>(doc.phase = "Deleted" /\ (manifest = Absent \/ misread))

\* A wanted restart ends, started again or given up, unless the database is removed.
RestartIsServed ==
    [](doc.state = "Restarting" =>
         <>(doc.state # "Restarting" \/ doc.phase \in {"Deleting", "Deleted"}))
=============================================================================
