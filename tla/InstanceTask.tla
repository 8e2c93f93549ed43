---------------------------- MODULE InstanceTask ----------------------------
(***************************************************************************)
(* InstanceTaskService and InstanceService: the handlers that start, stop  *)
(* and restart the runtime instance of an application, the Kubernetes      *)
(* objects they manage, and the documents (domains, websites, triggers)    *)
(* they switch between Active and Inactive.  One action per await.         *)
(***************************************************************************)
EXTENDS ApplicationDoc, DedicatedDatabaseLifecycle

CONSTANT StartTimesOut  \* can an instance stay unavailable for five minutes?

ASSUME TimeoutAssumption == StartTimesOut \in BOOLEAN

Objects == {"deployment", "service"}

\* The collections whose documents are switched, in the order of the code.
Entries == <<"RuntimeDomain", "WebsiteHosting", "BucketDomain", "CronTrigger">>
EntryKinds == {"RuntimeDomain", "WebsiteHosting", "BucketDomain", "CronTrigger"}

VARIABLES
    namespace,  \* the application's namespace: "absent", "Active", "Terminating"
    instance,   \* which of Objects exist in it
    active,     \* the Entries whose documents are Active
    fresh       \* history: the Entries of which the API inserted a document since a stop
                \* made theirs Inactive

entryVars == <<active, fresh>>
instanceVars == <<namespace, instance, entryVars, ddb>>

\* A domain or trigger is inserted Active.  A shared (Fixed mode) namespace exists.
InstanceInit ==
    /\ namespace \in {"absent", "Active"}
    /\ instance = {}
    /\ active = EntryKinds /\ fresh = {}
    /\ DdbInit

-----------------------------------------------------------------------------
(* instanceService.get: what the cluster shows *)

Seen == IF namespace = "absent" THEN {} ELSE instance

Look(w, step) == worker' = [worker EXCEPT ![w].at = step, ![w].saw = Seen]

\* createNamespacedDeployment / -Service: AlreadyExists, a missing or a
\* terminating namespace throws, and the handler ends where it is.
CreateObject(w, object, step) ==
    IF object \in worker[w].saw
      THEN Goto(w, step) /\ UNCHANGED instance
      ELSE IF object \notin instance /\ namespace = "Active"
             THEN instance' = instance \cup {object} /\ Goto(w, step)
             ELSE End(w) /\ UNCHANGED instance

\* deleteNamespacedDeployment / -Service: NotFound throws.
DeleteObject(w, object, step) ==
    IF object \notin worker[w].saw
      THEN Goto(w, step) /\ UNCHANGED instance
      ELSE IF object \in instance
             THEN instance' = instance \ {object} /\ Goto(w, step)
             ELSE End(w) /\ UNCHANGED instance

\* Mutant: the loop ends one collection early.
NextEntryShort(w, step) ==
    worker' = [worker EXCEPT ![w].i  = @ + 1,
                             ![w].at = IF worker[w].i + 2 = Len(Entries) THEN step ELSE @]

\* The loop over Entries: on to the next collection, or past the last one.
NextEntry(w, step) ==
    worker' = [worker EXCEPT ![w].i  = @ + 1,
                             ![w].at = IF worker[w].i + 1 = Len(Entries) THEN step ELSE @]

-----------------------------------------------------------------------------
(* The two handlers that update whatever matches, without a handler execution *)

HandleRunningState ==
    /\ app.state = "Running"
    /\ app.phase \in {"Created", "Stopped"}
    /\ app.lock = Free
    /\ app' = [app EXCEPT !.phase = "Starting"]
    /\ UNCHANGED <<worker, request, faults, instanceVars>>

HandleStoppedState ==
    /\ app.state = "Stopped"
    /\ app.phase = "Started"
    /\ app.lock = Free
    /\ app' = [app EXCEPT !.phase = "Stopping"]
    /\ UNCHANGED <<worker, request, faults, instanceVars>>

-----------------------------------------------------------------------------
(* handleStartingPhase *)

StartClaim(w) ==
    /\ Claim(w, "starting", "ddb")
    /\ UNCHANGED <<request, faults, instanceVars>>

\* app.updatedAt is more than five minutes old.
StartClaimLate(w) ==
    /\ StartTimesOut
    /\ Claim(w, "starting", "timeout")
    /\ UNCHANGED <<request, faults, instanceVars>>

\* "stop the application": whatever state and instance it has by now.
StartTimeout(w) ==
    /\ At(w, "starting", "timeout")
    /\ WriteIfPhase({"Starting"}, "Stopped", "Started")
    /\ End(w)
    /\ UNCHANGED <<request, faults, instanceVars>>

StartReadDdb(w) ==
    /\ At(w, "starting", "ddb")
    /\ Goto(w, IF ~DdbExists THEN "get"
               ELSE IF ddb.state = "Stopped" THEN "ddbRun"
               ELSE IF ddb.phase # "Started" THEN "relock"
               ELSE "get")
    /\ UNCHANGED <<app, request, faults, instanceVars>>

StartDdbRun(w) ==
    /\ At(w, "starting", "ddbRun")
    /\ DdbUpdateState("Running")
    /\ Goto(w, "relock")
    /\ UNCHANGED <<app, request, faults, namespace, instance, entryVars>>

\* instanceService.create, also called by restart.
CreateGet(w) ==
    /\ At(w, "starting", "get") \/ At(w, "restarting", "getAgain")
    /\ Look(w, "deployment")
    /\ UNCHANGED <<app, request, faults, instanceVars>>

CreateDeployment(w) ==
    /\ At(w, "starting", "deployment") \/ At(w, "restarting", "deployment")
    /\ CreateObject(w, "deployment", "service")
    /\ UNCHANGED <<app, request, faults, namespace, entryVars, ddb>>

\* Mutant: restart goes on as if it were starting.
CreateServiceThenCheck(w) ==
    /\ At(w, "starting", "service") \/ At(w, "restarting", "service")
    /\ CreateObject(w, "service", "check")
    /\ UNCHANGED <<app, request, faults, namespace, entryVars, ddb>>

\* The autoscaler beside the service, which follows it here and in the removal, is left out:
\* nothing else looks at it.
CreateService(w) ==
    /\ At(w, "starting", "service") \/ At(w, "restarting", "service")
    /\ CreateObject(w, "service",
                    IF worker[w].job = "starting" THEN "check" ELSE "conclude")
    /\ UNCHANGED <<app, request, faults, namespace, entryVars, ddb>>

\* Mutant: nothing is activated again.
StartAvailableUnrouted(w) ==
    /\ At(w, "starting", "check")
    /\ Seen = Objects
    /\ worker' = [worker EXCEPT ![w].at = "conclude", ![w].saw = {}]
    /\ UNCHANGED <<app, request, faults, instanceVars>>

\* Whether the deployment is available is up to the cluster.
StartAvailable(w) ==
    /\ At(w, "starting", "check")
    /\ Seen = Objects
    /\ worker' = [worker EXCEPT ![w].at = "activate", ![w].saw = {}]
    /\ UNCHANGED <<app, request, faults, instanceVars>>

StartUnavailable(w) ==
    /\ At(w, "starting", "check")
    /\ Goto(w, "relock")
    /\ UNCHANGED <<app, request, faults, instanceVars>>

\* updateMany({appid, state: Inactive}, {state: Active}), one collection at a time.
StartActivate(w) ==
    /\ At(w, "starting", "activate")
    /\ active' = active \cup {Entries[worker[w].i + 1]}
    /\ NextEntry(w, "conclude")
    /\ UNCHANGED <<app, request, faults, namespace, instance, fresh, ddb>>

\* toState is the state read when the document was claimed.
StartConclude(w) ==
    /\ At(w, "starting", "conclude")
    /\ WriteIfPhase({"Starting"},
                    IF worker[w].toState = "Restarting" THEN "Running"
                                                        ELSE worker[w].toState,
                    "Started")
    /\ End(w)
    /\ UNCHANGED <<request, faults, instanceVars>>

-----------------------------------------------------------------------------
(* handleStoppingPhase *)

StopClaim(w) ==
    /\ Claim(w, "stopping", "inactivate")
    /\ UNCHANGED <<request, faults, instanceVars>>

StopInactivate(w) ==
    /\ At(w, "stopping", "inactivate")
    /\ active' = active \ {Entries[worker[w].i + 1]}
    /\ fresh' = fresh \ {Entries[worker[w].i + 1]}
    /\ NextEntry(w, "ddb")
    /\ UNCHANGED <<app, request, faults, namespace, instance, ddb>>

StopReadDdb(w) ==
    /\ At(w, "stopping", "ddb")
    /\ Goto(w, IF DdbExists /\ ddb.state # "Stopped" THEN "ddbStop" ELSE "get")
    /\ UNCHANGED <<app, request, faults, instanceVars>>

StopDdbStop(w) ==
    /\ At(w, "stopping", "ddbStop")
    /\ DdbUpdateState("Stopped")
    /\ Goto(w, "relock")
    /\ UNCHANGED <<app, request, faults, namespace, instance, entryVars>>

StopGet(w) ==
    /\ At(w, "stopping", "get")
    /\ Goto(w, IF Seen = {} THEN "conclude" ELSE "remove")
    /\ UNCHANGED <<app, request, faults, instanceVars>>

\* instanceService.remove, then relock: the next claim checks the outcome.
StopRemove(w) ==
    /\ At(w, "stopping", "remove")
    /\ Look(w, "removeDeployment")
    /\ UNCHANGED <<app, request, faults, instanceVars>>

StopRemoveDeployment(w) ==
    /\ At(w, "stopping", "removeDeployment")
    /\ DeleteObject(w, "deployment", "removeService")
    /\ UNCHANGED <<app, request, faults, namespace, entryVars, ddb>>

StopRemoveService(w) ==
    /\ At(w, "stopping", "removeService")
    /\ DeleteObject(w, "service", "relock")
    /\ UNCHANGED <<app, request, faults, namespace, entryVars, ddb>>

StopConclude(w) ==
    /\ At(w, "stopping", "conclude")
    /\ WriteIfPhase({"Stopping"}, app.state, "Stopped")
    /\ End(w)
    /\ UNCHANGED <<request, faults, instanceVars>>

-----------------------------------------------------------------------------
(* handleRestartingState *)

RestartClaim(w) ==
    /\ app.state = "Restarting"
    /\ Claim(w, "restarting", "ddbRestart")
    /\ UNCHANGED <<request, faults, instanceVars>>

RestartDdb(w) ==
    /\ At(w, "restarting", "ddbRestart")
    /\ DdbUpdateState("Restarting")
    /\ Goto(w, "get")
    /\ UNCHANGED <<app, request, faults, namespace, instance, entryVars>>

\* instanceService.restart: replace both objects, or create what is missing.
RestartGet(w) ==
    /\ At(w, "restarting", "get")
    /\ Look(w, IF Seen = Objects THEN "replace" ELSE "getAgain")
    /\ UNCHANGED <<app, request, faults, instanceVars>>

\* replaceNamespacedDeployment and -Service: NotFound throws.
RestartReplace(w) ==
    /\ At(w, "restarting", "replace")
    /\ IF Seen = Objects THEN Goto(w, "conclude") ELSE End(w)
    /\ UNCHANGED <<app, request, faults, instanceVars>>

RestartConclude(w) ==
    /\ At(w, "restarting", "conclude")
    /\ WriteIfPhase({"Started", "Stopped"}, app.state, "Starting")
    /\ End(w)
    /\ UNCHANGED <<request, faults, instanceVars>>

-----------------------------------------------------------------------------

InstanceRelock(w) == Relock(w) /\ UNCHANGED <<request, faults, instanceVars>>

InstanceClaims(w) == StartClaim(w) \/ StartClaimLate(w) \/ StopClaim(w) \/ RestartClaim(w)

InstanceStep(w) ==
    \/ StartTimeout(w) \/ StartReadDdb(w) \/ StartDdbRun(w)
    \/ CreateGet(w) \/ CreateDeployment(w) \/ CreateService(w)
    \/ StartAvailable(w) \/ StartUnavailable(w) \/ StartActivate(w) \/ StartConclude(w)
    \/ StopInactivate(w) \/ StopReadDdb(w) \/ StopDdbStop(w) \/ StopGet(w)
    \/ StopRemove(w) \/ StopRemoveDeployment(w) \/ StopRemoveService(w)
    \/ StopConclude(w)
    \/ RestartDdb(w) \/ RestartGet(w) \/ RestartReplace(w) \/ RestartConclude(w)
    \/ InstanceRelock(w)

InstanceTick == HandleRunningState \/ HandleStoppedState
=============================================================================
