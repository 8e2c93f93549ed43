----------------------------- MODULE Application -----------------------------
(***************************************************************************)
(* The life of one application: its document, the API, the two task        *)
(* services that reconcile it, and what they manage, composed.  Several    *)
(* applications do not interact: every query is by appid or updates        *)
(* documents independently of each other.                                  *)
(***************************************************************************)
EXTENDS ApplicationTask

vars == <<docVars, instanceVars, childVars>>

Init == DocInit /\ InstanceInit /\ ChildInit

Step(w)   == (InstanceStep(w) /\ UNCHANGED childVars) \/ ApplicationStep(w)
Claims(w) == (InstanceClaims(w) /\ UNCHANGED childVars) \/ ApplicationClaims(w)
Tick      == (InstanceTick /\ UNCHANGED childVars) \/ ApplicationTick
Others    == \/ \E k \in Kinds : ChildCreated(k) \/ ChildRemoved(k)
             \/ \E k \in UserKinds : AdmitCreate(k) \/ ServeCreate(k)
             \/ NamespaceTerminated
             \/ DedicatedDatabaseTask

Next == \/ \E w \in Workers : Step(w) \/ Claims(w)
        \/ \E w \in Workers : Throw(w) /\ UNCHANGED <<instanceVars, childVars>>
        \/ Tick
        \/ LockExpires /\ UNCHANGED <<instanceVars, childVars>>
        \/ ApiNext /\ UNCHANGED <<instanceVars, childVars>>
        \/ Others

Spec == Init /\ [][Next]_vars

\* Kinds whose removal may never end (RemovedInTheEnd of ManagedResource): the deletion
\* of the application takes phase Deleted back from the first two each time it looks, and
\* the user of the object store cannot be deleted once it is gone.
Hindered == {"RuntimeDomain", "WebsiteHosting", "StorageUser"}

(***************************************************************************)
(* The cron tick starts every handler each second, a handler goes on once  *)
(* its await returns, locks time out, and the other tasks and the cluster  *)
(* do their part, except for the removals that may never end.  updatedAt   *)
(* is not renewed while a handler relocks the document, so that five       *)
(* minutes pass: StartClaimLate is strongly fair.  Nobody has to send      *)
(* requests, and no instance has to become available.                      *)
(***************************************************************************)
Fairness ==
    /\ \A w \in Workers : WF_vars(Step(w))
    /\ WF_vars(\E w \in Workers : StartClaim(w) /\ UNCHANGED childVars)
    /\ SF_vars(\E w \in Workers : StartClaimLate(w) /\ UNCHANGED childVars)
    /\ WF_vars(\E w \in Workers : StopClaim(w) /\ UNCHANGED childVars)
    /\ WF_vars(\E w \in Workers : RestartClaim(w) /\ UNCHANGED childVars)
    /\ WF_vars(\E w \in Workers : CreatingClaim(w))
    /\ WF_vars(\E w \in Workers : DeletingClaim(w))
    /\ WF_vars(InstanceTick /\ UNCHANGED childVars)
    /\ WF_vars(ApplicationTick)
    /\ WF_vars(LockExpires /\ UNCHANGED <<instanceVars, childVars>>)
    /\ WF_vars(NamespaceTerminated)
    /\ \A k \in Kinds : WF_vars(ChildCreated(k))
    /\ \A k \in Kinds \ Hindered : WF_vars(ChildRemoved(k))
    /\ WF_vars(DedicatedDatabaseTask)

FairSpec == Spec /\ Fairness

-----------------------------------------------------------------------------
(* The steps a handler goes through *)

CreatingSteps == {"namespace", "createNamespace", "find", "insert", "conclude", "unlock"}
DeletingSteps == {"look", "removeNamespace", "conclude", "unlock"}
StartingSteps == {"timeout", "ddb", "ddbRun", "get", "deployment", "service",
                  "check", "activate", "conclude", "relock"}
StoppingSteps == {"inactivate", "ddb", "ddbStop", "get", "remove",
                  "removeDeployment", "removeService", "conclude", "relock"}
RestartingSteps == {"ddbRestart", "get", "replace", "getAgain", "deployment",
                    "service", "conclude"}
StepsOf == [none |-> {"idle"}, creating |-> CreatingSteps, deleting |-> DeletingSteps,
            starting |-> StartingSteps, stopping |-> StoppingSteps,
            restarting |-> RestartingSteps]
Steps == {"idle"} \cup CreatingSteps \cup DeletingSteps \cup StartingSteps
           \cup StoppingSteps \cup RestartingSteps

WorkerType == [job : Jobs \cup {"none"}, at : Steps, toState : States,
               i : Nat, saw : SUBSET (Objects \cup Kinds)]

\* How far a handler has come in the sequence it walks through.
WorkerOK(r) ==
    /\ r \in WorkerType
    /\ r.at \in StepsOf[r.job]
    /\ r.at = "namespace" => r.i = 0
    /\ r.job = "starting" /\ r.at \notin {"activate", "conclude"} => r.i = 0
    /\ r.at \in {"activate", "inactivate"} => r.i < Len(Entries)
    /\ r.at = "find" => r.i <= Len(CreateOrder)
    /\ r.at = "insert" => r.i < Len(CreateOrder)
    /\ r.at = "look" => r.i <= Len(DeleteOrder)

TypeOK ==
    /\ app \in [state : States, phase : Phases, lock : Workers \cup {Free, Nobody}]
    /\ worker \in [Workers -> WorkerType]
    /\ \A w \in Workers : WorkerOK(worker[w])
    /\ request \in [Requests -> States \cup {"none"}]
    /\ faults \in 0..MaxFaults
    /\ namespace \in {"absent", "Active", "Terminating"}
    /\ instance \subseteq Objects
    /\ active \subseteq EntryKinds /\ fresh \subseteq EntryKinds
    /\ ddb \in [state : DdbStates, phase : DdbPhases]
    /\ child \in [Kinds -> {"absent", "Creating", "Created", "Deleting"}]
    /\ twice \subseteq Kinds
    /\ creating \subseteq UserKinds /\ late \subseteq UserKinds

-----------------------------------------------------------------------------
(* Safety *)

\* A live handler whose phase the document is still in.
Acting(w) == Live(w) /\ app.phase \in JobPhases[worker[w].job]

\* As long as handlers end before their lock times out, a phase has one handler
\* at a time, however many server replicas tick: the claims, the ticks that do
\* not look at the lock, unlock() and relock() never let a second one in.
HandlerExclusion ==
    ~SlowHandlers => \A v, w \in Workers : Acting(v) /\ Acting(w) => v = w

\* Why that is so: a handler that is still working holds the lock, and the phase is
\* still the one it claimed.  The one exception is a restart whose application was
\* deleted under it, by the tick that does not look at the lock.
LockIsHeld ==
    ~SlowHandlers => \A w \in Workers : Live(w) =>
        \/ app.lock = w /\ Acting(w)
        \/ worker[w].job = "restarting" /\ app.phase \in {"Deleting", "Deleted", "Removed"}

\* A stopped application has no deployment, no service, and no domain, website or trigger
\* that still routes to it, unless a restart is under way; a website, domain or trigger
\* that the owner adds to it is Active all the same.
StoppedIsDown ==
    /\ app.phase = "Stopped"
    /\ \A w \in Workers : Acting(w) => worker[w].job # "restarting"
    => instance = {} /\ active \subseteq fresh

\* What the API reports as running and started can be reached.
RunningIsServed ==
    app.state = "Running" /\ app.phase = "Started" =>
        namespace = "Active" /\ instance = Objects /\ active = EntryKinds

\* From Created on, until it is deleted, an application has all it was promised,
\* and each of it once.
CreatedIsComplete ==
    app.phase \in {"Created", "Starting", "Started", "Stopping", "Stopped"} =>
        /\ namespace = "Active"
        /\ child["StorageUser"] = "Created"
        /\ child["RuntimeDomain"] = "Created"
        /\ DdbExists \/ child["Database"] = "Created"
        /\ twice = {}

\* When the application is deleted, nothing it owned when the deletion began is left
\* behind.  What a request adds later the handlers remove only if they still look.
DeletedLeavesNothing ==
    app.phase \in {"Deleted", "Removed"} =>
        /\ \A k \in Kinds \ late : child[k] = "absent"
        /\ ~DdbExists
        /\ instance = {}

\* The phases follow the life cycle the task services document, even when
\* handlers outlive their locks.
LifeCycle ==
    {<<"Creating", "Created">>, <<"Created", "Starting">>, <<"Starting", "Started">>,
     <<"Started", "Stopping">>, <<"Stopping", "Stopped">>, <<"Stopped", "Starting">>,
     <<"Started", "Starting">>, <<"Created", "Deleting">>, <<"Started", "Deleting">>,
     <<"Stopped", "Deleting">>, <<"Deleting", "Deleted">>, <<"Deleted", "Removed">>}
PhaseFollowsLifeCycle ==
    [][app'.phase # app.phase => <<app.phase, app'.phase>> \in LifeCycle]_vars

-----------------------------------------------------------------------------
(* Liveness *)

\* A document the deletion waits for is never removed, or its dedicated database is
\* marked again each time it is about to be.
RemovalHindered ==
    \/ \E k \in Hindered : <>[](child[k] = "Deleting")
    \/ []<>(ddb.phase = "Deleting")

\* An owner who wants the application stopped, and keeps wanting it, gets it
\* stopped (it never starts if it was only Created), whatever handler dies on the
\* way; unless a deletion was already under way, which then runs to its end, if its
\* removals do.
StopIsServed ==
    <>[](app.state = "Stopped") =>
        <>[](app.phase \in {"Created", "Stopped", "Deleted"}) \/ RemovalHindered

\* An application whose deletion is wanted and never taken back disappears, if the
\* removals it waits for end.
DeleteIsServed ==
    <>[](app.state = "Deleted") => <>(app.phase = "Removed") \/ RemovalHindered

-----------------------------------------------------------------------------
(* What comments of the code say, and the code does not keep *)

\* instance-task "State Restarting: move phase Started to Starting", and the check
\* "only running application can restart": a wanted restart is taken up.
RestartIsServed ==
    [](app.state = "Restarting" => <>(app.state # "Restarting"))

\* instance-task "if state is Restarting, update state to Running": the end of a
\* start changes no other state.
StartKeepsState ==
    [][(\E w \in Workers : StartConclude(w)) =>
         app'.state = IF app.state = "Restarting" THEN "Running" ELSE app.state]_vars
=============================================================================
