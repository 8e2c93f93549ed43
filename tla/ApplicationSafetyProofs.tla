----------------------- MODULE ApplicationSafetyProofs -----------------------
(***************************************************************************)
(* What the phase of an application says about its cluster objects and its *)
(* documents, for any number of handler executions and API requests, as    *)
(* long as no handler outlives its lock.  Each theorem has an invariant    *)
(* that says what a handler has already done at each of its steps; that    *)
(* nobody undoes it while the handler goes on is the work of the lock      *)
(* (LockKept).                                                             *)
(***************************************************************************)
EXTENDS ApplicationProofs

Ending == {"Deleting", "Deleted", "Removed"}

\* What the exclusion of handlers is for: two of them can only be at work if one is a
\* restart whose application was deleted under it.
LEMMA Alone ==
    ASSUME LockIsHeld, ~SlowHandlers, NEW w \in Workers, Live(w)
    PROVE  /\ app.phase \notin Ending =>
                /\ app.lock = w /\ app.phase \in JobPhases[worker[w].job]
                /\ \A v \in Workers \ {w} : ~Live(v)
           /\ worker[w].job # "restarting" =>
                app.lock = w /\ app.phase \in JobPhases[worker[w].job]
BY DEF LockIsHeld, Acting, Live, Ending

LEMMA JobsPhases ==
    /\ JobPhases["creating"] = {"Creating"} /\ JobPhases["deleting"] = {"Deleting"}
    /\ JobPhases["starting"] = {"Starting"} /\ JobPhases["stopping"] = {"Stopping"}
    /\ JobPhases["restarting"] = {"Started", "Stopped"}
BY DEF JobPhases

\* The end of an application is never left again.
LEMMA EndingStays ==
    ASSUME DocType, [Next]_vars, app'.phase \notin Ending
    PROVE  app.phase \notin Ending
<1>1. CASE app'.phase = app.phase  BY <1>1
<1>2. CASE app'.phase # app.phase
  <2>1. Next  BY <1>2 DEF vars, docVars
  <2>2. <<app.phase, app'.phase>> \in LifeCycle  BY <1>2, <2>1, NextCycle
  <2> QED  BY <2>2 DEF LifeCycle, Ending
<1> QED  BY <1>1, <1>2

-----------------------------------------------------------------------------
(* What the steps do to the world *)

\* The instance task writes no document of another collection; only a start or a restart
\* adds to the instance, into a namespace that is there, and only a stop takes from it.
InstanceWrites(w) ==
    /\ Moves(w)
    /\ worker[w].job \in {"starting", "stopping", "restarting"}
    /\ namespace' = namespace
    /\ ddb' = ddb \/ \E s \in DdbStates \ {"Deleted"} : DdbUpdateState(s)
    /\ worker[w].job # "stopping" => /\ instance \subseteq instance'
                                     /\ active \subseteq active' /\ fresh' = fresh
    /\ instance' \subseteq instance \/ namespace = "Active"
    /\ worker[w].job # "starting" => active' \subseteq active

LEMMA InstanceEffect ==
    ASSUME DocType, NEW w \in Workers, InstanceStep(w)
    PROVE  InstanceWrites(w)
<1> USE DEF InstanceWrites, Moves, DocType, WorkerType, At, Goto, End, Idle, Look, NextEntry,
            CreateObject, DeleteObject, instanceVars, entryVars
<1>1. ASSUME StartTimeout(w) \/ StartConclude(w) PROVE InstanceWrites(w)
  BY <1>1 DEF StartTimeout, StartConclude
<1>2. ASSUME StartReadDdb(w) PROVE InstanceWrites(w)
  BY <1>2 DEF StartReadDdb
<1>3. ASSUME StartDdbRun(w) PROVE InstanceWrites(w)
  BY <1>3 DEF StartDdbRun, DdbStates
<1>4. ASSUME CreateGet(w) PROVE InstanceWrites(w)
  BY <1>4 DEF CreateGet
<1>5. ASSUME CreateDeployment(w) PROVE InstanceWrites(w)
  BY <1>5 DEF CreateDeployment
<1>6. ASSUME CreateService(w) PROVE InstanceWrites(w)
  BY <1>6 DEF CreateService
<1>7. ASSUME StartAvailable(w) \/ StartUnavailable(w) PROVE InstanceWrites(w)
  BY <1>7 DEF StartAvailable, StartUnavailable
<1>8. ASSUME StartActivate(w) PROVE InstanceWrites(w)
  BY <1>8 DEF StartActivate
<1>9. ASSUME StopInactivate(w) PROVE InstanceWrites(w)
  BY <1>9 DEF StopInactivate
<1>10. ASSUME StopReadDdb(w) \/ StopGet(w) \/ StopRemove(w) PROVE InstanceWrites(w)
  BY <1>10 DEF StopReadDdb, StopGet, StopRemove
<1>11. ASSUME StopDdbStop(w) PROVE InstanceWrites(w)
  BY <1>11 DEF StopDdbStop, DdbStates
<1>12. ASSUME StopRemoveDeployment(w) \/ StopRemoveService(w) PROVE InstanceWrites(w)
  BY <1>12 DEF StopRemoveDeployment, StopRemoveService
<1>13. ASSUME StopConclude(w) \/ RestartConclude(w) PROVE InstanceWrites(w)
  BY <1>13 DEF StopConclude, RestartConclude
<1>14. ASSUME RestartDdb(w) PROVE InstanceWrites(w)
  BY <1>14 DEF RestartDdb, DdbStates
<1>15. ASSUME RestartGet(w) \/ RestartReplace(w) PROVE InstanceWrites(w)
  BY <1>15 DEF RestartGet, RestartReplace
<1>16. ASSUME InstanceRelock(w) PROVE InstanceWrites(w)
  BY <1>16, JobsOfSteps DEF InstanceRelock, Relock
<1> QED BY <1>1, <1>2, <1>3, <1>4, <1>5, <1>6, <1>7, <1>8, <1>9, <1>10, <1>11, <1>12,
           <1>13, <1>14, <1>15, <1>16 DEF InstanceStep

\* The application task leaves the instance alone.  A creation writes no document but those
\* it inserts; a deletion makes no document and no namespace.
ApplicationWrites(w) ==
    /\ Moves(w)
    /\ worker[w].job \in {"creating", "deleting"}
    /\ UNCHANGED <<instance, entryVars, creating, late>>
    /\ worker[w].job = "creating" => ddb' = ddb
    /\ worker[w].job = "deleting" =>
         /\ twice' = twice
         /\ namespace = "absent" => namespace' = "absent"
         /\ \A k \in Kinds : child[k] = "absent" => child'[k] = "absent"
         /\ ~DdbExists => ddb' = ddb

LEMMA ApplicationEffect ==
    ASSUME DocType, NEW w \in Workers, ApplicationStep(w)
    PROVE  ApplicationWrites(w)
<1> USE DEF ApplicationWrites, Moves, DocType, WorkerType, At, Goto, End, Idle, instanceVars,
            entryVars, childVars
<1>1. ASSUME CreatingReadNamespace(w) \/ CreatingNamespace(w) PROVE ApplicationWrites(w)
  BY <1>1 DEF CreatingReadNamespace, CreatingNamespace
<1>2. ASSUME CreatingSkip(w) \/ CreatingFind(w) \/ CreatingMissing(w) PROVE ApplicationWrites(w)
  BY <1>2 DEF CreatingSkip, CreatingFind, CreatingMissing, Finding
<1>3. ASSUME CreatingInsert(w) PROVE ApplicationWrites(w)
  BY <1>3 DEF CreatingInsert
<1>4. ASSUME CreatingWait(w) \/ CreatingConclude(w) PROVE ApplicationWrites(w)
  BY <1>4 DEF CreatingWait, CreatingConclude
<1>5. ASSUME DeletingSkip(w) PROVE ApplicationWrites(w)
  BY <1>5 DEF DeletingSkip
<1>6. ASSUME DeletingRemove(w) PROVE ApplicationWrites(w)
  <2> HIDE DEF Kinds
  <2> QED BY <1>6 DEF DeletingRemove
<1>7. ASSUME DeletingRemoveDdb(w) PROVE ApplicationWrites(w)
  BY <1>7 DEF DeletingRemoveDdb, Present
<1>8. ASSUME DeletingReadNamespace(w) \/ DeletingNamespace(w) \/ DeletingConclude(w)
      PROVE ApplicationWrites(w)
  BY <1>8 DEF DeletingReadNamespace, DeletingNamespace, DeletingConclude
<1>9. ASSUME Unlock(w), UNCHANGED <<instanceVars, childVars>> PROVE ApplicationWrites(w)
  BY <1>9, JobsOfSteps DEF Unlock
<1> QED BY <1>1, <1>2, <1>3, <1>4, <1>5, <1>6, <1>7, <1>8, <1>9 DEF ApplicationStep

\* A claim starts a handler at the first step of its job and changes nothing else.
FirstStep == [creating |-> "namespace", deleting |-> "look", starting |-> "ddb",
              stopping |-> "inactivate", restarting |-> "ddbRestart"]
Claimed(w) ==
    /\ app'.phase = app.phase /\ app.lock = Free
    /\ \A v \in Workers \ {w} : worker'[v] = worker[v]
    /\ worker'[w].job \in Jobs /\ app.phase \in JobPhases[worker'[w].job]
    /\ worker'[w].i = 0 /\ worker'[w].saw = {}
    /\ \/ worker'[w].at = FirstStep[worker'[w].job]
       \/ StartTimesOut /\ worker'[w].job = "starting" /\ worker'[w].at = "timeout"

LEMMA ClaimsEffect ==
    ASSUME DocType, NEW w \in Workers, Claims(w)
    PROVE  Claimed(w) /\ UNCHANGED <<instanceVars, childVars>>
<1> DEFINE Starts(job, first) ==
      /\ app'.phase = app.phase /\ app.lock = Free /\ app.phase \in JobPhases[job]
      /\ \A v \in Workers \ {w} : worker'[v] = worker[v]
      /\ worker'[w].job = job /\ worker'[w].at = first
      /\ worker'[w].i = 0 /\ worker'[w].saw = {}
<1>1. ASSUME NEW job \in Jobs, NEW first \in Steps, Claim(w, job, first)
      PROVE  Starts(job, first)
  BY <1>1 DEF Claim, DocType, AppType, Idle
<1>2. ASSUME NEW job \in Jobs, NEW first \in Steps, Starts(job, first),
             \/ first = FirstStep[job]
             \/ StartTimesOut /\ job = "starting" /\ first = "timeout"
      PROVE  Claimed(w)
  BY <1>2 DEF Claimed
<1> USE DEF Jobs, Steps, CreatingSteps, DeletingSteps, StartingSteps, StoppingSteps,
            RestartingSteps
<1>3. CASE StartClaim(w) /\ UNCHANGED childVars
  <2>1. Claim(w, "starting", "ddb") /\ UNCHANGED <<instanceVars, childVars>>
    BY <1>3 DEF StartClaim
  <2>2. Starts("starting", "ddb")
    BY <1>1, <2>1
  <2> QED BY <1>2, <2>1, <2>2 DEF FirstStep
<1>4. CASE StopClaim(w) /\ UNCHANGED childVars
  <2>1. Claim(w, "stopping", "inactivate") /\ UNCHANGED <<instanceVars, childVars>>
    BY <1>4 DEF StopClaim
  <2>2. Starts("stopping", "inactivate")
    BY <1>1, <2>1
  <2> QED BY <1>2, <2>1, <2>2 DEF FirstStep
<1>5. CASE RestartClaim(w) /\ UNCHANGED childVars
  <2>1. Claim(w, "restarting", "ddbRestart") /\ UNCHANGED <<instanceVars, childVars>>
    BY <1>5 DEF RestartClaim
  <2>2. Starts("restarting", "ddbRestart")
    BY <1>1, <2>1
  <2> QED BY <1>2, <2>1, <2>2 DEF FirstStep
<1>6. CASE CreatingClaim(w)
  <2>1. Claim(w, "creating", "namespace") /\ UNCHANGED <<instanceVars, childVars>>
    BY <1>6 DEF CreatingClaim
  <2>2. Starts("creating", "namespace")
    BY <1>1, <2>1
  <2> QED BY <1>2, <2>1, <2>2 DEF FirstStep
<1>7. CASE DeletingClaim(w)
  <2>1. Claim(w, "deleting", "look") /\ UNCHANGED <<instanceVars, childVars>>
    BY <1>7 DEF DeletingClaim
  <2>2. Starts("deleting", "look")
    BY <1>1, <2>1
  <2> QED BY <1>2, <2>1, <2>2 DEF FirstStep
<1>8. CASE StartClaimLate(w) /\ UNCHANGED childVars
  <2>1. Claim(w, "starting", "timeout") /\ UNCHANGED <<instanceVars, childVars>>
    BY <1>8 DEF StartClaimLate
  <2>2. Starts("starting", "timeout")
    BY <1>1, <2>1
  <2> QED BY <1>2, <2>1, <2>2, <1>8 DEF StartClaimLate
<1> QED BY <1>3, <1>4, <1>5, <1>6, <1>7, <1>8 DEF Claims, InstanceClaims, ApplicationClaims

\* Nobody works on a document that can be claimed, but restarts of deleted applications.
LEMMA FreeIsIdle ==
    ASSUME LockIsHeld, ~SlowHandlers, app.lock = Free, app.phase \notin Ending
    PROVE  \A w \in Workers : ~Live(w)
BY LockAssumption DEF LockIsHeld, Acting, Live, Ending

\* Ticks, timeouts of locks and the API leave handlers and world alone.
LEMMA QuietEffect ==
    ASSUME DocType,
           \/ Tick
           \/ LockExpires /\ UNCHANGED <<instanceVars, childVars>>
           \/ ApiNext /\ UNCHANGED <<instanceVars, childVars>>
           \/ UNCHANGED vars
    PROVE  /\ worker' = worker /\ UNCHANGED <<instanceVars, childVars>>
           /\ \/ app'.phase = app.phase
              \/ app.phase \in {"Created", "Stopped"} /\ app'.phase = "Starting" /\ app.lock = Free
              \/ app.phase = "Started" /\ app'.phase = "Stopping" /\ app.lock = Free
              \/ app.phase \in {"Created", "Started", "Stopped"} /\ app'.phase = "Deleting"
              \/ app.phase = "Deleted" /\ app'.phase = "Removed"
<1> USE DEF DocType, AppType
<1>1. CASE Tick
  BY <1>1 DEF Tick, InstanceTick, ApplicationTick, HandleRunningState, HandleStoppedState,
              HandleDeletedState, PurgeDeleted
<1>2. CASE LockExpires /\ UNCHANGED <<instanceVars, childVars>>
  BY <1>2 DEF LockExpires
<1>3. CASE ApiNext /\ UNCHANGED <<instanceVars, childVars>>
  BY <1>3 DEF ApiNext, AdmitRestart, AdmitStop, AdmitStart, AdmitDelete, AdmitResize, Admit,
              ServeRequest, ForceStop
<1>4. CASE UNCHANGED vars
  BY <1>4 DEF vars, docVars
<1> QED BY <1>1, <1>2, <1>3, <1>4

LEMMA ThrowEffect ==
    ASSUME DocType, NEW w \in Workers, Throw(w)
    PROVE  /\ app' = app /\ worker'[w] = Idle
           /\ \A v \in Workers \ {w} : worker'[v] = worker[v]
BY DEF Throw, End, DocType

\* The other tasks, the cluster and the API leave the document and the handlers alone.
LEMMA OthersEffect ==
    ASSUME Others
    PROVE  app' = app /\ worker' = worker
BY DEF Others, ChildCreated, ChildRemoved, AdmitCreate, ServeCreate, NamespaceTerminated,
       DedicatedDatabaseTask, docVars

-----------------------------------------------------------------------------
(* Created applications are complete *)

CreateKinds == {"StorageUser", "RuntimeDomain", "Database"}
Ready == {"Created", "Starting", "Started", "Stopping", "Stopped"}
Required(k) == k = "Database" => ~HasDedicatedDatabase
Provided == \A k \in CreateKinds : Required(k) => child[k] = "Created"

\* Until its deletion begins, an application loses nothing and gets nothing twice.
Undisturbed ==
    /\ namespace # "Terminating"
    /\ twice = {}
    /\ IF HasDedicatedDatabase THEN DdbExists /\ ddb.state # "Deleted" ELSE ddb = NoDdb
    /\ \A k \in CreateKinds : child[k] # "Deleting"

\* A handler that creates has found or inserted what lies behind it, and what it is about
\* to insert is still missing.
CreatingKnows(w) ==
    /\ worker[w].at \in {"find", "insert", "conclude"} => namespace = "Active"
    /\ worker[w].at \in {"find", "insert"} =>
         \A j \in 1..worker[w].i : Required(CreateOrder[j]) =>
             \/ child[CreateOrder[j]] = "Created"
             \/ CreateOrder[j] \in worker[w].saw
    /\ worker[w].at = "insert" => child[CreateOrder[worker[w].i + 1]] = "absent"
    /\ worker[w].at = "conclude" => Provided

CreationInv ==
    app.phase \notin Ending =>
        /\ Undisturbed
        /\ app.phase \in Ready => namespace = "Active" /\ Provided
        /\ \A w \in Workers : worker[w].job = "creating" => CreatingKnows(w)

LEMMA CreateOrderIs ==
    /\ Len(CreateOrder) = 3
    /\ CreateOrder[1] = "StorageUser" /\ CreateOrder[2] = "RuntimeDomain"
    /\ CreateOrder[3] = "Database"
BY DEF CreateOrder

LEMMA CreatingKeeps ==
    ASSUME DocType, WorldType, LockIsHeld, ~SlowHandlers, CreationInv,
           app.phase \notin Ending, NEW w \in Workers, ApplicationStep(w)
    PROVE  CreationInv'
<1>1. ApplicationWrites(w)
  BY ApplicationEffect
<1>2. Live(w) /\ worker[w].job \in {"creating", "deleting"}
  BY <1>1 DEF ApplicationWrites, Live
<1>3. /\ worker[w].job = "creating" /\ app.phase = "Creating"
      /\ \A v \in Workers \ {w} : ~Live(v)
  BY <1>2, Alone, JobsPhases DEF Ending
<1>4. /\ Undisturbed /\ CreatingKnows(w)
      /\ worker[w] \in WorkerType /\ WorkerOK(worker[w])
  BY <1>3 DEF CreationInv, DocType
<1>5. \A v \in Workers \ {w} : worker'[v].job # "creating"
  BY <1>1, <1>3 DEF ApplicationWrites, Moves, Live
<1>6. ASSUME Undisturbed', app'.phase \in Ready => (namespace = "Active" /\ Provided)',
             worker'[w].job = "creating" => CreatingKnows(w)'
      PROVE  CreationInv'
  BY <1>5, <1>6 DEF CreationInv
<1> USE DEF instanceVars, childVars
<1>7. ASSUME UNCHANGED <<app, instanceVars, childVars>>, CreatingKnows(w)' PROVE CreationInv'
  <2>1. Undisturbed' /\ app'.phase \notin Ready
    BY <1>3, <1>4, <1>7 DEF Undisturbed, Ready, DdbExists, NoDdb
  <2> QED BY <1>6, <1>7, <2>1
<1>8. CASE CreatingReadNamespace(w)
  <2>1. worker'[w].at = "createNamespace" \/ (worker'[w].at = "find" /\ namespace # "absent")
    BY <1>8, <1>4 DEF CreatingReadNamespace, Goto, DocType, WorkerType
  <2>2. worker'[w].i = 0
    BY <1>8, <1>4 DEF CreatingReadNamespace, Goto, DocType, WorkerType, WorkerOK, At
  <2>3. namespace' = namespace /\ (namespace # "absent" => namespace = "Active")
    BY <1>8, <1>4 DEF CreatingReadNamespace, Undisturbed, WorldType
  <2>4. CreatingKnows(w)'
    BY <2>1, <2>2, <2>3 DEF CreatingKnows
  <2> QED BY <1>7, <1>8, <2>4 DEF CreatingReadNamespace
<1>9. CASE CreatingNamespace(w)
  <2>1. worker'[w].at \in {"unlock", "idle"} /\ app' = app
    BY <1>9, <1>4 DEF CreatingNamespace, Goto, End, Idle, DocType, WorkerType
  <2>2. namespace' # "Terminating" /\ UNCHANGED <<ddb, childVars>>
    BY <1>9, <1>4 DEF CreatingNamespace, Undisturbed
  <2>3. Undisturbed' /\ app'.phase \notin Ready
    BY <1>3, <1>4, <2>1, <2>2 DEF Undisturbed, Ready, DdbExists, NoDdb
  <2>4. CreatingKnows(w)'
    BY <2>1 DEF CreatingKnows
  <2> QED BY <1>6, <2>3, <2>4
<1>10. CASE CreatingSkip(w)
  <2>1. /\ worker'[w].at = "find" /\ worker'[w].saw = worker[w].saw
        /\ worker'[w].i = worker[w].i + 1 /\ worker[w].i \in Nat /\ worker[w].at = "find"
    BY <1>10, <1>4 DEF CreatingSkip, Finding, At, DocType, WorkerType
  <2>2. ~Required(CreateOrder[worker[w].i + 1])
    BY <1>10, <1>4 DEF CreatingSkip, Needed, NextResource, Required, Undisturbed, NoDdb, DdbExists
  <2>3. UNCHANGED <<app, instanceVars, childVars>>
    BY <1>10 DEF CreatingSkip
  <2>4. CreatingKnows(w)'
    BY <1>4, <2>1, <2>2, <2>3 DEF CreatingKnows, Required
  <2> QED BY <1>7, <2>3, <2>4
<1>11. CASE CreatingFind(w)
  <2>1. /\ worker'[w].at = "find" /\ worker[w].at = "find"
        /\ worker'[w].i = worker[w].i + 1 /\ worker[w].i \in Nat
        /\ worker[w].saw \subseteq worker'[w].saw
        /\ \/ child[CreateOrder[worker[w].i + 1]] = "Created"
           \/ CreateOrder[worker[w].i + 1] \in worker'[w].saw
    BY <1>11, <1>4 DEF CreatingFind, Finding, At, DocType, WorkerType, NextResource
  <2>2. UNCHANGED <<app, instanceVars, childVars>>
    BY <1>11 DEF CreatingFind
  <2>3. CreatingKnows(w)'
    BY <1>4, <2>1, <2>2 DEF CreatingKnows, Required
  <2> QED BY <1>7, <2>2, <2>3
<1>12. CASE CreatingMissing(w)
  <2>1. /\ worker'[w].at = "insert" /\ worker[w].at = "find"
        /\ worker'[w].i = worker[w].i /\ worker'[w].saw = worker[w].saw
        /\ child[CreateOrder[worker[w].i + 1]] = "absent"
    BY <1>12, <1>4 DEF CreatingMissing, Finding, At, Goto, DocType, WorkerType, NextResource
  <2>2. UNCHANGED <<app, instanceVars, childVars>>
    BY <1>12 DEF CreatingMissing
  <2>3. CreatingKnows(w)'
    BY <1>4, <2>1, <2>2 DEF CreatingKnows, Required
  <2> QED BY <1>7, <2>2, <2>3
<1>13. CASE CreatingInsert(w)
  <2> DEFINE next == CreateOrder[worker[w].i + 1]
  <2>1. /\ worker'[w].at = "find" /\ worker[w].at = "insert"
        /\ worker'[w].i = worker[w].i + 1 /\ worker[w].i \in Nat /\ worker[w].i < 3
        /\ worker[w].saw \subseteq worker'[w].saw
        /\ next \in TaskKinds => next \in worker'[w].saw
    BY <1>13, <1>4, CreateOrderIs
       DEF CreatingInsert, At, DocType, WorkerType, WorkerOK, NextResource
  <2>2. next \in CreateKinds /\ next \in Kinds
    <3>1. worker[w].i = 0 \/ worker[w].i = 1 \/ worker[w].i = 2
      BY <2>1
    <3> QED BY <3>1, CreateOrderIs DEF CreateKinds, Kinds
  <2>3. child[next] = "absent"
    BY <1>4, <2>1 DEF CreatingKnows
  <2>4. /\ \A k \in Kinds \ {next} : child'[k] = child[k]
        /\ child'[next] = IF next \in TaskKinds THEN "Creating" ELSE "Created"
    <3> HIDE DEF next
    <3>1. child' = [child EXCEPT ![next] = IF next \in TaskKinds THEN "Creating" ELSE "Created"]
      BY <1>13, <2>3 DEF CreatingInsert, Insert, NextResource, next
    <3> QED BY <2>2, <3>1 DEF WorldType
  <2>5. UNCHANGED <<app, instanceVars>> /\ twice' = twice
    BY <1>13, <2>3 DEF CreatingInsert, NextResource
  <2>6. Undisturbed' /\ app'.phase \notin Ready
    BY <1>3, <1>4, <2>2, <2>4, <2>5
       DEF Undisturbed, Ready, CreateKinds, Kinds, DdbExists, NoDdb
  <2>7. ASSUME NEW j \in 1..worker'[w].i, Required(CreateOrder[j])
        PROVE  child'[CreateOrder[j]] = "Created" \/ CreateOrder[j] \in worker'[w].saw
    <3>1. CASE j = worker[w].i + 1
      BY <2>1, <2>4, <3>1
    <3>2. CASE j # worker[w].i + 1
      <4>1. j \in 1..worker[w].i /\ (j = 1 \/ j = 2 \/ j = 3)
        BY <2>1, <3>2
      <4>2. child[CreateOrder[j]] = "Created" \/ CreateOrder[j] \in worker[w].saw
        BY <1>4, <2>1, <2>7, <4>1 DEF CreatingKnows
      <4>3. CreateOrder[j] \in Kinds
        BY <4>1, CreateOrderIs DEF Kinds
      <4> HIDE DEF next
      <4> QED BY <2>1, <2>3, <2>4, <4>2, <4>3
    <3> QED BY <3>1, <3>2
  <2>8. CreatingKnows(w)'
    BY <1>4, <2>1, <2>5, <2>7 DEF CreatingKnows, Required
  <2> QED BY <1>6, <2>6, <2>8
<1>14. CASE CreatingWait(w)
  <2>1. /\ worker[w].at = "find" /\ worker[w].i = 3
        /\ worker'[w].at \in {"conclude", "unlock"}
        /\ worker'[w].at = "conclude" => worker[w].saw = {}
    BY <1>14, <1>4, CreateOrderIs DEF CreatingWait, At, Goto, DocType, WorkerType
  <2>2. UNCHANGED <<app, instanceVars, childVars>>
    BY <1>14 DEF CreatingWait
  <2>3. worker[w].saw = {} => Provided
    BY <1>4, <2>1, CreateOrderIs DEF CreatingKnows, Provided, CreateKinds
  <2>4. worker'[w].at = "conclude" => namespace' = "Active" /\ Provided'
    BY <1>4, <2>1, <2>2, <2>3 DEF CreatingKnows, Provided, Required
  <2>5. CreatingKnows(w)'
    BY <2>1, <2>4 DEF CreatingKnows
  <2> QED BY <1>7, <2>2, <2>5
<1>15. CASE CreatingConclude(w)
  <2>1. worker'[w].job = "none" /\ UNCHANGED <<instanceVars, childVars>>
    BY <1>15 DEF CreatingConclude, End, DocType, Idle
  <2>2. namespace = "Active" /\ Provided
    BY <1>4, <1>15 DEF CreatingConclude, At, CreatingKnows
  <2>3. Undisturbed' /\ (namespace = "Active" /\ Provided)'
    BY <1>4, <2>1, <2>2 DEF Undisturbed, Provided, Required, DdbExists, NoDdb
  <2> QED BY <1>6, <2>1, <2>3
<1>16. CASE Unlock(w) /\ UNCHANGED <<request, faults, instanceVars, childVars>>
  <2>1. worker'[w].job = "none" /\ app'.phase = app.phase
    BY <1>16 DEF Unlock, SetLock, End, DocType, AppType, Idle
  <2>2. Undisturbed'
    BY <1>4, <1>16 DEF Undisturbed, DdbExists, NoDdb
  <2> QED BY <1>3, <1>6, <2>1, <2>2 DEF Ready
<1> QED BY <1>3, <1>8, <1>9, <1>10, <1>11, <1>12, <1>13, <1>14, <1>15, <1>16
        DEF ApplicationStep, DeletingSkip, DeletingRemove, DeletingRemoveDdb,
            DeletingReadNamespace, DeletingNamespace, DeletingConclude, At

\* Starts, stops and restarts find the application complete and leave it so.
LEMMA InstanceKeepsCreation ==
    ASSUME DocType, LockIsHeld, ~SlowHandlers, CreationInv, app.phase \notin Ending,
           app'.phase \notin Ending, NEW w \in Workers, InstanceStep(w), UNCHANGED childVars
    PROVE  CreationInv'
<1>1. InstanceWrites(w) /\ Live(w) /\ worker[w].job \in {"starting", "stopping", "restarting"}
  BY InstanceEffect DEF InstanceWrites, Live
<1>2. app.phase \in Ready /\ \A v \in Workers \ {w} : ~Live(v)
  BY <1>1, Alone, JobsPhases DEF Ready
<1>3. Undisturbed /\ namespace = "Active" /\ Provided
  BY <1>2 DEF CreationInv
<1>4. \A v \in Workers : worker'[v].job # "creating"
  BY <1>1, <1>2 DEF InstanceWrites, Moves, Live
<1>5. IF HasDedicatedDatabase THEN DdbExists' /\ ddb'.state # "Deleted" ELSE ddb' = NoDdb
  <2>1. CASE ddb' = ddb
    BY <1>3, <2>1 DEF Undisturbed, DdbExists
  <2>2. ASSUME NEW s \in DdbStates \ {"Deleted"}, DdbUpdateState(s)
        PROVE  IF HasDedicatedDatabase THEN DdbExists' /\ ddb'.state # "Deleted"
                                       ELSE ddb' = NoDdb
    BY <1>3, <2>2 DEF Undisturbed, DdbUpdateState, DdbExists, NoDdb
  <2> QED BY <1>1, <2>1, <2>2 DEF InstanceWrites
<1>6. Undisturbed' /\ (namespace = "Active" /\ Provided)'
  BY <1>1, <1>3, <1>5 DEF Undisturbed, Provided, InstanceWrites, childVars
<1> QED BY <1>4, <1>6 DEF CreationInv

\* Resources that no request inserts become Created, and only marked ones are removed.
LEMMA OthersKeepCreation ==
    ASSUME DocType, WorldType, CreationInv, app.phase \notin Ending, Others
    PROVE  CreationInv'
<1>1. app' = app /\ worker' = worker
  BY OthersEffect
<1>2. Undisturbed
  BY DEF CreationInv
<1> USE DEF instanceVars, childVars, entryVars
<1>3. ASSUME Undisturbed', namespace' = namespace,
             \A k \in CreateKinds : child'[k] = child[k]
                                    \/ (child[k] = "Creating" /\ child'[k] = "Created")
      PROVE  CreationInv'
  <2>1. Provided => Provided'
    BY <1>3 DEF Provided, Required
  <2>2. ASSUME NEW w \in Workers, WorkerOK(worker[w]), CreatingKnows(w)
        PROVE  CreatingKnows(w)'
    <3>1. /\ Len(CreateOrder) = 3
          /\ \A j \in 1..3 : CreateOrder[j] \in CreateKinds
      <4>1. \A j \in 1..3 : j = 1 \/ j = 2 \/ j = 3
        OBVIOUS
      <4> QED BY <4>1, CreateOrderIs DEF CreateKinds
    <3>2. /\ worker[w].at = "find" => worker[w].i <= 3
          /\ worker[w].at = "insert" => worker[w].i < 3
          /\ worker[w].i \in Nat
      BY <2>2, <3>1 DEF WorkerOK, WorkerType
    <3>3. worker[w].at = "insert" => worker[w].i + 1 \in 1..3
      BY <3>2
    <3>4. ASSUME worker[w].at \in {"find", "insert"}, NEW j \in 1..worker[w].i
          PROVE  j \in 1..3
      BY <3>2, <3>4
    <3> QED BY <1>1, <1>3, <2>1, <2>2, <3>1, <3>3, <3>4 DEF CreatingKnows, Required
  <2> QED BY <1>1, <1>3, <2>1, <2>2 DEF CreationInv, DocType
<1>4. ASSUME NEW k \in Kinds, ChildCreated(k) PROVE CreationInv'
  <2>1. /\ child[k] = "Creating" /\ child' = [child EXCEPT ![k] = "Created"]
        /\ UNCHANGED <<namespace, ddb, twice>>
    BY <1>4 DEF ChildCreated
  <2>2. \A l \in CreateKinds : child'[l] = child[l]
                               \/ (child[l] = "Creating" /\ child'[l] = "Created")
    BY <2>1 DEF WorldType, CreateKinds, Kinds
  <2>3. Undisturbed'
    BY <1>2, <2>1, <2>2 DEF Undisturbed, DdbExists
  <2> QED BY <1>3, <2>1, <2>2, <2>3
<1>5. ASSUME NEW k \in Kinds, ChildRemoved(k) PROVE CreationInv'
  <2>1. /\ child[k] = "Deleting" /\ child' = [child EXCEPT ![k] = "absent"]
        /\ UNCHANGED <<namespace, ddb, twice>>
    BY <1>5 DEF ChildRemoved
  <2>2. \A l \in CreateKinds : child'[l] = child[l]
    BY <1>2, <2>1 DEF WorldType, CreateKinds, Kinds, Undisturbed
  <2>3. Undisturbed'
    BY <1>2, <2>1, <2>2 DEF Undisturbed, DdbExists
  <2> QED BY <1>3, <2>1, <2>2, <2>3
<1>6. ASSUME NEW k \in UserKinds, AdmitCreate(k) \/ ServeCreate(k) PROVE CreationInv'
  <2>1. k \notin CreateKinds
    BY UserKindsAssumption DEF CreateKinds
  <2>2. UNCHANGED <<namespace, ddb, twice>>
    BY <1>6 DEF AdmitCreate, ServeCreate
  <2>3. \A l \in CreateKinds : child'[l] = child[l]
    BY <1>6, <2>1 DEF AdmitCreate, ServeCreate, Insert, WorldType, CreateKinds, Kinds
  <2>4. Undisturbed'
    BY <1>2, <2>2, <2>3 DEF Undisturbed, DdbExists
  <2> QED BY <1>3, <2>2, <2>3, <2>4
<1>7. CASE NamespaceTerminated
  BY <1>2, <1>7 DEF NamespaceTerminated, Undisturbed
<1>8. CASE DedicatedDatabaseTask
  <2>1. UNCHANGED <<namespace, childVars>>
    BY <1>8 DEF DedicatedDatabaseTask
  <2>2. IF HasDedicatedDatabase THEN DdbExists' /\ ddb'.state # "Deleted" ELSE ddb' = NoDdb
    BY <1>2, <1>8
       DEF DedicatedDatabaseTask, DdbTask, DdbMove, DdbStop, DdbStart, DdbDelete, DdbStopped,
           DdbDeleted, DdbStarted, DdbTimeout, DdbPurge, NoDdb, DdbStates, DdbPhases,
           DdbExists, Undisturbed, WorldType
  <2>3. Undisturbed'
    BY <1>2, <2>1, <2>2 DEF Undisturbed
  <2> QED BY <1>3, <2>1, <2>3
<1> QED BY <1>4, <1>5, <1>6, <1>7, <1>8 DEF Others

LEMMA CreationStep ==
    ASSUME TypeOK, LockIsHeld, ~SlowHandlers, CreationInv, [Next]_vars
    PROVE  CreationInv'
<1> SUFFICES ASSUME app'.phase \notin Ending PROVE CreationInv'
  BY DEF CreationInv
<1>1. DocType /\ WorldType
  BY TypeParts
<1>2. app.phase \notin Ending
  BY <1>1, EndingStays
<1>3. ASSUME NEW w \in Workers, Step(w) PROVE CreationInv'
  BY <1>1, <1>2, <1>3, CreatingKeeps, InstanceKeepsCreation DEF Step
\* Nothing changes but that a handler starts or ends, or the phase moves on.
<1>4. ASSUME UNCHANGED <<instanceVars, childVars>>,
             app.phase \in Ready \/ app'.phase = app.phase,
             \A w \in Workers : \/ worker'[w] = worker[w]
                                \/ worker'[w].at \in {"namespace", "idle"}
                                \/ worker'[w].job # "creating"
      PROVE  CreationInv'
  <2>1. Undisturbed'
    BY <1>2, <1>4 DEF CreationInv, Undisturbed, instanceVars, childVars, DdbExists
  <2>2. app'.phase \in Ready => (namespace = "Active" /\ Provided)'
    BY <1>2, <1>4 DEF CreationInv, Provided, Required, instanceVars, childVars
  <2>3. ASSUME NEW w \in Workers, worker'[w].job = "creating"
        PROVE  CreatingKnows(w)'
    <3>1. CASE worker'[w] = worker[w]
      BY <1>2, <1>4, <2>3, <3>1
         DEF CreationInv, CreatingKnows, Provided, Required, instanceVars, childVars
    <3>2. CASE worker'[w].at \in {"namespace", "idle"}
      BY <3>2 DEF CreatingKnows
    <3> QED BY <1>4, <2>3, <3>1, <3>2
  <2> QED BY <2>1, <2>2, <2>3 DEF CreationInv
<1>5. ASSUME NEW w \in Workers, Claims(w) PROVE CreationInv'
  <2>1. Claimed(w) /\ UNCHANGED <<instanceVars, childVars>>
    BY <1>1, <1>5, ClaimsEffect
  <2>2. worker'[w].job = "creating" => worker'[w].at = "namespace"
    BY <2>1 DEF Claimed, FirstStep
  <2> QED BY <1>4, <2>1, <2>2 DEF Claimed
<1>6. ASSUME NEW w \in Workers, Throw(w), UNCHANGED <<instanceVars, childVars>>
      PROVE  CreationInv'
  <2>1. worker'[w].job # "creating"
    BY <1>1, <1>6, ThrowEffect DEF Idle
  <2> QED BY <1>1, <1>4, <1>6, <2>1, ThrowEffect
<1>7. CASE \/ Tick
           \/ LockExpires /\ UNCHANGED <<instanceVars, childVars>>
           \/ ApiNext /\ UNCHANGED <<instanceVars, childVars>>
           \/ UNCHANGED vars
  <2>1. /\ worker' = worker /\ UNCHANGED <<instanceVars, childVars>>
        /\ app.phase \in Ready \/ app'.phase = app.phase
    BY <1>1, <1>2, <1>7, QuietEffect DEF Ready, Ending
  <2> QED BY <1>4, <2>1
<1> QED BY <1>1, <1>2, <1>3, <1>5, <1>6, <1>7, OthersKeepCreation DEF Next

LEMMA CreationInit == Init => CreationInv
BY DedicatedAssumption
   DEF Init, DocInit, InstanceInit, ChildInit, DdbInit, CreationInv, Undisturbed, CreateKinds,
       Kinds, Ready, NoDdb, DdbExists, Idle

\* What an application was promised exists from Created on, and once.
LEMMA CreationKept ==
    ASSUME ~SlowHandlers
    PROVE  Spec => []CreationInv
<1>1. TypeOK /\ LockIsHeld /\ CreationInv /\ [Next]_vars => CreationInv'
  BY CreationStep
<1> QED BY <1>1, CreationInit, TypeCorrect, LockKept, PTL DEF Spec

\* From Created until its deletion an application has its namespace, its storage user,
\* its runtime domain and its database, each of them once, although handlers find and
\* insert in two steps and several replicas run them.
THEOREM CreatedKept ==
    ASSUME ~SlowHandlers
    PROVE  Spec => []CreatedIsComplete
<1>1. CreationInv => CreatedIsComplete
  BY DedicatedAssumption
     DEF CreationInv, CreatedIsComplete, Ready, Ending, Undisturbed, Provided, Required,
         CreateKinds
<1> QED BY <1>1, CreationKept, PTL

-----------------------------------------------------------------------------
(* Started applications are served *)

\* A handler that starts and has come to the activation has found both objects, and what
\* lies behind it is active.
StartingKnows(w) ==
    /\ worker[w].at # "timeout"
    /\ worker[w].at = "activate" =>
         instance = Objects /\ \A j \in 1..worker[w].i : Entries[j] \in active
    /\ worker[w].at = "conclude" => instance = Objects /\ active = EntryKinds

ServingInv ==
    app.phase \notin Ending =>
        /\ app.phase = "Started" => instance = Objects /\ active = EntryKinds
        /\ \A w \in Workers : worker[w].job = "starting" => StartingKnows(w)

LEMMA EntriesAre ==
    /\ Len(Entries) = 4
    /\ Entries[1] = "RuntimeDomain" /\ Entries[2] = "WebsiteHosting"
    /\ Entries[3] = "BucketDomain" /\ Entries[4] = "CronTrigger"
BY DEF Entries

LEMMA StartingKeeps ==
    ASSUME DocType, WorldType, NEW w \in Workers, worker[w].job = "starting",
           StartingKnows(w), InstanceStep(w)
    PROVE  /\ worker'[w].job = "starting" => StartingKnows(w)'
           /\ app'.phase = "Started" =>
                app.phase = "Started" \/ (instance = Objects /\ active = EntryKinds)'
<1>1. worker[w] \in WorkerType /\ WorkerOK(worker[w])
  BY DEF DocType
\* Steps after which the handler is neither activating nor about to conclude.
<1>2. ASSUME worker'[w].at \notin {"timeout", "activate", "conclude"},
             app'.phase = app.phase
      PROVE  /\ worker'[w].job = "starting" => StartingKnows(w)'
             /\ app'.phase = "Started" =>
                  app.phase = "Started" \/ (instance = Objects /\ active = EntryKinds)'
  BY <1>2 DEF StartingKnows
<1> USE DEF DocType, AppType, WorkerType
<1>3. CASE StartTimeout(w)
  BY <1>3 DEF StartTimeout, At, StartingKnows
<1>4. CASE StartReadDdb(w)
  BY <1>1, <1>2, <1>4 DEF StartReadDdb, Goto
<1>5. CASE StartDdbRun(w)
  BY <1>1, <1>2, <1>5 DEF StartDdbRun, Goto
<1>6. CASE CreateGet(w)
  BY <1>1, <1>2, <1>6 DEF CreateGet, Look
<1>7. CASE CreateDeployment(w)
  BY <1>1, <1>2, <1>7 DEF CreateDeployment, CreateObject, Goto, End, Idle
<1>8. CASE CreateService(w)
  BY <1>1, <1>2, <1>8 DEF CreateService, CreateObject, Goto, End, Idle
<1>9. CASE StartAvailable(w)
  <2>1. instance = Objects /\ UNCHANGED <<instance, active>> /\ app' = app
    BY <1>9 DEF StartAvailable, Seen, Objects, instanceVars, entryVars
  <2>2. worker'[w].at = "activate" /\ worker'[w].i = 0
    BY <1>1, <1>9 DEF StartAvailable, At, WorkerOK
  <2> QED BY <2>1, <2>2 DEF StartingKnows
<1>10. CASE StartUnavailable(w)
  BY <1>1, <1>2, <1>10 DEF StartUnavailable, Goto
<1>11. CASE StartActivate(w)
  <2> DEFINE i == worker[w].i
  <2>1. /\ worker[w].at = "activate" /\ i \in Nat /\ i < 4
        /\ active' = active \cup {Entries[i + 1]} /\ instance' = instance /\ app' = app
    BY <1>1, <1>11, EntriesAre DEF StartActivate, At, WorkerOK
  <2>2. worker'[w].at = (IF i + 1 = 4 THEN "conclude" ELSE "activate") /\ worker'[w].i = i + 1
    BY <1>1, <1>11, EntriesAre DEF StartActivate, NextEntry, At
  <2>3. instance = Objects /\ \A j \in 1..i : Entries[j] \in active
    BY <2>1 DEF StartingKnows
  <2>4. \A j \in 1..(i + 1) : Entries[j] \in active'
    BY <2>1, <2>3
  <2>5. i + 1 = 4 => active' = EntryKinds
    <3>1. active' \subseteq EntryKinds
      <4>1. Entries[i + 1] \in EntryKinds
        BY <2>1, Sequences
      <4> QED BY <2>1, <4>1 DEF WorldType
    <3>2. ASSUME i + 1 = 4
          PROVE  {Entries[1], Entries[2], Entries[3], Entries[4]} \subseteq active'
      BY <2>4, <3>2
    <3> QED BY <3>1, <3>2, EntriesAre DEF EntryKinds
  <2> HIDE DEF i
  <2> QED BY <2>1, <2>2, <2>3, <2>4, <2>5 DEF StartingKnows
<1>12. CASE StartConclude(w)
  <2>1. worker'[w].job = "none"
    BY <1>12 DEF StartConclude, End, Idle
  <2> QED BY <1>12, <2>1 DEF StartConclude, At, StartingKnows, instanceVars, entryVars
<1>13. CASE InstanceRelock(w)
  BY <1>2, <1>13 DEF InstanceRelock, Relock, SetLock, End, Idle
<1> QED BY <1>3, <1>4, <1>5, <1>6, <1>7, <1>8, <1>9, <1>10, <1>11, <1>12, <1>13
        DEF InstanceStep, StopInactivate, StopReadDdb, StopDdbStop, StopGet, StopRemove,
            StopRemoveDeployment, StopRemoveService, StopConclude, RestartDdb, RestartGet,
            RestartReplace, RestartConclude, At

LEMMA InstanceKeepsServing ==
    ASSUME DocType, WorldType, WorldType', LockIsHeld, ~SlowHandlers, ServingInv,
           app.phase \notin Ending, NEW w \in Workers, InstanceStep(w), UNCHANGED childVars
    PROVE  ServingInv'
<1>1. /\ InstanceWrites(w) /\ Live(w)
      /\ worker[w].job \in {"starting", "stopping", "restarting"}
  BY InstanceEffect DEF InstanceWrites, Live
<1>2. /\ app.phase \in JobPhases[worker[w].job]
      /\ \A v \in Workers \ {w} : ~Live(v)
  BY <1>1, Alone
<1>3. \A v \in Workers \ {w} : worker'[v].job = "none"
  BY <1>1, <1>2 DEF InstanceWrites, Moves, Live
<1>4. app'.phase # app.phase => <<app.phase, app'.phase>> \in LifeCycle
  BY StepCycle DEF Step
<1>5. CASE worker[w].job = "starting"
  BY <1>2, <1>3, <1>5, StartingKeeps, JobsPhases DEF ServingInv
<1>6. CASE worker[w].job = "stopping"
  <2>1. app'.phase \in {"Stopping", "Stopped"}
    BY <1>2, <1>4, <1>6, JobsPhases DEF LifeCycle
  <2>2. worker'[w].job # "starting"
    BY <1>1, <1>6 DEF InstanceWrites, Moves
  <2> QED BY <1>3, <2>1, <2>2 DEF ServingInv
<1>7. CASE worker[w].job = "restarting"
  <2>1. app'.phase = "Started" => app.phase = "Started"
    BY <1>2, <1>4, <1>7, JobsPhases DEF LifeCycle
  <2>2. worker'[w].job # "starting"
    BY <1>1, <1>7 DEF InstanceWrites, Moves
  <2>3. instance \subseteq instance' /\ active' = active /\ instance' \subseteq Objects
    BY <1>1, <1>7 DEF InstanceWrites, WorldType
  <2> QED BY <1>3, <2>1, <2>2, <2>3 DEF ServingInv
<1> QED BY <1>1, <1>5, <1>6, <1>7

LEMMA ServingStep ==
    ASSUME TypeOK, TypeOK', LockIsHeld, ~SlowHandlers, ~StartTimesOut, CreationInv,
           ServingInv, [Next]_vars
    PROVE  ServingInv'
<1> SUFFICES ASSUME app'.phase \notin Ending PROVE ServingInv'
  BY DEF ServingInv
<1>1. DocType /\ WorldType /\ WorldType'
  <2>1. TypeOK' <=> DocType' /\ WorldType'
    BY TypeParts, PTL
  <2> QED BY <2>1, TypeParts
<1>2. app.phase \notin Ending
  BY <1>1, EndingStays
<1> USE DEF instanceVars, childVars, entryVars
\* Nothing is taken away, and no phase or handler gets where it would need more.
<1>3. ASSUME instance' = instance, active \subseteq active', app'.phase = "Started" => app.phase = "Started",
             \A w \in Workers : \/ worker'[w] = worker[w]
                                \/ worker'[w].job # "starting"
                                \/ worker'[w].at = "ddb"
      PROVE  ServingInv'
  <2>1. active' \subseteq EntryKinds
    BY <1>1 DEF WorldType
  <2>2. ASSUME NEW w \in Workers, worker'[w].job = "starting"
        PROVE  StartingKnows(w)'
    <3>1. CASE worker'[w] = worker[w]
      BY <1>2, <1>3, <2>1, <2>2, <3>1 DEF ServingInv, StartingKnows
    <3>2. CASE worker'[w].at = "ddb"
      BY <3>2 DEF StartingKnows
    <3> QED BY <1>3, <2>2, <3>1, <3>2
  <2> QED BY <1>2, <1>3, <2>1, <2>2 DEF ServingInv
<1>4. ASSUME NEW w \in Workers, ApplicationStep(w) PROVE ServingInv'
  <2>1. ApplicationWrites(w) /\ Live(w) /\ worker[w].job \in {"creating", "deleting"}
    BY <1>1, <1>4, ApplicationEffect DEF ApplicationWrites, Live
  <2>2. app.phase = "Creating"
    BY <1>2, <2>1, Alone, JobsPhases DEF Ending
  <2>3. app'.phase # "Started"
    BY <1>1, <1>4, <2>2, StepCycle DEF Step, LifeCycle
  <2> QED BY <1>3, <2>1, <2>3 DEF ApplicationWrites, Moves
<1>5. ASSUME NEW w \in Workers, Claims(w) PROVE ServingInv'
  <2>1. Claimed(w) /\ UNCHANGED <<instanceVars, childVars>>
    BY <1>1, <1>5, ClaimsEffect
  <2>2. worker'[w].job = "starting" => worker'[w].at = "ddb"
    BY <2>1 DEF Claimed, FirstStep
  <2> QED BY <1>3, <2>1, <2>2 DEF Claimed
<1>6. ASSUME NEW w \in Workers, Throw(w), UNCHANGED <<instanceVars, childVars>>
      PROVE  ServingInv'
  <2>1. worker'[w].job # "starting"
    BY <1>1, <1>6, ThrowEffect DEF Idle
  <2> QED BY <1>1, <1>3, <1>6, <2>1, ThrowEffect
<1>7. CASE \/ Tick
           \/ LockExpires /\ UNCHANGED <<instanceVars, childVars>>
           \/ ApiNext /\ UNCHANGED <<instanceVars, childVars>>
           \/ UNCHANGED vars
  <2>1. /\ worker' = worker /\ UNCHANGED <<instanceVars, childVars>>
        /\ app'.phase = "Started" => app.phase = "Started"
    BY <1>1, <1>7, QuietEffect
  <2> QED BY <1>3, <2>1
<1>8. CASE Others
  <2>1. app' = app /\ worker' = worker
    BY <1>8, OthersEffect
  <2>2. namespace # "Terminating"
    BY <1>2 DEF CreationInv, Undisturbed
  <2>3. instance' = instance /\ active \subseteq active'
    BY <1>8, <2>2
       DEF Others, ChildCreated, ChildRemoved, AdmitCreate, ServeCreate, NamespaceTerminated,
           DedicatedDatabaseTask
  <2> QED BY <1>3, <2>1, <2>3
<1> QED BY <1>1, <1>2, <1>4, <1>5, <1>6, <1>7, <1>8, InstanceKeepsServing DEF Next, Step

\* What the API reports as running and started can be reached, unless a start was given up
\* after five minutes: the handler that sets Started has seen both objects and activated
\* every domain, website and trigger, and nobody took them away again.
THEOREM RunningServed ==
    ASSUME ~SlowHandlers, ~StartTimesOut
    PROVE  Spec => []RunningIsServed
<1>1. Init => ServingInv
  BY DEF Init, DocInit, ServingInv, Idle
<1>2. TypeOK /\ TypeOK' /\ LockIsHeld /\ CreationInv /\ ServingInv /\ [Next]_vars => ServingInv'
  BY ServingStep
<1>3. CreationInv /\ ServingInv => RunningIsServed
  BY DEF CreationInv, ServingInv, RunningIsServed, Ready, Ending
<1> QED BY <1>1, <1>2, <1>3, CreationKept, TypeCorrect, LockKept, PTL DEF Spec

-----------------------------------------------------------------------------
(* Stopped applications are down *)

\* A restart of a stopped application finds nothing, and creates the two objects.
RestartingKnows(w) ==
    /\ worker[w].at # "replace"
    /\ worker[w].at \in {"ddbRestart", "get", "getAgain", "deployment"} => instance = {}
    /\ worker[w].at \in {"deployment", "service"} => worker[w].saw = {}
    /\ worker[w].at = "service" => "service" \notin instance

\* A stop has switched off what lies behind it, but what the API inserted since.
AfterSwitchOff == {"ddb", "ddbStop", "get", "remove", "removeDeployment", "removeService",
                   "conclude"}
StoppingKnows(w) ==
    /\ worker[w].at = "inactivate" =>
         \A j \in 1..worker[w].i : Entries[j] \notin active \ fresh
    /\ worker[w].at \in AfterSwitchOff => active \subseteq fresh
    /\ worker[w].at = "conclude" => instance = {}

DownInv ==
    app.phase \notin Ending =>
        /\ app.phase = "Stopped" =>
             /\ active \subseteq fresh
             /\ \A w \in Workers : worker[w].job = "restarting" => RestartingKnows(w)
             /\ (\A w \in Workers : worker[w].job # "restarting") => instance = {}
        /\ \A w \in Workers : worker[w].job = "stopping" => StoppingKnows(w)

LEMMA StoppingKeeps ==
    ASSUME DocType, WorldType, namespace = "Active", NEW w \in Workers,
           worker[w].job = "stopping", app.phase = "Stopping", StoppingKnows(w), InstanceStep(w)
    PROVE  /\ worker'[w].job = "stopping" => StoppingKnows(w)'
           /\ app'.phase = "Stopped" => active' \subseteq fresh' /\ instance' = {}
<1>1. worker[w] \in WorkerType /\ WorkerOK(worker[w])
  BY DEF DocType
\* Steps that neither conclude nor switch documents.
<1>2. ASSUME app'.phase = app.phase, UNCHANGED entryVars,
             \/ worker'[w].at \in AfterSwitchOff \ {"conclude"} /\ worker[w].at \in AfterSwitchOff
             \/ worker'[w].at \in {"relock", "idle"}
      PROVE  /\ worker'[w].job = "stopping" => StoppingKnows(w)'
             /\ app'.phase = "Stopped" => active' \subseteq fresh' /\ instance' = {}
  BY <1>2 DEF StoppingKnows, AfterSwitchOff, entryVars
<1> USE DEF DocType, AppType, WorkerType, instanceVars, entryVars
<1>3. CASE StopInactivate(w)
  <2> DEFINE i == worker[w].i
             e == Entries[i + 1]
  <2>1. /\ worker[w].at = "inactivate" /\ i \in Nat /\ i < 4
        /\ active' = active \ {e} /\ fresh' = fresh \ {e} /\ instance' = instance /\ app' = app
    BY <1>1, <1>3, EntriesAre DEF StopInactivate, At, WorkerOK
  <2>2. worker'[w].at = (IF i + 1 = 4 THEN "ddb" ELSE "inactivate") /\ worker'[w].i = i + 1
    BY <1>1, <1>3, EntriesAre DEF StopInactivate, NextEntry, At
  <2>3. \A j \in 1..i : Entries[j] \notin active \ fresh
    BY <2>1 DEF StoppingKnows
  <2>4. \A j \in 1..(i + 1) : Entries[j] \notin active' \ fresh'
    BY <2>1, <2>3
  <2>5. i + 1 = 4 => active' \subseteq fresh'
    <3>1. ASSUME i + 1 = 4
          PROVE  \A k \in {Entries[1], Entries[2], Entries[3], Entries[4]} :
                     k \notin active' \ fresh'
      BY <2>4, <3>1
    <3>2. active' \subseteq {Entries[1], Entries[2], Entries[3], Entries[4]}
      BY <2>1, EntriesAre DEF WorldType, EntryKinds
    <3> QED BY <3>1, <3>2
  <2> HIDE DEF i, e
  <2> QED BY <2>1, <2>2, <2>4, <2>5 DEF StoppingKnows, AfterSwitchOff, i
<1>4. CASE StopReadDdb(w)
  BY <1>1, <1>2, <1>4 DEF StopReadDdb, Goto, At, AfterSwitchOff
<1>5. CASE StopDdbStop(w)
  BY <1>1, <1>2, <1>5 DEF StopDdbStop, Goto
<1>6. CASE StopGet(w)
  <2>1. CASE instance = {}
    <3>1. worker'[w].at = "conclude" /\ worker[w].at = "get" /\ app' = app
      BY <1>1, <1>6, <2>1 DEF StopGet, Goto, Seen, At
    <3>2. UNCHANGED <<instance, active, fresh>>
      BY <1>6 DEF StopGet
    <3> QED BY <2>1, <3>1, <3>2 DEF StoppingKnows, AfterSwitchOff
  <2>2. CASE instance # {}
    BY <1>1, <1>2, <1>6, <2>2 DEF StopGet, Goto, Seen, At, AfterSwitchOff
  <2> QED BY <2>1, <2>2
<1>7. CASE StopRemove(w)
  BY <1>1, <1>2, <1>7 DEF StopRemove, Look, At, AfterSwitchOff
<1>8. CASE StopRemoveDeployment(w)
  BY <1>1, <1>2, <1>8 DEF StopRemoveDeployment, DeleteObject, Goto, End, Idle, At, AfterSwitchOff
<1>9. CASE StopRemoveService(w)
  BY <1>1, <1>2, <1>9 DEF StopRemoveService, DeleteObject, Goto, End, Idle, At, AfterSwitchOff
<1>10. CASE StopConclude(w)
  <2>1. worker'[w].job = "none"
    BY <1>10 DEF StopConclude, End, Idle
  <2> QED BY <1>10, <2>1 DEF StopConclude, At, StoppingKnows, AfterSwitchOff
<1>11. CASE InstanceRelock(w)
  BY <1>2, <1>11 DEF InstanceRelock, Relock, SetLock, End, Idle
<1> QED BY <1>3, <1>4, <1>5, <1>6, <1>7, <1>8, <1>9, <1>10, <1>11
        DEF InstanceStep, StartTimeout, StartReadDdb, StartDdbRun, CreateGet, CreateDeployment,
            CreateService, StartAvailable, StartUnavailable, StartActivate, StartConclude,
            RestartDdb, RestartGet, RestartReplace, RestartConclude, At

LEMMA RestartingKeeps ==
    ASSUME DocType, WorldType, namespace = "Active", NEW w \in Workers,
           worker[w].job = "restarting", app.phase = "Stopped", RestartingKnows(w),
           InstanceStep(w)
    PROVE  \/ app'.phase = "Starting"
           \/ app'.phase = "Stopped" /\ worker'[w].job = "restarting" /\ RestartingKnows(w)'
<1>1. worker[w] \in WorkerType /\ WorkerOK(worker[w])
  BY DEF DocType
<1> USE DEF DocType, AppType, WorkerType, instanceVars, entryVars
<1>2. CASE RestartDdb(w)
  BY <1>1, <1>2 DEF RestartDdb, Goto, At, RestartingKnows
<1>3. CASE RestartGet(w)
  <2>1. Seen = {} /\ Seen # Objects
    BY <1>3 DEF RestartGet, At, RestartingKnows, Seen, Objects
  <2> QED BY <1>1, <1>3, <2>1 DEF RestartGet, Look, At, RestartingKnows
<1>4. CASE CreateGet(w)
  <2>1. Seen = {}
    BY <1>4 DEF CreateGet, At, RestartingKnows, Seen
  <2> QED BY <1>1, <1>4, <2>1 DEF CreateGet, Look, At, RestartingKnows
<1>5. CASE CreateDeployment(w)
  BY <1>1, <1>5 DEF CreateDeployment, CreateObject, Goto, At, RestartingKnows
<1>6. CASE CreateService(w)
  BY <1>1, <1>6 DEF CreateService, CreateObject, Goto, At, RestartingKnows
<1>7. CASE RestartReplace(w)
  BY <1>7 DEF RestartReplace, At, RestartingKnows
<1>8. CASE RestartConclude(w)
  BY <1>8 DEF RestartConclude, WriteIfPhase
<1>9. CASE InstanceRelock(w)
  BY <1>9, JobsOfSteps DEF InstanceRelock, Relock
<1> QED BY <1>2, <1>3, <1>4, <1>5, <1>6, <1>7, <1>8, <1>9
        DEF InstanceStep, StartTimeout, StartReadDdb, StartDdbRun, StartAvailable,
            StartUnavailable, StartActivate, StartConclude, StopInactivate, StopReadDdb,
            StopDdbStop, StopGet, StopRemove, StopRemoveDeployment, StopRemoveService,
            StopConclude, At

LEMMA InstanceKeepsDown ==
    ASSUME DocType, WorldType, LockIsHeld, ~SlowHandlers, CreationInv, DownInv,
           app.phase \notin Ending, NEW w \in Workers, InstanceStep(w), UNCHANGED childVars
    PROVE  DownInv'
<1>1. /\ InstanceWrites(w) /\ Live(w)
      /\ worker[w].job \in {"starting", "stopping", "restarting"}
  BY InstanceEffect DEF InstanceWrites, Live
<1>2. /\ app.phase \in JobPhases[worker[w].job]
      /\ \A v \in Workers \ {w} : ~Live(v)
  BY <1>1, Alone
<1>3. \A v \in Workers \ {w} : worker'[v].job = "none"
  BY <1>1, <1>2 DEF InstanceWrites, Moves, Live
<1>4. app'.phase # app.phase => <<app.phase, app'.phase>> \in LifeCycle
  BY StepCycle DEF Step
<1>5. namespace = "Active"
  BY <1>1, <1>2, JobsPhases DEF CreationInv, Ready
<1>6. worker'[w].job \in {worker[w].job, "none"}
  BY <1>1 DEF InstanceWrites, Moves
<1>7. CASE worker[w].job = "starting"
  <2>1. app'.phase # "Stopped"
    BY <1>2, <1>4, <1>7, JobsPhases DEF LifeCycle
  <2> QED BY <1>3, <1>6, <1>7, <2>1 DEF DownInv
<1>8. CASE worker[w].job = "stopping"
  BY <1>2, <1>3, <1>5, <1>6, <1>8, StoppingKeeps, JobsPhases DEF DownInv
<1>9. CASE worker[w].job = "restarting" /\ app.phase = "Stopped"
  <2>1. active' \subseteq fresh'
    BY <1>1, <1>9 DEF InstanceWrites, DownInv
  <2>2. RestartingKnows(w)
    BY <1>9 DEF DownInv
  <2>3. \/ app'.phase = "Starting"
        \/ app'.phase = "Stopped" /\ worker'[w].job = "restarting" /\ RestartingKnows(w)'
    BY <1>5, <1>9, <2>2, RestartingKeeps
  <2> QED BY <1>3, <1>6, <1>9, <2>1, <2>3 DEF DownInv
<1>10. CASE worker[w].job = "restarting" /\ app.phase = "Started"
  <2>1. app'.phase # "Stopped"
    BY <1>4, <1>10 DEF LifeCycle
  <2> QED BY <1>3, <1>6, <1>10, <2>1 DEF DownInv
<1> QED BY <1>1, <1>2, <1>7, <1>8, <1>9, <1>10, JobsPhases

LEMMA DownStep ==
    ASSUME TypeOK, LockIsHeld, ~SlowHandlers, MaxFaults = 0, CreationInv, DownInv, [Next]_vars
    PROVE  DownInv'
<1> SUFFICES ASSUME app'.phase \notin Ending PROVE DownInv'
  BY DEF DownInv
<1>1. DocType /\ WorldType
  BY TypeParts
<1>2. app.phase \notin Ending
  BY <1>1, EndingStays
<1> USE DEF instanceVars, childVars, entryVars
<1>3. ASSUME NEW w \in Workers, ApplicationStep(w) PROVE DownInv'
  <2>1. ApplicationWrites(w) /\ Live(w) /\ worker[w].job \in {"creating", "deleting"}
    BY <1>1, <1>3, ApplicationEffect DEF ApplicationWrites, Live
  <2>2. app.phase = "Creating" /\ \A v \in Workers \ {w} : ~Live(v)
    BY <1>2, <2>1, Alone, JobsPhases DEF Ending
  <2>3. app'.phase # "Stopped"
    BY <1>1, <1>3, <2>2, StepCycle DEF Step, LifeCycle
  <2>4. \A v \in Workers : worker'[v].job # "stopping"
    BY <2>1, <2>2 DEF ApplicationWrites, Moves, Live
  <2> QED BY <2>3, <2>4 DEF DownInv
<1>4. ASSUME NEW w \in Workers, Claims(w) PROVE DownInv'
  <2>1. Claimed(w) /\ UNCHANGED <<instanceVars, childVars>>
    BY <1>1, <1>4, ClaimsEffect
  <2>2. \A v \in Workers : worker[v].job = "none"
    BY <1>2, <2>1, FreeIsIdle DEF Claimed, Live
  <2>3. /\ \A v \in Workers \ {w} : worker'[v].job = "none"
        /\ app'.phase = app.phase /\ worker'[w].i = 0
        /\ worker'[w].job = "restarting" => worker'[w].at = "ddbRestart"
        /\ worker'[w].job = "stopping" => worker'[w].at = "inactivate"
    BY <2>1, <2>2 DEF Claimed, FirstStep
  <2>4. app'.phase = "Stopped" => instance' = {} /\ active' \subseteq fresh'
    BY <1>2, <2>1, <2>2, <2>3 DEF DownInv
  <2>5. worker'[w].job = "stopping" => StoppingKnows(w)'
    BY <2>3 DEF StoppingKnows, AfterSwitchOff
  <2>6. app'.phase = "Stopped" /\ worker'[w].job = "restarting" => RestartingKnows(w)'
    BY <2>3, <2>4 DEF RestartingKnows
  <2> QED BY <2>3, <2>4, <2>5, <2>6 DEF DownInv
<1>5. ASSUME NEW w \in Workers, Throw(w) PROVE FALSE
  BY <1>1, <1>5 DEF Throw, WorldType
\* The handlers stay where they are, the instance too, and what is inserted is fresh.
<1>6. ASSUME worker' = worker, instance' = instance, active' \ fresh' \subseteq active \ fresh,
             app'.phase = "Stopped" => app.phase = "Stopped"
      PROVE  DownInv'
  <2>1. active \subseteq fresh => active' \subseteq fresh'
    BY <1>6
  <2>2. ASSUME NEW w \in Workers
        PROVE  /\ RestartingKnows(w) => RestartingKnows(w)'
               /\ StoppingKnows(w) => StoppingKnows(w)'
    BY <1>6, <2>1 DEF RestartingKnows, StoppingKnows
  <2> QED BY <1>2, <1>6, <2>1, <2>2 DEF DownInv
<1>7. CASE \/ Tick
           \/ LockExpires /\ UNCHANGED <<instanceVars, childVars>>
           \/ ApiNext /\ UNCHANGED <<instanceVars, childVars>>
           \/ UNCHANGED vars
  <2>1. /\ worker' = worker /\ UNCHANGED <<instanceVars, childVars>>
        /\ app'.phase = "Stopped" => app.phase = "Stopped"
    BY <1>1, <1>7, QuietEffect
  <2> QED BY <1>6, <2>1
<1>8. CASE Others
  <2>1. app' = app /\ worker' = worker
    BY <1>8, OthersEffect
  <2>2. namespace # "Terminating"
    BY <1>2 DEF CreationInv, Undisturbed
  <2>3. instance' = instance /\ active' \ fresh' \subseteq active \ fresh
    BY <1>8, <2>2
       DEF Others, ChildCreated, ChildRemoved, AdmitCreate, ServeCreate, NamespaceTerminated,
           DedicatedDatabaseTask
  <2> QED BY <1>6, <2>1, <2>3
<1> QED BY <1>1, <1>2, <1>3, <1>4, <1>5, <1>7, <1>8, InstanceKeepsDown DEF Next, Step

\* A stopped application has no deployment and no service, and nothing but what was added
\* since still routes to it, as long as handlers run to their end: the handler that sets
\* Stopped has switched everything off and has then seen an empty instance, and the one
\* handler that can fill it again, a restart, leaves the phase Stopped when it ends.
THEOREM StoppedDown ==
    ASSUME ~SlowHandlers, MaxFaults = 0
    PROVE  Spec => []StoppedIsDown
<1>1. Init => DownInv
  BY DEF Init, DocInit, DownInv, Idle
<1>2. TypeOK /\ LockIsHeld /\ CreationInv /\ DownInv /\ [Next]_vars => DownInv'
  BY DownStep
<1>3. DownInv => StoppedIsDown
  BY JobsPhases DEF DownInv, StoppedIsDown, Ending, Acting, Live
<1> QED BY <1>1, <1>2, <1>3, CreationKept, TypeCorrect, LockKept, PTL DEF Spec

-----------------------------------------------------------------------------
(* Deleted applications leave nothing *)

DeleteKinds == Kinds \cup {"DedicatedDatabase"}
Gone(k) == IF k = "DedicatedDatabase" THEN ~DdbExists ELSE child[k] = "absent" \/ k \in late
AllGone == namespace = "absent" /\ \A k \in DeleteKinds : Gone(k)

\* A deletion has looked for every kind up to where it is, and found nothing left of it.
DeletingKnows(w) ==
    /\ worker[w].at = "look" => \A j \in 1..worker[w].i : Gone(DeleteOrder[j])
    /\ worker[w].at = "conclude" => AllGone

DeletionInv ==
    /\ namespace = "absent" => instance = {}
    /\ \A w \in Workers : worker[w].job = "deleting" => DeletingKnows(w)
    /\ app.phase \in {"Deleted", "Removed"} => AllGone

\* The deletion looks for each kind once.
LEMMA DeleteOrderIs ==
    /\ Len(DeleteOrder) = 12
    /\ \A j \in 1..12 : DeleteOrder[j] \in DeleteKinds
    /\ \A k \in DeleteKinds : \E j \in 1..12 : DeleteOrder[j] = k
<1> DEFINE D == {DeleteOrder[1], DeleteOrder[2], DeleteOrder[3], DeleteOrder[4],
                 DeleteOrder[5], DeleteOrder[6], DeleteOrder[7], DeleteOrder[8],
                 DeleteOrder[9], DeleteOrder[10], DeleteOrder[11], DeleteOrder[12]}
<1>1. Len(DeleteOrder) = 12
  BY DEF DeleteOrder
<1>2. D = DeleteKinds
  BY DEF DeleteOrder, DeleteKinds, Kinds
<1>3. \A j \in 1..12 : DeleteOrder[j] \in D
  <2>1. \A j \in 1..12 : \/ j = 1 \/ j = 2 \/ j = 3 \/ j = 4 \/ j = 5 \/ j = 6
                         \/ j = 7 \/ j = 8 \/ j = 9 \/ j = 10 \/ j = 11 \/ j = 12
    OBVIOUS
  <2> HIDE DEF DeleteKinds
  <2> QED BY <2>1
<1>4. \A k \in D : \E j \in 1..12 : DeleteOrder[j] = k
  OBVIOUS
<1> HIDE DEF D
<1> QED BY <1>1, <1>2, <1>3, <1>4

\* The only handlers at work on an application whose deletion has begun.
LEMMA EndingJobs ==
    ASSUME LockIsHeld, ~SlowHandlers, DocType, NEW w \in Workers, Live(w)
    PROVE  /\ app.phase \in Ending => worker[w].job \in {"deleting", "restarting"}
           /\ worker[w].job = "deleting" => app.phase = "Deleting"
<1>1. worker[w].job \in Jobs
  BY DEF DocType, WorkerType, Live
<1> QED BY <1>1, JobsPhases DEF LockIsHeld, Acting, Ending, Jobs

\* What is gone stays gone: only requests still insert, and what they insert is late.
LEMMA GoneStays ==
    ASSUME DocType, WorldType, LockIsHeld, ~SlowHandlers, app.phase \in Ending, [Next]_vars
    PROVE  /\ \A k \in DeleteKinds : Gone(k) => Gone(k)'
           /\ namespace = "absent" => namespace' = "absent"
<1> USE DEF instanceVars, childVars, entryVars
<1>1. ASSUME UNCHANGED <<namespace, childVars>>, ~DdbExists => ddb' = ddb
      PROVE  /\ \A k \in DeleteKinds : Gone(k) => Gone(k)'
             /\ namespace = "absent" => namespace' = "absent"
  BY <1>1 DEF Gone, DdbExists
<1>2. ASSUME NEW w \in Workers, InstanceStep(w), UNCHANGED childVars
      PROVE  UNCHANGED <<namespace, childVars>> /\ (~DdbExists => ddb' = ddb)
  BY <1>2, InstanceEffect DEF InstanceWrites, DdbUpdateState
<1>3. ASSUME NEW w \in Workers, ApplicationStep(w)
      PROVE  /\ \A k \in DeleteKinds : Gone(k) => Gone(k)'
             /\ namespace = "absent" => namespace' = "absent"
  <2>1. ApplicationWrites(w) /\ Live(w)
    BY <1>3, ApplicationEffect DEF ApplicationWrites, Live
  <2>2. worker[w].job = "deleting"
    BY <2>1, EndingJobs DEF ApplicationWrites
  <2> HIDE DEF Kinds
  <2> QED BY <2>1, <2>2 DEF ApplicationWrites, Gone, DeleteKinds, DdbExists
<1>4. ASSUME NEW w \in Workers, Claims(w) PROVE UNCHANGED <<instanceVars, childVars>>
  BY <1>4, ClaimsEffect
<1>5. CASE \/ Tick
           \/ LockExpires /\ UNCHANGED <<instanceVars, childVars>>
           \/ ApiNext /\ UNCHANGED <<instanceVars, childVars>>
           \/ UNCHANGED vars
  BY <1>1, <1>5, QuietEffect
<1>6. ASSUME NEW k \in Kinds, ChildCreated(k) \/ ChildRemoved(k)
      PROVE  /\ \A l \in DeleteKinds : Gone(l) => Gone(l)'
             /\ namespace = "absent" => namespace' = "absent"
  <2> HIDE DEF Kinds
  <2> QED BY <1>6 DEF ChildCreated, ChildRemoved, WorldType, Gone, DeleteKinds, DdbExists
<1>7. ASSUME NEW k \in UserKinds, AdmitCreate(k)
      PROVE  UNCHANGED <<namespace, ddb, child, late>>
  BY <1>7 DEF AdmitCreate
<1>8. ASSUME NEW k \in UserKinds, ServeCreate(k)
      PROVE  /\ \A l \in DeleteKinds : Gone(l) => Gone(l)'
             /\ namespace = "absent" => namespace' = "absent"
  <2>1. late' = late \cup {k} /\ UNCHANGED <<namespace, ddb>>
    BY <1>8 DEF ServeCreate, Ending
  <2>2. \A l \in Kinds \ {k} : child'[l] = child[l]
    <3> HIDE DEF Kinds
    <3> QED BY <1>8 DEF ServeCreate, Insert, WorldType
  <2> HIDE DEF Kinds
  <2> QED BY <2>1, <2>2 DEF Gone, DeleteKinds, DdbExists
<1>9. CASE NamespaceTerminated
  BY <1>9 DEF NamespaceTerminated, Gone, DdbExists
<1>10. CASE DedicatedDatabaseTask
  <2>1. ~DdbExists => ddb' = ddb
    BY <1>10
       DEF DedicatedDatabaseTask, DdbTask, DdbMove, DdbStop, DdbStart, DdbDelete, DdbStopped,
           DdbDeleted, DdbStarted, DdbTimeout, DdbPurge, NoDdb, DdbStates, DdbPhases,
           DdbExists, WorldType
  <2> QED BY <1>1, <1>10, <2>1 DEF DedicatedDatabaseTask
<1>11. CASE Others
  BY <1>6, <1>7, <1>8, <1>9, <1>10, <1>11 DEF Others, Gone, DdbExists
<1> QED BY <1>1, <1>2, <1>3, <1>4, <1>5, <1>11 DEF Next, Step

\* Where a handler that deletes stands after a step of its own.
LEMMA DeletingKeeps ==
    ASSUME DocType, WorldType, NamespaceMode = "appid", NEW w \in Workers,
           worker[w].job = "deleting", DeletingKnows(w), ApplicationStep(w),
           \A k \in DeleteKinds : Gone(k) => Gone(k)'
    PROVE  /\ worker'[w].job = "deleting" => DeletingKnows(w)'
           /\ app'.phase = "Deleted" => app.phase = "Deleted" \/ AllGone
<1>1. worker[w] \in WorkerType /\ WorkerOK(worker[w])
  BY DEF DocType
<1>2. ASSUME app'.phase = app.phase, worker'[w].at \notin {"look", "conclude"}
      PROVE  /\ worker'[w].job = "deleting" => DeletingKnows(w)'
             /\ app'.phase = "Deleted" => app.phase = "Deleted" \/ AllGone
  BY <1>2 DEF DeletingKnows
<1> USE DEF DocType, AppType, WorkerType
<1>3. CASE DeletingSkip(w)
  <2> DEFINE i == worker[w].i
  <2>1. /\ worker[w].at = "look" /\ i \in Nat /\ i < 12
        /\ worker'[w].at = "look" /\ worker'[w].i = i + 1 /\ app' = app
        /\ ~Present(DeleteOrder[i + 1])
    BY <1>1, <1>3, DeleteOrderIs DEF DeletingSkip, At, NextKind
  <2>2. \A j \in 1..i : Gone(DeleteOrder[j])
    BY <2>1 DEF DeletingKnows
  <2>3. Gone(DeleteOrder[i + 1])
    BY <2>1 DEF Present, Gone
  <2>4. \A j \in 1..(i + 1) : Gone(DeleteOrder[j]) /\ DeleteOrder[j] \in DeleteKinds
    BY <2>1, <2>2, <2>3, DeleteOrderIs
  <2>5. ASSUME NEW j \in 1..(i + 1) PROVE Gone(DeleteOrder[j])'
    <3>1. PICK k \in DeleteKinds : k = DeleteOrder[j]
      BY <2>4
    <3>2. Gone(k)'
      BY <2>4, <3>1
    <3> QED BY <3>1, <3>2 DEF Gone
  <2> HIDE DEF i
  <2>6. DeletingKnows(w)'
    BY <2>1, <2>5 DEF DeletingKnows, Gone
  <2> QED BY <2>1, <2>6
<1>4. CASE DeletingRemove(w)
  BY <1>1, <1>2, <1>4 DEF DeletingRemove, Goto
<1>5. CASE DeletingRemoveDdb(w)
  BY <1>1, <1>2, <1>5 DEF DeletingRemoveDdb, Goto
<1>6. CASE DeletingReadNamespace(w)
  <2>1. /\ worker[w].at = "look" /\ worker[w].i = 12 /\ app' = app
        /\ UNCHANGED <<instanceVars, childVars>>
    BY <1>6, DeleteOrderIs DEF DeletingReadNamespace, At
  <2>2. \A k \in DeleteKinds : Gone(k)
    BY <2>1, DeleteOrderIs DEF DeletingKnows
  <2>3. CASE namespace = "absent"
    <3>1. worker'[w].at = "conclude"
      BY <1>1, <1>6, <2>3 DEF DeletingReadNamespace, Goto
    <3>2. AllGone'
      BY <2>1, <2>2, <2>3 DEF AllGone, instanceVars
    <3> QED BY <2>1, <3>1, <3>2 DEF DeletingKnows
  <2>4. CASE namespace # "absent"
    BY <1>1, <1>2, <1>6, <2>4 DEF DeletingReadNamespace, Goto
  <2> QED BY <2>3, <2>4
<1>7. CASE DeletingNamespace(w)
  BY <1>1, <1>2, <1>7 DEF DeletingNamespace, Goto, End, Idle
<1>8. CASE DeletingConclude(w)
  <2>1. worker'[w].job = "none" /\ worker[w].at = "conclude"
    BY <1>8 DEF DeletingConclude, End, Idle, At
  <2> QED BY <2>1 DEF DeletingKnows
<1>9. CASE Unlock(w)
  BY <1>2, <1>9 DEF Unlock, SetLock, End, Idle
<1> QED BY <1>3, <1>4, <1>5, <1>6, <1>7, <1>8, <1>9
        DEF ApplicationStep, CreatingReadNamespace, CreatingNamespace, CreatingSkip,
            CreatingFind, CreatingMissing, Finding, CreatingInsert, CreatingWait,
            CreatingConclude, At

\* The instance goes with its namespace, and comes back into no other.
LEMMA EmptyKept ==
    ASSUME DocType, namespace = "absent" => instance = {}, [Next]_vars
    PROVE  namespace' = "absent" => instance' = {}
<1> USE DEF instanceVars, childVars, entryVars
<1>1. ASSUME NEW w \in Workers, InstanceStep(w), UNCHANGED childVars
      PROVE  namespace' = "absent" => instance' = {}
  BY <1>1, InstanceEffect DEF InstanceWrites
<1>2. ASSUME NEW w \in Workers, ApplicationStep(w)
      PROVE  namespace' = "absent" => instance' = {} \/ namespace # "absent"
  BY <1>2, ApplicationEffect DEF ApplicationWrites
<1>3. ASSUME NEW w \in Workers, ApplicationStep(w), namespace # "absent"
      PROVE  namespace' # "absent"
  <2>1. CASE CreatingNamespace(w) \/ DeletingNamespace(w)
    BY <1>3, <2>1 DEF CreatingNamespace, DeletingNamespace
  <2>2. CASE ~CreatingNamespace(w) /\ ~DeletingNamespace(w)
    BY <1>3, <2>2
       DEF ApplicationStep, CreatingReadNamespace, CreatingSkip, CreatingFind, CreatingMissing,
           CreatingInsert, CreatingWait, CreatingConclude, DeletingSkip, DeletingRemove,
           DeletingRemoveDdb, DeletingReadNamespace, DeletingConclude
  <2> QED BY <2>1, <2>2
<1>4. ASSUME NEW w \in Workers, Claims(w) PROVE UNCHANGED <<instanceVars, childVars>>
  BY <1>4, ClaimsEffect
<1>5. CASE \/ Tick
           \/ LockExpires /\ UNCHANGED <<instanceVars, childVars>>
           \/ ApiNext /\ UNCHANGED <<instanceVars, childVars>>
           \/ UNCHANGED vars
  BY <1>5, QuietEffect
<1>6. CASE Others
  BY <1>6 DEF Others, ChildCreated, ChildRemoved, AdmitCreate, ServeCreate,
              NamespaceTerminated, DedicatedDatabaseTask
<1> QED BY <1>1, <1>2, <1>3, <1>4, <1>5, <1>6 DEF Next, Step

LEMMA DeletionStep ==
    ASSUME TypeOK, LockIsHeld, ~SlowHandlers, NamespaceMode = "appid", DeletionInv, [Next]_vars
    PROVE  DeletionInv'
<1>1. DocType /\ WorldType
  BY TypeParts
<1>2. namespace' = "absent" => instance' = {}
  BY <1>1, EmptyKept DEF DeletionInv
<1>3. app.phase \in Ending => /\ \A k \in DeleteKinds : Gone(k) => Gone(k)'
                              /\ namespace = "absent" => namespace' = "absent"
  BY <1>1, GoneStays
<1>4. app.phase \in Ending /\ AllGone => AllGone'
  BY <1>3 DEF AllGone
<1>5. ASSUME NEW w \in Workers, worker[w].job = "deleting"
      PROVE  app.phase = "Deleting" /\ DeletingKnows(w) /\ WorkerOK(worker[w])
  BY <1>1, <1>5, EndingJobs DEF Live, DeletionInv, DocType
<1>6. ASSUME NEW w \in Workers, worker[w].job = "deleting", worker'[w] = worker[w]
      PROVE  DeletingKnows(w)'
  <2>1. app.phase \in Ending /\ DeletingKnows(w) /\ WorkerOK(worker[w])
    BY <1>5, <1>6 DEF Ending
  <2>2. ASSUME worker[w].at = "look", NEW j \in 1..worker[w].i
        PROVE  Gone(DeleteOrder[j])'
    <3>1. j \in 1..12
      BY <2>1, <2>2, DeleteOrderIs DEF WorkerOK, WorkerType
    <3>2. PICK k \in DeleteKinds : k = DeleteOrder[j]
      BY <3>1, DeleteOrderIs
    <3>3. Gone(k)'
      BY <1>3, <2>1, <2>2, <3>2 DEF DeletingKnows
    <3> QED BY <3>2, <3>3 DEF Gone
  <2> QED BY <1>4, <1>6, <2>1, <2>2 DEF DeletingKnows, Gone
<1>7. ASSUME NEW w \in Workers, ApplicationStep(w) PROVE DeletionInv'
  <2>1. ApplicationWrites(w)
    BY <1>1, <1>7, ApplicationEffect
  <2>2. \A v \in Workers \ {w} : worker'[v].job = "deleting" => DeletingKnows(v)'
    BY <1>6, <2>1 DEF ApplicationWrites, Moves
  <2>3. CASE worker[w].job = "deleting"
    <3>1. /\ worker'[w].job = "deleting" => DeletingKnows(w)'
          /\ app'.phase = "Deleted" => app.phase = "Deleted" \/ AllGone
      BY <1>1, <1>3, <1>5, <1>7, <2>3, DeletingKeeps DEF Ending
    <3>2. app.phase = "Deleting"
      BY <1>5, <2>3
    <3>3. app'.phase = "Deleting" \/ app'.phase = "Deleted"
      BY <1>1, <1>7, <3>2, StepCycle DEF Step, LifeCycle
    <3> QED BY <1>2, <1>4, <2>2, <3>1, <3>2, <3>3 DEF DeletionInv, Ending
  <2>4. CASE worker[w].job = "creating"
    <3>1. worker'[w].job # "deleting" /\ Live(w)
      BY <2>1, <2>4 DEF ApplicationWrites, Moves, Live
    <3>2. app.phase \notin Ending
      BY <1>1, <2>4, <3>1, EndingJobs
    <3>3. app'.phase \notin {"Deleted", "Removed"}
      BY <1>1, <1>7, <3>2, StepCycle DEF Step, LifeCycle, Ending
    <3> QED BY <1>2, <2>2, <3>1, <3>3 DEF DeletionInv
  <2> QED BY <2>1, <2>3, <2>4 DEF ApplicationWrites
\* Steps of others, starts of handlers, and ticks.
<1>8. ASSUME \A w \in Workers : \/ worker'[w] = worker[w]
                                \/ worker'[w].job # "deleting"
                                \/ worker'[w].at = "look" /\ worker'[w].i = 0,
             app'.phase \in {"Deleted", "Removed"} => app.phase \in {"Deleted", "Removed"}
      PROVE  DeletionInv'
  <2>1. ASSUME NEW w \in Workers, worker'[w].job = "deleting"
        PROVE  DeletingKnows(w)'
    <3>1. CASE worker'[w] = worker[w]
      BY <1>6, <2>1, <3>1
    <3>2. CASE worker'[w].at = "look" /\ worker'[w].i = 0
      BY <3>2 DEF DeletingKnows
    <3> QED BY <1>8, <2>1, <3>1, <3>2
  <2>2. app'.phase \in {"Deleted", "Removed"} => AllGone'
    BY <1>4, <1>8 DEF DeletionInv, Ending
  <2> QED BY <1>2, <2>1, <2>2 DEF DeletionInv
<1>9. ASSUME NEW w \in Workers, InstanceStep(w), UNCHANGED childVars PROVE DeletionInv'
  <2>1. InstanceWrites(w)
    BY <1>1, <1>9, InstanceEffect
  <2>2. app'.phase # app.phase => app'.phase \notin {"Deleted", "Removed"}
    <3> USE DEF DocType, AppType
    <3>1. CASE StartTimeout(w) \/ StartConclude(w) \/ StopConclude(w) \/ RestartConclude(w)
      BY <1>1, <3>1 DEF StartTimeout, StartConclude, StopConclude, RestartConclude, WriteIfPhase
    <3>2. CASE InstanceRelock(w)
      BY <1>1, <3>2 DEF InstanceRelock, Relock, SetLock
    <3> QED BY <1>9, <3>1, <3>2
            DEF InstanceStep, StartReadDdb, StartDdbRun, CreateGet, CreateDeployment,
                CreateService, StartAvailable, StartUnavailable, StartActivate,
                StopInactivate, StopReadDdb, StopDdbStop, StopGet, StopRemove,
                StopRemoveDeployment, StopRemoveService, RestartDdb, RestartGet,
                RestartReplace
  <2> QED BY <1>8, <2>1, <2>2 DEF InstanceWrites, Moves
<1>10. ASSUME NEW w \in Workers, Claims(w) PROVE DeletionInv'
  <2>1. Claimed(w)
    BY <1>1, <1>10, ClaimsEffect
  <2>2. worker'[w].job = "deleting" => worker'[w].at = "look"
    BY <2>1 DEF Claimed, FirstStep
  <2> QED BY <1>8, <2>1, <2>2 DEF Claimed
<1>11. ASSUME NEW w \in Workers, Throw(w) PROVE DeletionInv'
  <2>1. worker'[w].job # "deleting"
    BY <1>1, <1>11, ThrowEffect DEF Idle
  <2> QED BY <1>1, <1>8, <1>11, <2>1, ThrowEffect
<1>12. CASE \/ Tick
            \/ LockExpires /\ UNCHANGED <<instanceVars, childVars>>
            \/ ApiNext /\ UNCHANGED <<instanceVars, childVars>>
            \/ UNCHANGED vars
  BY <1>1, <1>8, <1>12, QuietEffect
<1>13. CASE Others
  BY <1>8, <1>13, OthersEffect
<1> QED BY <1>7, <1>9, <1>10, <1>11, <1>12, <1>13 DEF Next, Step

\* When an application that has its own namespace is deleted, nothing it owned is left
\* behind: the handler that sets Deleted has found nothing of any kind, and nothing comes
\* back, although a restart may still be at work and requests still insert.
THEOREM DeletionComplete ==
    ASSUME ~SlowHandlers, NamespaceMode = "appid"
    PROVE  Spec => []DeletedLeavesNothing
<1>1. Init => DeletionInv
  BY DEF Init, DocInit, InstanceInit, DeletionInv, Idle
<1>2. TypeOK /\ LockIsHeld /\ DeletionInv /\ [Next]_vars => DeletionInv'
  BY DeletionStep
<1>3. DeletionInv => DeletedLeavesNothing
  BY DEF DeletionInv, AllGone, Gone, DeleteKinds, Kinds, DeletedLeavesNothing
<1> QED BY <1>1, <1>2, <1>3, TypeCorrect, LockKept, PTL DEF Spec

=============================================================================
