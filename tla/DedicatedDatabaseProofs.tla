----------------------- MODULE DedicatedDatabaseProofs -----------------------
(***************************************************************************)
(* DedicatedDatabase implements DedicatedDatabaseLifecycle, for every set  *)
(* of handlers, however slow or short-lived they are.                      *)
(***************************************************************************)
EXTENDS DedicatedDatabase, TLAPS

WorkerType == [job : Jobs \cup {"none"}, at : Steps, toState : DocStates]
LockType == Workers \cup {Free, Nobody}

\* The abstract life cycle has no start that ends as Deleted: a handler that starts has
\* never read a document wanted deleted, because remove() leaves phase Starting at once.
NoDeletedStart ==
    /\ doc.phase = "Starting" => doc.state # "Deleted"
    /\ \A w \in Workers : worker[w].job = "starting" => worker[w].toState # "Deleted"

DdbInv ==
    /\ doc \in [state : DocStates, phase : DocPhases, lock : LockType]
    /\ worker \in [Workers -> WorkerType]
    /\ NoDeletedStart

ddbBar == [state |-> doc.state, phase |-> doc.phase]

LEMMA InitInv == Init => DdbInv
  BY DEF Init, DdbInv, NoDeletedStart, DocStates, DocPhases, LockType, WorkerType, Jobs, Steps, Idle

\* Every way the handlers' records change.
LEMMA WorkerUpdate ==
  ASSUME worker \in [Workers -> WorkerType], NEW w \in Workers, NEW r \in WorkerType,
         worker' = [worker EXCEPT ![w] = r]
  PROVE  /\ worker' \in [Workers -> WorkerType]
         /\ worker'[w] = r
         /\ \A v \in Workers \ {w} : worker'[v] = worker[v]
  OBVIOUS

LEMMA GotoKeeps ==
  ASSUME DdbInv, NEW w \in Workers, NEW s \in Steps, Goto(w, s)
  PROVE  /\ worker' \in [Workers -> WorkerType]
         /\ \A v \in Workers : worker'[v].job = worker[v].job /\ worker'[v].toState = worker[v].toState
  BY DEF Goto, DdbInv, WorkerType

LEMMA EndKeeps ==
  ASSUME DdbInv, NEW w \in Workers, End(w)
  PROVE  /\ worker' \in [Workers -> WorkerType]
         /\ \A v \in Workers : worker'[v] = worker[v] \/ worker'[v].job # "starting"
<1>1. Idle \in WorkerType /\ Idle.job # "starting"
  BY DEF Idle, WorkerType, Jobs, Steps, DocStates
<1> QED  BY <1>1 DEF End, DdbInv

\* An action that leaves state and phase alone is a stutter of the life cycle.
LEMMA Stutter ==
  ASSUME DdbInv, worker' \in [Workers -> WorkerType],
         \A v \in Workers : \/ worker'[v].job # "starting"
                            \/ worker'[v].job = worker[v].job /\ worker'[v].toState = worker[v].toState
                            \/ doc.phase = "Starting" /\ worker'[v].toState = doc.state,
         \/ doc' = doc
         \/ \E l \in LockType : doc' = [doc EXCEPT !.lock = l]
  PROVE  DdbInv' /\ UNCHANGED ddbBar
<1>1. /\ doc' \in [state : DocStates, phase : DocPhases, lock : LockType]
      /\ doc'.state = doc.state
      /\ doc'.phase = doc.phase
  BY DEF DdbInv
<1> QED  BY <1>1 DEF DdbInv, NoDeletedStart, ddbBar

\* Every other action gives state and phase new values and ends or leaves its handler.
LEMMA Write ==
  ASSUME DdbInv, worker' \in [Workers -> WorkerType],
         \A v \in Workers : worker'[v] = worker[v] \/ worker'[v].job # "starting",
         NEW s \in DocStates, NEW p \in DocPhases, NEW l \in LockType,
         doc' = [state |-> s, phase |-> p, lock |-> l],
         p = "Starting" => s # "Deleted"
  PROVE  DdbInv' /\ ddbBar' = [state |-> s, phase |-> p]
BY DEF DdbInv, NoDeletedStart, ddbBar

LEMMA WriteIf ==
  ASSUME DdbInv, NEW w \in Workers, End(w),
         NEW from \in DocPhases, NEW s \in DocStates, NEW p \in DocPhases \ {"Starting"},
         WriteIfPhase(from, s, p)
  PROVE  /\ DdbInv'
         /\ \/ UNCHANGED ddbBar
            \/ doc.phase = from /\ ddbBar' = [state |-> s, phase |-> p]
<1>1. worker' \in [Workers -> WorkerType]
  BY EndKeeps
<1>2. \A v \in Workers : worker'[v] = worker[v] \/ worker'[v].job # "starting"
  BY EndKeeps
<1>3. CASE doc.phase = from
  <2>1. doc' = [state |-> s, phase |-> p, lock |-> Free]
    BY <1>3 DEF WriteIfPhase
  <2> QED  BY <1>1, <1>2, <1>3, <2>1, Write DEF LockType
<1>4. CASE doc.phase # from
  <2>1. doc' = doc
    BY <1>4 DEF WriteIfPhase
  <2> QED  BY <1>1, <1>2, <2>1, Stutter
<1> QED  BY <1>3, <1>4

-----------------------------------------------------------------------------

LEMMA GotoStep ==
  ASSUME DdbInv, NEW w \in Workers, NEW s \in Steps, Goto(w, s), UNCHANGED doc
  PROVE  DdbInv' /\ UNCHANGED ddbBar
BY GotoKeeps, Stutter

LEMMA EndStep ==
  ASSUME DdbInv, NEW w \in Workers, End(w), UNCHANGED doc
  PROVE  DdbInv' /\ UNCHANGED ddbBar
BY EndKeeps, Stutter

LEMMA RelockStep ==
  ASSUME DdbInv, NEW w \in Workers, NEW s \in Steps, Relock(w, s)
  PROVE  DdbInv' /\ UNCHANGED ddbBar
<1>1. doc' = doc \/ \E l \in LockType : doc' = [doc EXCEPT !.lock = l]
  BY DEF Relock, LockType
<1>2. CASE s = "idle"
  <2>1. End(w)
    BY <1>2 DEF Relock
  <2> QED  BY <1>1, <2>1, EndKeeps, Stutter
<1>3. CASE s # "idle"
  <2>1. Goto(w, s)
    BY <1>3 DEF Relock
  <2> QED  BY <1>1, <2>1, GotoKeeps, Stutter
<1> QED  BY <1>2, <1>3

\* The claim is where a handler reads the state it may write minutes later.
LEMMA ClaimStep ==
  ASSUME DdbInv, NEW w \in Workers, NEW job \in Jobs, Claim(w, job)
  PROVE  DdbInv' /\ UNCHANGED ddbBar
<1> DEFINE r == [job |-> job, at |-> "get", toState |-> doc.state]
<1>1. doc.state \in DocStates
  BY DEF DdbInv
<1>2. r \in WorkerType
  BY <1>1 DEF WorkerType, Steps
<1>3. worker' = [worker EXCEPT ![w] = r]
  BY DEF Claim
<1> HIDE DEF r
<1>4. /\ worker' \in [Workers -> WorkerType]
      /\ worker'[w] = r
      /\ \A v \in Workers \ {w} : worker'[v] = worker[v]
  BY <1>2, <1>3 DEF DdbInv
<1>5. r.job = "starting" => doc.phase = "Starting"
  BY DEF r, Claim, JobPhase
<1>6. r.toState = doc.state
  BY DEF r
<1>7. \A v \in Workers : \/ worker'[v].job # "starting"
                         \/ worker'[v].job = worker[v].job /\ worker'[v].toState = worker[v].toState
                         \/ doc.phase = "Starting" /\ worker'[v].toState = doc.state
  BY <1>4, <1>5, <1>6
<1>8. \E l \in LockType : doc' = [doc EXCEPT !.lock = l]
  BY DEF Claim, LockType
<1> QED  BY <1>4, <1>7, <1>8, Stutter

\* What the cron handlers do: they keep the state, and never start what is wanted deleted.
LEMMA MoveStep ==
  ASSUME DdbInv, NEW s \in DocStates, NEW from, NEW p \in DocPhases, Move(s, from, p),
         p = "Starting" => s # "Deleted"
  PROVE  /\ DdbInv'
         /\ doc.state = s /\ doc.phase \in from
         /\ ddbBar' = [state |-> s, phase |-> p]
<1>1. doc' = [state |-> s, phase |-> p, lock |-> Free]
  BY DEF Move, DdbInv
<1>2. Free \in LockType
  BY DEF LockType
<1>3. worker' = worker /\ worker \in [Workers -> WorkerType]
  BY DEF Move, DdbInv
<1>4. DdbInv' /\ ddbBar' = [state |-> s, phase |-> p]
  BY <1>1, <1>2, <1>3, Write
<1> QED  BY <1>4 DEF Move

-----------------------------------------------------------------------------

LEMMA AbstractMove ==
  ASSUME NEW states, NEW from, NEW p, doc.state \in states, doc.phase \in from,
         ddbBar' = [state |-> doc.state, phase |-> p]
  PROVE  Lifecycle!DdbMove(states, from, p)
BY DEF Lifecycle!DdbMove, ddbBar

LEMMA StartingSteps ==
  ASSUME DdbInv, NEW w \in Workers,
         \/ StartingGet(w) \/ StartingApply(w) \/ StartingTimeout(w) \/ StartingUnavailable(w)
         \/ StartingAvailable(w) \/ StartingConclude(w) \/ StartingRelock(w)
  PROVE  DdbInv' /\ [Lifecycle!DdbNext]_ddbBar
<1> USE DEF Steps
<1>1. CASE StartingGet(w)
  BY <1>1, GotoStep DEF StartingGet
<1>2. CASE StartingApply(w)
  BY <1>2, GotoStep DEF StartingApply
<1>3. CASE StartingTimeout(w)
  <2>1. /\ DdbInv'
        /\ \/ UNCHANGED ddbBar
           \/ doc.phase = "Starting" /\ ddbBar' = [state |-> "Stopped", phase |-> "Stopping"]
    BY <1>3, WriteIf DEF StartingTimeout, DocStates, DocPhases
  <2>2. CASE doc.phase = "Starting" /\ ddbBar' = [state |-> "Stopped", phase |-> "Stopping"]
    <3>1. Lifecycle!DdbTimeout
      BY <2>2 DEF Lifecycle!DdbTimeout, ddbBar
    <3> QED  BY <2>1, <3>1 DEF Lifecycle!DdbNext, Lifecycle!DdbTask
  <2> QED  BY <2>1, <2>2
<1>4. CASE StartingUnavailable(w)
  BY <1>4, GotoStep DEF StartingUnavailable
<1>5. CASE StartingAvailable(w)
  BY <1>5, GotoStep DEF StartingAvailable
<1>6. CASE StartingConclude(w)
  <2> DEFINE s == IF worker[w].toState = "Restarting" THEN "Running" ELSE worker[w].toState
  <2>1. s \in {"Running", "Stopped"}
    BY <1>6 DEF DdbInv, NoDeletedStart, WorkerType, DocStates, StartingConclude, At
  <2>2. WriteIfPhase("Starting", s, "Started") /\ End(w)
    BY <1>6 DEF StartingConclude
  <2> HIDE DEF s
  <2>3. s \in DocStates /\ "Starting" \in DocPhases /\ "Started" \in DocPhases \ {"Starting"}
    BY <2>1 DEF DocStates, DocPhases
  <2>4. /\ DdbInv'
        /\ \/ UNCHANGED ddbBar
           \/ doc.phase = "Starting" /\ ddbBar' = [state |-> s, phase |-> "Started"]
    BY <2>2, <2>3, WriteIf
  <2>5. CASE doc.phase = "Starting" /\ ddbBar' = [state |-> s, phase |-> "Started"]
    <3>1. Lifecycle!DdbStarted
      BY <2>1, <2>5 DEF Lifecycle!DdbStarted, ddbBar
    <3> QED  BY <2>4, <3>1 DEF Lifecycle!DdbNext, Lifecycle!DdbTask
  <2> QED  BY <2>4, <2>5
<1>7. CASE StartingRelock(w)
  BY <1>7, RelockStep DEF StartingRelock
<1> QED  BY <1>1, <1>2, <1>3, <1>4, <1>5, <1>6, <1>7

LEMMA StoppingSteps ==
  ASSUME DdbInv, NEW w \in Workers,
         StoppingGet(w) \/ StoppingScale(w) \/ StoppingConclude(w) \/ StoppingRelock(w)
  PROVE  DdbInv' /\ [Lifecycle!DdbNext]_ddbBar
<1> USE DEF Steps
<1>1. CASE StoppingGet(w)
  BY <1>1, GotoStep DEF StoppingGet
<1>2. CASE StoppingScale(w)
  BY <1>2, GotoStep DEF StoppingScale
<1>3. CASE StoppingConclude(w)
  <2>1. /\ DdbInv'
        /\ \/ UNCHANGED ddbBar
           \/ doc.phase = "Stopping" /\ ddbBar' = [state |-> doc.state, phase |-> "Stopped"]
    BY <1>3, WriteIf DEF StoppingConclude, DocPhases, DdbInv
  <2>2. CASE doc.phase = "Stopping" /\ ddbBar' = [state |-> doc.state, phase |-> "Stopped"]
    <3>1. Lifecycle!DdbStopped
      BY <2>2, AbstractMove DEF Lifecycle!DdbStopped, Lifecycle!DdbStates, DdbInv, DocStates
    <3> QED  BY <2>1, <3>1 DEF Lifecycle!DdbNext, Lifecycle!DdbTask
  <2> QED  BY <2>1, <2>2
<1>4. CASE StoppingRelock(w)
  BY <1>4, RelockStep DEF StoppingRelock
<1> QED  BY <1>1, <1>2, <1>3, <1>4

LEMMA DeletingSteps ==
  ASSUME DdbInv, NEW w \in Workers,
         DeletingGet(w) \/ DeletingDelete(w) \/ DeletingConclude(w) \/ DeletingRelock(w)
  PROVE  DdbInv' /\ [Lifecycle!DdbNext]_ddbBar
<1> USE DEF Steps
<1>1. CASE DeletingGet(w)
  BY <1>1, GotoStep DEF DeletingGet
<1>2. CASE DeletingDelete(w)
  <2>1. UNCHANGED doc /\ (End(w) \/ Goto(w, "relock"))
    BY <1>2 DEF DeletingDelete
  <2> QED  BY <2>1, GotoStep, EndStep
<1>3. CASE DeletingConclude(w)
  <2>1. /\ DdbInv'
        /\ \/ UNCHANGED ddbBar
           \/ doc.phase = "Deleting" /\ ddbBar' = [state |-> doc.state, phase |-> "Deleted"]
    BY <1>3, WriteIf DEF DeletingConclude, DocPhases, DdbInv
  <2>2. CASE doc.phase = "Deleting" /\ ddbBar' = [state |-> doc.state, phase |-> "Deleted"]
    <3>1. Lifecycle!DdbDeleted
      BY <2>2, AbstractMove DEF Lifecycle!DdbDeleted, Lifecycle!DdbStates, DdbInv, DocStates
    <3> QED  BY <2>1, <3>1 DEF Lifecycle!DdbNext, Lifecycle!DdbTask
  <2> QED  BY <2>1, <2>2
<1>4. CASE DeletingRelock(w)
  BY <1>4, RelockStep DEF DeletingRelock
<1> QED  BY <1>1, <1>2, <1>3, <1>4

LEMMA TickSteps ==
  ASSUME DdbInv, Tick
  PROVE  DdbInv' /\ [Lifecycle!DdbNext]_ddbBar
<1> USE DEF DocStates, DocPhases, Lifecycle!DdbNext, Lifecycle!DdbTask
<1>1. CASE HandleDeletedState
  <2>1. DdbInv' /\ Lifecycle!DdbDelete
    BY <1>1, MoveStep, AbstractMove DEF HandleDeletedState, Lifecycle!DdbDelete
  <2> QED  BY <2>1
<1>2. CASE HandleStoppedState
  <2>1. DdbInv' /\ Lifecycle!DdbStop
    BY <1>2, MoveStep, AbstractMove DEF HandleStoppedState, Lifecycle!DdbStop
  <2> QED  BY <2>1
<1>3. CASE HandleRunningState
  <2>1. DdbInv' /\ Lifecycle!DdbStart
    BY <1>3, MoveStep, AbstractMove DEF HandleRunningState, Lifecycle!DdbStart
  <2> QED  BY <2>1
<1>4. CASE HandleRestartingState
  <2>1. CASE Move("Restarting", {"Started"}, "Stopping")
    <3>1. DdbInv' /\ Lifecycle!DdbStop
      BY <2>1, MoveStep, AbstractMove DEF Lifecycle!DdbStop
    <3> QED  BY <3>1
  <2>2. CASE Move("Restarting", {"Stopped"}, "Starting")
    <3>1. DdbInv' /\ Lifecycle!DdbStart
      BY <2>2, MoveStep, AbstractMove DEF Lifecycle!DdbStart
    <3> QED  BY <3>1
  <2> QED  BY <1>4, <2>1, <2>2 DEF HandleRestartingState
<1>5. CASE Purge
  <2>1. doc' = [state |-> "Deleted", phase |-> "None", lock |-> Free] /\ Free \in LockType
    BY <1>5 DEF Purge, DdbInv, LockType
  <2>2. worker' = worker /\ worker \in [Workers -> WorkerType]
    BY <1>5 DEF Purge, DdbInv
  <2>3. DdbInv' /\ ddbBar' = [state |-> "Deleted", phase |-> "None"]
    BY <2>1, <2>2, Write
  <2>4. Lifecycle!DdbPurge
    BY <1>5, <2>3 DEF Purge, Lifecycle!DdbPurge, Lifecycle!NoDdb, ddbBar
  <2> QED  BY <2>3, <2>4
<1> QED  BY <1>1, <1>2, <1>3, <1>4, <1>5 DEF Tick

LEMMA ServiceSteps ==
  ASSUME DdbInv,
         (\E s \in {"Running", "Stopped", "Restarting"} : UpdateState(s)) \/ Remove
  PROVE  DdbInv' /\ [Lifecycle!DdbNext]_ddbBar
<1> USE DEF Lifecycle!DdbNext
<1>1. ASSUME NEW s \in {"Running", "Stopped", "Restarting"}, UpdateState(s)
      PROVE  DdbInv' /\ [Lifecycle!DdbNext]_ddbBar
  <2>1. doc' = [state |-> s, phase |-> doc.phase, lock |-> doc.lock]
    BY <1>1 DEF UpdateState, DdbInv
  <2>2. doc.phase \in DocPhases /\ doc.lock \in LockType /\ s \in DocStates /\ s # "Deleted"
    BY DEF DdbInv, DocStates
  <2>3. worker' = worker /\ worker \in [Workers -> WorkerType]
    BY <1>1 DEF UpdateState, DdbInv
  <2>4. DdbInv' /\ ddbBar' = [state |-> s, phase |-> doc.phase]
    BY <2>1, <2>2, <2>3, Write
  <2>5. Lifecycle!DdbUpdateState(s)
    BY <1>1, <2>4 DEF UpdateState, Exists, Lifecycle!DdbUpdateState, Lifecycle!DdbExists, ddbBar
  <2>6. s \in Lifecycle!DdbStates \ {"Deleted"}
    BY <2>2 DEF Lifecycle!DdbStates, DocStates
  <2> QED  BY <2>4, <2>5, <2>6
<1>2. ASSUME Remove
      PROVE  DdbInv' /\ [Lifecycle!DdbNext]_ddbBar
  <2>1. doc' = [state |-> "Deleted", phase |-> "Deleting", lock |-> doc.lock]
    BY <1>2 DEF Remove, DdbInv
  <2>2. doc.lock \in LockType /\ "Deleted" \in DocStates /\ "Deleting" \in DocPhases
    BY DEF DdbInv, DocStates, DocPhases
  <2>3. worker' = worker /\ worker \in [Workers -> WorkerType]
    BY <1>2 DEF Remove, DdbInv
  <2>4. DdbInv' /\ ddbBar' = [state |-> "Deleted", phase |-> "Deleting"]
    BY <2>1, <2>2, <2>3, Write
  <2>5. Lifecycle!DdbRemove
    BY <1>2, <2>4 DEF Remove, Exists, Lifecycle!DdbRemove, Lifecycle!DdbExists, ddbBar
  <2> QED  BY <2>4, <2>5
<1> QED  BY <1>1, <1>2

\* The cluster, a handler that dies and a lock that expires are not seen.
LEMMA HiddenSteps ==
  ASSUME DdbInv, Terminated \/ LockExpires \/ (\E w \in Workers : Throw(w) \/ ApplyFails(w))
  PROVE  DdbInv' /\ UNCHANGED ddbBar
<1>1. CASE Terminated \/ LockExpires
  <2>1. worker' = worker /\ worker \in [Workers -> WorkerType]
    BY <1>1 DEF Terminated, LockExpires, DdbInv
  <2>2. doc' = doc \/ \E l \in LockType : doc' = [doc EXCEPT !.lock = l]
    BY <1>1 DEF Terminated, LockExpires, LockType
  <2> QED  BY <2>1, <2>2, Stutter
<1>2. ASSUME NEW w \in Workers, Throw(w) \/ ApplyFails(w)
      PROVE  DdbInv' /\ UNCHANGED ddbBar
  BY <1>2, EndStep DEF Throw, ApplyFails
<1> QED  BY <1>1, <1>2

LEMMA StepImplements == DdbInv /\ [Next]_vars => DdbInv' /\ [Lifecycle!DdbNext]_ddbBar
<1> SUFFICES ASSUME DdbInv, [Next]_vars
             PROVE  DdbInv' /\ [Lifecycle!DdbNext]_ddbBar
  OBVIOUS
<1>1. CASE \E w \in Workers : Step(w)
  BY <1>1, StartingSteps, StoppingSteps, DeletingSteps, HiddenSteps DEF Step
<1>2. CASE \E w \in Workers : Throw(w)
  BY <1>2, HiddenSteps
<1>3. CASE \E w \in Workers, job \in Jobs : Claim(w, job)
  BY <1>3, ClaimStep
<1>4. CASE Tick
  BY <1>4, TickSteps
<1>5. CASE (\E s \in {"Running", "Stopped", "Restarting"} : UpdateState(s)) \/ Remove
  BY <1>5, ServiceSteps
<1>6. CASE Terminated \/ LockExpires
  BY <1>6, HiddenSteps
<1>7. CASE UNCHANGED vars
  BY <1>7, Stutter DEF vars, taskVars, DdbInv
<1>8. CASE \E w \in Workers : ReadFails(w)
  BY <1>8, GotoStep DEF ReadFails, Steps
<1> QED  BY <1>1, <1>2, <1>3, <1>4, <1>5, <1>6, <1>7, <1>8 DEF Next, Act

\* The task of dedicated databases implements the life cycle the application's handlers
\* rely on (ImplementsLifecycle): whatever overlaps, dies or comes late, state and phase
\* of the document make no other move, which is why Application.tla may use it in place
\* of the task.
THEOREM LifecycleImplemented == Spec => ImplementsLifecycle
<1>1. Init => Lifecycle!DdbInit
  BY DEF Init, Lifecycle!DdbInit
<1> QED
  BY <1>1, InitInv, StepImplements, PTL
     DEF Spec, ImplementsLifecycle, Lifecycle!DdbSpec, ddbBar

-----------------------------------------------------------------------------
(* Types, and the steps of each job *)

ManifestType == [is : {"absent", "there", "terminating"}, up : BOOLEAN]

StepInv ==
    /\ \A w \in Workers : worker[w].at \in StepsOf[worker[w].job]
    /\ manifest \in ManifestType
    /\ manifest.is = "absent" => manifest = Absent
    /\ faults \in 0..MaxFaults

LEMMA InitSteps == Init => StepInv
BY DdbBoundAssumption DEF Init, StepInv, StepsOf, Idle, Absent, ManifestType

LEMMA GotoInJob ==
  ASSUME DdbInv, StepInv, NEW w \in Workers, NEW s \in StepsOf[worker[w].job], Goto(w, s)
  PROVE  \A v \in Workers : worker'[v].at \in StepsOf[worker'[v].job]
BY DEF Goto, DdbInv, WorkerType, StepInv

LEMMA EndInJob ==
  ASSUME DdbInv, StepInv, NEW w \in Workers, End(w)
  PROVE  \A v \in Workers : worker'[v].at \in StepsOf[worker'[v].job]
<1>1. /\ worker' \in [Workers -> WorkerType] /\ worker'[w] = Idle
      /\ \A v \in Workers \ {w} : worker'[v] = worker[v]
  BY DEF End, DdbInv, WorkerType, Idle, Jobs, Steps, DocStates
<1>2. Idle.at \in StepsOf[Idle.job]
  BY DEF Idle, StepsOf
<1> QED  BY <1>1, <1>2 DEF StepInv

LEMMA ManifestSteps ==
  ASSUME StepInv
  PROVE  /\ \A up \in BOOLEAN : Apply(up) =>
              manifest' \in ManifestType /\ (manifest'.is = "absent" => manifest' = Absent)
         /\ manifest # Absent /\ manifest' = [manifest EXCEPT !.is = "terminating"] =>
              manifest' \in ManifestType /\ (manifest'.is = "absent" => manifest' = Absent)
         /\ manifest' = Absent => manifest' \in ManifestType
<1>1. ASSUME NEW up \in BOOLEAN, Apply(up)
      PROVE  manifest' \in ManifestType /\ (manifest'.is = "absent" => manifest' = Absent)
  <2> DEFINE is == IF manifest = Absent THEN "there" ELSE manifest.is
  <2>1. is \in {"there", "terminating"}
    BY DEF StepInv, ManifestType
  <2>2. manifest' = [is |-> is, up |-> up]
    BY <1>1 DEF Apply
  <2> HIDE DEF is
  <2> QED  BY <2>1, <2>2 DEF ManifestType
<1>2. ASSUME manifest # Absent, manifest' = [manifest EXCEPT !.is = "terminating"]
      PROVE  manifest' \in ManifestType /\ manifest'.is # "absent"
  BY <1>2 DEF StepInv, ManifestType
<1>3. Absent \in ManifestType
  BY DEF Absent, ManifestType
<1> QED  BY <1>1, <1>2, <1>3

LEMMA StepsKept == DdbInv /\ StepInv /\ [Next]_vars => StepInv'
<1> SUFFICES ASSUME DdbInv, StepInv, [Next]_vars PROVE StepInv'
  OBVIOUS
<1> DEFINE InJob == \A v \in Workers : worker'[v].at \in StepsOf[worker'[v].job]
<1>0. ASSUME InJob, UNCHANGED <<manifest, faults>> PROVE StepInv'
  BY <1>0 DEF StepInv
<1>1. ASSUME NEW w \in Workers, Step(w) PROVE StepInv'
  <2>1. faults' = faults
    BY <1>1 DEF Step, StartingGet, StartingApply, StartingTimeout, StartingUnavailable,
                StartingAvailable, StartingConclude, StartingRelock, StoppingGet, StoppingScale,
                StoppingConclude, StoppingRelock, DeletingGet, DeletingDelete, DeletingConclude,
                DeletingRelock, ApplyFails, Relock
  <2>2. InJob
    <3> USE DEF At, StepsOf
    <3>1. CASE StartingGet(w) \/ StoppingGet(w) \/ DeletingGet(w)
      BY <3>1, GotoInJob DEF StartingGet, StoppingGet, DeletingGet
    <3>2. CASE StartingApply(w) \/ StoppingScale(w)
      <4>1. CASE StartingApply(w)
        BY <4>1, GotoInJob DEF StartingApply
      <4>2. CASE StoppingScale(w)
        BY <4>2, GotoInJob DEF StoppingScale
      <4> QED  BY <3>2, <4>1, <4>2
    <3>3. CASE StartingTimeout(w) \/ StartingConclude(w) \/ StoppingConclude(w) \/ DeletingConclude(w)
      BY <3>3, EndInJob DEF StartingTimeout, StartingConclude, StoppingConclude, DeletingConclude
    <3>4. CASE StartingUnavailable(w) \/ StartingAvailable(w)
      BY <3>4, GotoInJob DEF StartingUnavailable, StartingAvailable
    <3>5. CASE StartingRelock(w)
      BY <3>5, EndInJob DEF StartingRelock, Relock
    <3>6. CASE StoppingRelock(w) \/ DeletingRelock(w)
      BY <3>6, GotoInJob DEF StoppingRelock, DeletingRelock, Relock
    <3>7. CASE DeletingDelete(w)
      BY <3>7, GotoInJob, EndInJob DEF DeletingDelete
    <3>8. CASE ApplyFails(w)
      BY <3>8, EndInJob DEF ApplyFails
    <3> QED  BY <1>1, <3>1, <3>2, <3>3, <3>4, <3>5, <3>6, <3>7, <3>8 DEF Step
  <2>3. manifest' \in ManifestType /\ (manifest'.is = "absent" => manifest' = Absent)
    <3>1. CASE UNCHANGED manifest
      BY <3>1 DEF StepInv
    <3>2. CASE StartingApply(w) \/ StoppingScale(w)
      BY <3>2, ManifestSteps DEF StartingApply, StoppingScale
    <3>3. CASE DeletingDelete(w)
      BY <3>1, <3>3, ManifestSteps DEF DeletingDelete
    <3> QED
      BY <1>1, <3>1, <3>2, <3>3
         DEF Step, StartingGet, StartingTimeout, StartingUnavailable, StartingAvailable,
             StartingConclude, StartingRelock, StoppingGet, StoppingConclude, StoppingRelock,
             DeletingGet, DeletingConclude, DeletingRelock, ApplyFails, Relock
  <2> QED  BY <2>1, <2>2, <2>3 DEF StepInv
<1>2. ASSUME NEW w \in Workers, Throw(w) PROVE StepInv'
  <2>1. InJob /\ manifest' = manifest
    BY <1>2, EndInJob DEF Throw
  <2>2. faults' \in 0..MaxFaults
    BY <1>2, DdbBoundAssumption DEF Throw, StepInv
  <2> QED  BY <2>1, <2>2 DEF StepInv
<1>3. ASSUME NEW w \in Workers, NEW job \in Jobs, Claim(w, job) PROVE StepInv'
  <2> DEFINE r == [job |-> job, at |-> "get", toState |-> doc.state]
  <2>1. r.at \in StepsOf[r.job]
    BY DEF Jobs, StepsOf
  <2>2. worker' = [worker EXCEPT ![w] = r] /\ UNCHANGED <<manifest, faults>>
    BY <1>3 DEF Claim
  <2> HIDE DEF r
  <2>3. InJob
    BY <2>1, <2>2 DEF StepInv, DdbInv
  <2> QED  BY <1>0, <2>2, <2>3
<1>4. CASE UNCHANGED worker /\ UNCHANGED <<manifest, faults>>
  BY <1>4 DEF StepInv
<1>5. CASE Terminated
  BY <1>5, ManifestSteps DEF Terminated, StepInv
<1>6. CASE Tick
  BY <1>4, <1>6 DEF Tick, HandleDeletedState, HandleStoppedState, HandleRunningState,
                    HandleRestartingState, Purge, Move
<1>7. CASE LockExpires \/ Remove \/ \E s \in {"Running", "Stopped", "Restarting"} : UpdateState(s)
  BY <1>4, <1>7 DEF LockExpires, Remove, UpdateState
<1>8. CASE UNCHANGED vars
  BY <1>4, <1>8 DEF vars, taskVars
<1>9. ASSUME NEW w \in Workers, ReadFails(w) PROVE StepInv'
  <2> DEFINE s == IF worker[w].job = "starting" THEN "apply" ELSE "conclude"
  <2>1. worker[w].at = "get" /\ worker[w].at \in StepsOf[worker[w].job] /\ worker[w].job \in Jobs \cup {"none"}
    BY <1>9 DEF ReadFails, StepInv, DdbInv, WorkerType
  <2>2. s \in StepsOf[worker[w].job] /\ s \in Steps
    BY <2>1 DEF Jobs, Steps, StepsOf
  <2>3. Goto(w, s) /\ UNCHANGED <<manifest, faults>>
    BY <1>9 DEF ReadFails
  <2> HIDE DEF s
  <2> QED  BY <1>0, <2>2, <2>3, GotoInJob
<1> QED  BY <1>1, <1>2, <1>3, <1>5, <1>6, <1>7, <1>8, <1>9 DEF Next, Act

\* The document, the handlers and the manifest keep their types, and no handler leaves the
\* steps of its job, however handlers overlap and locks expire.
THEOREM TypeCorrect == Spec => []TypeOK
<1>1. Init => DdbInv /\ StepInv
  BY InitInv, InitSteps
<1>2. DdbInv /\ StepInv /\ [Next]_vars => (DdbInv /\ StepInv)'
  BY StepImplements, StepsKept
<1> DEFINE MetType == met \in BOOLEAN /\ misread \in BOOLEAN
<1>3. Init => MetType
  BY DEF Init
<1>4. MetType /\ [Next]_vars => MetType'
  BY DEF Next, vars
<1>5. DdbInv /\ StepInv /\ MetType => TypeOK
  BY DEF DdbInv, StepInv, TypeOK, LockType, WorkerType, ManifestType
<1> QED  BY <1>1, <1>2, <1>3, <1>4, <1>5, PTL DEF Spec

-----------------------------------------------------------------------------
(* Phase and manifest *)

\* What the handler at work has made of the manifest, unless it was told there is none.
Knows(w) ==
    /\ At(w, "starting", "conclude") => manifest.up \/ doc.phase = "Deleting"
    /\ worker[w].job = "stopping" /\ worker[w].at \in {"relock", "conclude"} =>
         ~manifest.up \/ misread
    /\ worker[w].job = "deleting" /\ worker[w].at \in {"relock", "conclude"} =>
         manifest.is # "there" \/ misread

\* As long as no two handlers have met, a handler works alone in the phase it has claimed,
\* or in the one remove() has moved it to, and the phases between them agree with the
\* manifest, which only a deletion terminates.
AloneInv ==
    /\ \A v, w \in Workers : Live(v) /\ Live(w) => v = w
    /\ \A w \in Workers : Live(w) =>
         doc.phase \in {JobPhase[worker[w].job], "Deleting"} /\ Knows(w)
    /\ doc.phase = "Started" => manifest.up
    /\ doc.phase = "Stopped" => ~manifest.up \/ misread
    /\ doc.phase \in {"Deleted", "None"} => manifest.is # "there" \/ misread
    /\ manifest.is = "terminating" => doc.phase \in {"Deleting", "Deleted", "None"}

LEMMA JobPhases ==
    /\ JobPhase["starting"] = "Starting" /\ JobPhase["stopping"] = "Stopping"
    /\ JobPhase["deleting"] = "Deleting"
BY DEF JobPhase

\* A handler that moves on, alone, and writes no manifest or document.
LEMMA StepAlone ==
    ASSUME DdbInv, StepInv, AloneInv, NEW w \in Workers, Step(w), UNCHANGED misread
    PROVE  AloneInv'
<1>1. /\ worker \in [Workers -> WorkerType] /\ worker[w] \in WorkerType
      /\ worker[w].at \in StepsOf[worker[w].job]
      /\ doc \in [state : DocStates, phase : DocPhases, lock : LockType]
      /\ manifest \in ManifestType /\ (manifest.is = "absent" => manifest = Absent)
  BY DEF DdbInv, StepInv
<1>2. Live(w)
  <2>1. worker[w].job = "none" => worker[w].at = "idle"
    BY <1>1 DEF StepsOf
  <2> QED BY <2>1 DEF Step, StartingGet, StartingApply, StartingTimeout, StartingUnavailable,
                      StartingAvailable, StartingConclude, StartingRelock, StoppingGet,
                      StoppingScale, StoppingConclude, StoppingRelock, DeletingGet,
                      DeletingDelete, DeletingConclude, DeletingRelock, ApplyFails, At, Live
<1>3. /\ \A v \in Workers \ {w} : ~Live(v)
      /\ doc.phase \in {JobPhase[worker[w].job], "Deleting"} /\ Knows(w)
  BY <1>2 DEF AloneInv
<1>4. ASSUME \A v \in Workers \ {w} : worker'[v] = worker[v],
             Live(w)' => doc'.phase \in {JobPhase[worker'[w].job], "Deleting"} /\ Knows(w)',
             doc'.phase = "Started" => manifest'.up,
             doc'.phase = "Stopped" => ~manifest'.up \/ misread,
             doc'.phase \in {"Deleted", "None"} => manifest'.is # "there" \/ misread,
             manifest'.is = "terminating" => doc'.phase \in {"Deleting", "Deleted", "None"}
      PROVE  AloneInv'
  BY <1>3, <1>4 DEF AloneInv, Live
\* A handler that only goes on, or ends.
<1>5. ASSUME UNCHANGED manifest, doc'.phase = doc.phase,
             End(w) \/ (Knows(w)' /\ \E s \in Steps : Goto(w, s))
      PROVE  AloneInv'
  <2>1. \A v \in Workers \ {w} : worker'[v] = worker[v]
    BY <1>1, <1>5 DEF End, Goto
  <2>2. worker'[w].job \in {worker[w].job, "none"} /\ (Live(w)' => Knows(w)')
    BY <1>1, <1>3, <1>5 DEF End, Goto, Idle, WorkerType, Live
  <2> QED BY <1>2, <1>3, <1>4, <1>5, <2>1, <2>2 DEF AloneInv, Live
\* A handler that applies the manifest.
<1>6. ASSUME NEW up \in BOOLEAN, Apply(up), UNCHANGED doc, NEW s \in Steps, Goto(w, s),
             doc.phase \in {"Starting", "Stopping", "Deleting"}, Knows(w)'
      PROVE  AloneInv'
  <2>1. /\ \A v \in Workers \ {w} : worker'[v] = worker[v]
        /\ worker'[w].job = worker[w].job
    BY <1>1, <1>6 DEF Goto, WorkerType
  <2>2. manifest'.is = "terminating" => manifest.is = "terminating"
    BY <1>1, <1>6 DEF Apply
  <2> QED BY <1>2, <1>3, <1>4, <1>6, <2>1, <2>2 DEF AloneInv
\* A handler that ends with a write.
<1>7. ASSUME NEW s \in DocStates, NEW p \in DocPhases,
             WriteIfPhase(JobPhase[worker[w].job], s, p), End(w), UNCHANGED manifest,
             doc.phase = JobPhase[worker[w].job] =>
               /\ p = "Started" => manifest.up
               /\ p = "Stopped" => ~manifest.up \/ misread
               /\ p \in {"Deleted", "None"} => manifest.is # "there" \/ misread
               /\ manifest.is = "terminating" => p \in {"Deleting", "Deleted", "None"}
      PROVE  AloneInv'
  <2>1. /\ \A v \in Workers \ {w} : worker'[v] = worker[v]
        /\ ~Live(w)'
    BY <1>1, <1>7 DEF End, Idle, Live
  <2>2. \/ doc' = doc
        \/ doc.phase = JobPhase[worker[w].job] /\ doc'.phase = p
    BY <1>7 DEF WriteIfPhase
  <2> QED BY <1>4, <1>7, <2>1, <2>2 DEF AloneInv
<1> USE DEF At, WorkerType, Steps
<1>8. CASE StartingGet(w) \/ StartingUnavailable(w)
  <2>1. Knows(w)'
    BY <1>1, <1>8 DEF StartingGet, StartingUnavailable, Goto, Knows
  <2> QED BY <1>5, <1>8, <2>1 DEF StartingGet, StartingUnavailable
<1>9. CASE StartingApply(w)
  <2>1. Knows(w)' /\ doc.phase \in {"Starting", "Deleting"}
    BY <1>1, <1>3, <1>9, JobPhases DEF StartingApply, Goto, Knows
  <2> QED BY <1>6, <1>9, <2>1 DEF StartingApply
<1>10. CASE StartingTimeout(w)
  BY <1>7, <1>10, JobPhases DEF StartingTimeout, AloneInv, DocStates, DocPhases
<1>11. CASE StartingAvailable(w)
  <2>1. Knows(w)'
    BY <1>1, <1>11 DEF StartingAvailable, Goto, Knows
  <2> QED BY <1>5, <1>11, <2>1 DEF StartingAvailable
<1>12. CASE StartingConclude(w)
  <2> DEFINE s == IF worker[w].toState = "Restarting" THEN "Running" ELSE worker[w].toState
  <2>1. s \in DocStates /\ "Started" \in DocPhases
    BY <1>1 DEF DocStates, DocPhases
  <2>2. JobPhase[worker[w].job] = "Starting"
    BY <1>12, JobPhases DEF StartingConclude
  <2>3. WriteIfPhase(JobPhase[worker[w].job], s, "Started") /\ End(w) /\ UNCHANGED manifest
    BY <1>12, <2>2 DEF StartingConclude
  <2>4. doc.phase = "Starting" => manifest.up /\ manifest.is # "terminating"
    BY <1>3, <1>12 DEF StartingConclude, Knows, AloneInv
  <2> HIDE DEF s
  <2> QED BY <1>7, <2>1, <2>2, <2>3, <2>4
<1>13. CASE StoppingGet(w)
  <2>1. Knows(w)'
    BY <1>1, <1>13 DEF StoppingGet, Goto, Knows
  <2> QED BY <1>5, <1>13, <2>1 DEF StoppingGet
<1>14. CASE StoppingScale(w)
  <2>1. Knows(w)' /\ doc.phase \in {"Stopping", "Deleting"}
    BY <1>1, <1>3, <1>14, JobPhases DEF StoppingScale, Apply, Goto, Knows
  <2> QED BY <1>6, <1>14, <2>1 DEF StoppingScale
<1>15. CASE StoppingConclude(w)
  <2>1. JobPhase[worker[w].job] = "Stopping" /\ (~manifest.up \/ misread)
    BY <1>3, <1>15, JobPhases DEF StoppingConclude, Knows
  <2>2. doc.phase = "Stopping" => manifest.is # "terminating"
    BY DEF AloneInv
  <2>3. doc.state \in DocStates /\ "Stopped" \in DocPhases
    BY <1>1 DEF DocPhases
  <2> QED BY <1>7, <1>15, <2>1, <2>2, <2>3 DEF StoppingConclude
<1>16. CASE DeletingGet(w)
  <2>1. Knows(w)'
    BY <1>1, <1>16 DEF DeletingGet, Goto, Knows, Absent
  <2> QED BY <1>5, <1>16, <2>1 DEF DeletingGet
<1>17. CASE DeletingDelete(w)
  <2>1. doc.phase = "Deleting" /\ doc' = doc
    BY <1>3, <1>17, JobPhases DEF DeletingDelete
  <2>2. CASE manifest = Absent
    BY <1>5, <1>17, <2>1, <2>2 DEF DeletingDelete
  <2>3. CASE manifest # Absent
    <3>1. manifest'.is = "terminating" /\ Goto(w, "relock")
      BY <1>1, <1>17, <2>3 DEF DeletingDelete, ManifestType
    <3>2. /\ \A v \in Workers \ {w} : worker'[v] = worker[v]
          /\ worker'[w].job = worker[w].job /\ worker'[w].at = "relock"
      BY <1>1, <3>1 DEF Goto
    <3>3. Knows(w)'
      BY <1>17, <3>1, <3>2 DEF Knows, DeletingDelete
    <3> QED BY <1>4, <2>1, <3>1, <3>2, <3>3
  <2> QED BY <2>2, <2>3
<1>18. CASE DeletingConclude(w)
  <2>1. JobPhase[worker[w].job] = "Deleting" /\ (manifest.is # "there" \/ misread)
    BY <1>3, <1>18, JobPhases DEF DeletingConclude, Knows
  <2>2. doc.state \in DocStates /\ "Deleted" \in DocPhases
    BY <1>1 DEF DocPhases
  <2> QED BY <1>7, <1>18, <2>1, <2>2 DEF DeletingConclude
<1>19. CASE StartingRelock(w) \/ StoppingRelock(w) \/ DeletingRelock(w)
  <2>1. doc'.phase = doc.phase /\ UNCHANGED manifest
    BY <1>1, <1>19 DEF StartingRelock, StoppingRelock, DeletingRelock, Relock
  <2>2. CASE StartingRelock(w)
    BY <1>5, <2>1, <2>2 DEF StartingRelock, Relock
  <2>3. CASE StoppingRelock(w) \/ DeletingRelock(w)
    <3>1. Goto(w, "conclude") /\ worker[w].at = "relock" /\ worker[w].job \in {"stopping", "deleting"}
      BY <2>3 DEF StoppingRelock, DeletingRelock, Relock
    <3>2. Knows(w)'
      BY <1>1, <1>3, <2>1, <3>1 DEF Goto, Knows
    <3> QED BY <1>5, <2>1, <3>1, <3>2
  <2> QED BY <1>19, <2>2, <2>3
<1>20. CASE ApplyFails(w)
  BY <1>5, <1>20 DEF ApplyFails
<1> QED BY <1>8, <1>9, <1>10, <1>11, <1>12, <1>13, <1>14, <1>15, <1>16, <1>17, <1>18, <1>19,
           <1>20 DEF Step

LEMMA ClaimAlone ==
    ASSUME DdbInv, AloneInv, NEW w \in Workers, NEW job \in Jobs, Claim(w, job),
           \A v \in Workers \ {w} : ~Live(v)'
    PROVE  AloneInv'
<1> DEFINE r == [job |-> job, at |-> "get", toState |-> doc.state]
<1>1. worker'[w] = r /\ doc'.phase = doc.phase /\ doc.phase = JobPhase[job] /\ manifest' = manifest
  BY DEF Claim, DdbInv
<1>2. r.job = job /\ r.at = "get"
  OBVIOUS
<1> HIDE DEF r
<1>3. Knows(w)'
  BY <1>1, <1>2 DEF Knows, At
\* The handler has yet to read the manifest, in a phase that says nothing of it.
<1>4. doc'.phase \in {"Starting", "Stopping", "Deleting"}
  BY <1>1, JobPhases DEF Jobs
<1> QED BY <1>1, <1>2, <1>3, <1>4 DEF AloneInv

\* A handler that is told there is no manifest creates one, or goes on to its last write.
LEMMA ReadFailsAlone ==
    ASSUME DdbInv, StepInv, AloneInv, NEW w \in Workers, ReadFails(w), misread' = TRUE
    PROVE  AloneInv'
<1> DEFINE s == IF worker[w].job = "starting" THEN "apply" ELSE "conclude"
<1>1. /\ worker \in [Workers -> WorkerType] /\ worker[w] \in WorkerType
      /\ worker[w].at \in StepsOf[worker[w].job] /\ worker[w].at = "get"
  BY DEF DdbInv, StepInv, ReadFails
<1>2. Live(w)
  BY <1>1 DEF StepsOf, Live
<1>3. UNCHANGED <<doc, manifest>> /\ Goto(w, s)
  BY DEF ReadFails
<1>4. s \in {"apply", "conclude"} /\ (worker[w].job = "starting" => s = "apply")
  OBVIOUS
<1> HIDE DEF s
<1>5. /\ \A v \in Workers \ {w} : worker'[v] = worker[v] /\ ~Live(v)
      /\ worker'[w].job = worker[w].job /\ worker'[w].at = s
  BY <1>1, <1>2, <1>3 DEF Goto, WorkerType, AloneInv
<1>6. Knows(w)'
  BY <1>3, <1>4, <1>5 DEF Knows, At
<1> QED BY <1>2, <1>3, <1>5, <1>6 DEF AloneInv, Live

\* What happens while handlers stay where they are: phases without a handler move on, or
\* remove() moves the phase to Deleting under the one there is.
LEMMA QuietAlone ==
    ASSUME DdbInv, StepInv, AloneInv, UNCHANGED worker,
           \/ Tick \/ Remove \/ Terminated \/ LockExpires \/ UNCHANGED vars
           \/ \E s \in {"Running", "Stopped", "Restarting"} : UpdateState(s),
           UNCHANGED misread
    PROVE  AloneInv'
<1>1. /\ doc \in [state : DocStates, phase : DocPhases, lock : LockType]
      /\ manifest \in ManifestType
  BY DEF DdbInv, StepInv
<1>2. \A w \in Workers : Live(w) => JobPhase[worker[w].job] \in {"Starting", "Stopping", "Deleting"}
  BY DEF DdbInv, WorkerType, Live, Jobs, JobPhase
<1>3. ASSUME UNCHANGED manifest, doc'.phase = doc.phase \/ doc'.phase = "Deleting"
      PROVE  AloneInv'
  <2>1. \A w \in Workers : Knows(w) => Knows(w)'
    BY <1>3 DEF Knows, At
  <2> QED BY <1>3, <2>1 DEF AloneInv, Live
\* The handlers of the states find no handler at work.
<1>4. ASSUME NEW s, NEW from, NEW p, Move(s, from, p), from \subseteq {"Started", "Stopped"},
             p \in {"Starting", "Stopping"}
      PROVE  AloneInv'
  <2>1. doc.phase \in {"Started", "Stopped"} /\ doc'.phase = p /\ manifest' = manifest
    BY <1>1, <1>4 DEF Move
  <2>2. \A w \in Workers : ~Live(w)
    BY <1>2, <2>1 DEF AloneInv
  <2>3. manifest.is # "terminating"
    BY <2>1 DEF AloneInv
  <2> QED BY <1>4, <2>1, <2>2, <2>3 DEF AloneInv, Live
<1>5. CASE Tick
  <2>1. CASE HandleDeletedState
    BY <1>1, <1>3, <2>1 DEF HandleDeletedState, Move
  <2>2. CASE HandleStoppedState \/ HandleRunningState \/ HandleRestartingState
    BY <1>4, <2>2 DEF HandleStoppedState, HandleRunningState, HandleRestartingState
  <2>3. CASE Purge
    <3>1. doc.phase = "Deleted" /\ doc'.phase = "None" /\ manifest' = manifest
      BY <1>1, <2>3 DEF Purge
    <3>2. \A w \in Workers : ~Live(w)
      BY <1>2, <3>1 DEF AloneInv
    <3> QED BY <3>1, <3>2 DEF AloneInv, Live
  <2> QED BY <1>5, <2>1, <2>2, <2>3 DEF Tick
<1>6. CASE Remove
  BY <1>1, <1>3, <1>6 DEF Remove
<1>7. CASE LockExpires \/ UNCHANGED vars \/ \E s \in {"Running", "Stopped", "Restarting"} : UpdateState(s)
  BY <1>1, <1>3, <1>7 DEF LockExpires, vars, taskVars, UpdateState
<1>8. CASE Terminated
  <2>1. doc' = doc /\ manifest' = Absent /\ doc.phase \in {"Deleting", "Deleted", "None"}
    BY <1>8 DEF Terminated, AloneInv
  <2>2. \A w \in Workers : Live(w) => doc.phase = "Deleting"
    BY <1>2, <2>1 DEF AloneInv
  <2>3. \A w \in Workers : Live(w) => Knows(w)'
    BY <2>1, <2>2 DEF Knows, At, Absent
  <2> QED BY <2>1, <2>2, <2>3 DEF AloneInv, Live, Absent
<1> QED BY <1>5, <1>6, <1>7, <1>8

LEMMA NextAlone ==
    ASSUME DdbInv, StepInv, ~met => AloneInv, [Next]_vars
    PROVE  ~met' => AloneInv'
<1> SUFFICES ASSUME ~met' PROVE AloneInv'
  OBVIOUS
<1>1. /\ AloneInv
      /\ Next => \A v, w \in Workers : Live(v)' /\ Live(w)' => v = w
  BY DEF Next, vars
<1>2. ASSUME NEW w \in Workers, Step(w), UNCHANGED misread PROVE AloneInv'
  BY <1>1, <1>2, StepAlone
<1>3. ASSUME NEW w \in Workers, Throw(w), UNCHANGED misread PROVE AloneInv'
  <2>1. /\ \A v \in Workers \ {w} : worker'[v] = worker[v]
        /\ ~Live(w)' /\ UNCHANGED <<doc, manifest>>
    BY <1>3 DEF Throw, End, Idle, Live, DdbInv
  <2> QED BY <1>1, <1>3, <2>1 DEF AloneInv, Live, Knows, At
<1>4. ASSUME Next, NEW w \in Workers, NEW job \in Jobs, Claim(w, job) PROVE AloneInv'
  <2>1. Live(w)'
    BY <1>4 DEF Claim, Live, Jobs, DdbInv
  <2> QED BY <1>1, <1>4, <2>1, ClaimAlone
<1>5. ASSUME Tick, UNCHANGED misread PROVE AloneInv'
  <2>1. UNCHANGED worker
    BY <1>5 DEF Tick, HandleDeletedState, HandleStoppedState, HandleRunningState,
                HandleRestartingState, Purge, Move
  <2> QED BY <1>1, <1>5, <2>1, QuietAlone
<1>6. ASSUME \/ Remove \/ Terminated \/ LockExpires \/ UNCHANGED vars
             \/ \E s \in {"Running", "Stopped", "Restarting"} : UpdateState(s),
             UNCHANGED misread
      PROVE  AloneInv'
  <2>1. UNCHANGED worker
    BY <1>6 DEF Remove, Terminated, LockExpires, vars, taskVars, UpdateState
  <2> QED BY <1>1, <1>6, <2>1, QuietAlone
<1>7. ASSUME NEW w \in Workers, ReadFails(w), misread' = TRUE PROVE AloneInv'
  BY <1>1, <1>7, ReadFailsAlone
<1>8. UNCHANGED vars => UNCHANGED misread
  BY DEF vars
<1>9. CASE Act /\ UNCHANGED misread
  BY <1>2, <1>3, <1>5, <1>6, <1>9 DEF Act
<1>10. ASSUME Next PROVE AloneInv'
  <2>1. CASE Act /\ UNCHANGED misread
    BY <1>9, <2>1
  <2>2. CASE \E w \in Workers, job \in Jobs : Claim(w, job)
    BY <1>4, <1>10, <2>2
  <2>3. CASE (\E w \in Workers : ReadFails(w)) /\ misread' = TRUE
    BY <1>7, <2>3
  <2> QED BY <1>10, <2>1, <2>2, <2>3 DEF Next
<1> QED BY <1>6, <1>8, <1>10

LEMMA AloneKept == Spec => [](~met => AloneInv)
<1>1. Init => (~met => AloneInv)
  BY DEF Init, AloneInv, Live, Idle, Absent
<1>2. DdbInv /\ StepInv /\ (~met => AloneInv) /\ [Next]_vars => (~met => AloneInv)'
  BY NextAlone
<1>3. Init => DdbInv /\ StepInv
  BY InitInv, InitSteps
<1>4. DdbInv /\ StepInv /\ [Next]_vars => (DdbInv /\ StepInv)'
  BY StepImplements, StepsKept
<1> QED  BY <1>1, <1>2, <1>3, <1>4, PTL DEF Spec

\* As long as no two handlers have met, a started database is up in the cluster as well,
\* and a stopped one is down unless the handler that stopped it could not read its
\* manifest, whatever is wanted meanwhile and whichever handlers die.
THEOREM PhaseKeptTrue == Spec => []PhaseIsTrue
<1>1. (~met => AloneInv) => PhaseIsTrue
  BY DEF AloneInv, PhaseIsTrue
<1> QED  BY <1>1, AloneKept, PTL

\* No manifest outlives its document as long as no two handlers have met and the last one
\* could read it, although remove() overtakes whichever handler is at work.
THEOREM NoOrphanLeft == Spec => []NoOrphan
<1>1. (~met => AloneInv) => NoOrphan
  BY DEF AloneInv, NoOrphan, Exists
<1> QED  BY <1>1, AloneKept, PTL
=============================================================================
