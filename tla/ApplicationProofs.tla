-------------------------- MODULE ApplicationProofs --------------------------
(***************************************************************************)
(* Theorems about Application, for any number of handler executions and    *)
(* API requests: its type invariant, the exclusion of handlers whose locks *)
(* do not time out under them, and the life cycle of the phase.            *)
(***************************************************************************)
EXTENDS Application, TLAPS

USE DEF Objects, EntryKinds, Kinds, Jobs, States, Phases, Steps,
        CreatingSteps, DeletingSteps, StartingSteps, StoppingSteps, RestartingSteps

-----------------------------------------------------------------------------
(* The type invariant in two parts: the document with its handlers, and the *)
(* world they act on.                                                       *)

AppType == [state : States, phase : Phases, lock : Workers \cup {Free, Nobody}]
DocType == /\ app \in AppType
           /\ worker \in [Workers -> WorkerType]
           /\ \A w \in Workers : WorkerOK(worker[w])

WorldType ==
    /\ request \in [Requests -> States \cup {"none"}]
    /\ faults \in 0..MaxFaults
    /\ namespace \in {"absent", "Active", "Terminating"}
    /\ instance \subseteq Objects
    /\ active \subseteq EntryKinds /\ fresh \subseteq EntryKinds
    /\ ddb \in [state : DdbStates, phase : DdbPhases]
    /\ child \in [Kinds -> {"absent", "Creating", "Created", "Deleting"}]
    /\ twice \subseteq Kinds
    /\ creating \subseteq UserKinds /\ late \subseteq UserKinds

LEMMA TypeParts == TypeOK <=> DocType /\ WorldType
BY DEF TypeOK, DocType, WorldType, AppType

\* The sequences the handlers walk through, as far as the proofs need them.
LEMMA Sequences ==
    /\ Len(Entries) = 4 /\ Len(CreateOrder) = 3 /\ Len(DeleteOrder) = 12
    /\ \A i \in Nat : i < 4 => Entries[i + 1] \in EntryKinds
    /\ \A i \in Nat : i < 3 => CreateOrder[i + 1] \in Kinds
<1>1. Len(Entries) = 4 /\ Len(CreateOrder) = 3 /\ Len(DeleteOrder) = 12
  BY DEF Entries, CreateOrder, DeleteOrder
<1>2. ASSUME NEW i \in Nat, i < 4 PROVE Entries[i + 1] \in EntryKinds
  <2>1. i = 0 \/ i = 1 \/ i = 2 \/ i = 3
    BY <1>2
  <2> QED BY <2>1 DEF Entries
<1>3. ASSUME NEW i \in Nat, i < 3 PROVE CreateOrder[i + 1] \in Kinds
  <2>1. i = 0 \/ i = 1 \/ i = 2
    BY <1>3
  <2> QED BY <2>1 DEF CreateOrder
<1> QED BY <1>1, <1>2, <1>3

\* A handler record that is replaced by a well-formed one.
LEMMA MoveType ==
    ASSUME DocType, NEW w \in Workers, NEW r, WorkerOK(r),
           worker' = [worker EXCEPT ![w] = r], app' \in AppType
    PROVE  DocType'
BY DEF DocType, AppType, WorkerOK

\* A record stays of its type when fields get values of theirs.
LEMMA UpdateType ==
    ASSUME NEW x \in WorkerType
    PROVE  \A at \in Steps, i \in Nat, saw \in SUBSET (Objects \cup Kinds) :
             /\ [x EXCEPT !.i = i, !.at = at] \in WorkerType
             /\ [x EXCEPT !.i = i, !.saw = saw] \in WorkerType
             /\ [x EXCEPT !.at = at, !.i = i, !.saw = saw] \in WorkerType
<1> HIDE DEF Jobs, States, Steps, Objects, Kinds
<1> QED BY DEF WorkerType

\* An ended handler.
LEMMA IdleType == WorkerOK(Idle)
BY DEF Idle, WorkerOK, WorkerType, StepsOf

LEMMA EndType ==
    ASSUME DocType, NEW w \in Workers, End(w), app' \in AppType
    PROVE  DocType'
BY MoveType, IdleType DEF End

\* A handler that goes on to a step of its own, where it does not index a sequence.
Indexed == {"activate", "inactivate", "find", "insert", "look"}
LEMMA GotoType ==
    ASSUME DocType, NEW w \in Workers, NEW step \in StepsOf[worker[w].job] \ Indexed,
           worker[w].at \notin {"activate", "conclude"}, step # "namespace",
           Goto(w, step), app' \in AppType
    PROVE  DocType'
<1> DEFINE r == [worker[w] EXCEPT !.at = step]
<1>1. worker[w] \in WorkerType /\ WorkerOK(worker[w])
  BY DEF DocType
<1>2. step \in Steps
  BY <1>1 DEF StepsOf, WorkerType
<1>3. WorkerOK(r)
  BY <1>1, <1>2 DEF WorkerOK, WorkerType, Indexed
<1>4. worker' = [worker EXCEPT ![w] = r]
  BY DEF Goto, DocType
<1> QED BY <1>3, <1>4, MoveType

\* The same with what the handler has seen of the cluster.
LEMMA LookType ==
    ASSUME DocType, WorldType, NEW w \in Workers,
           NEW step \in StepsOf[worker[w].job] \ Indexed,
           worker[w].at \notin {"activate", "conclude"}, step # "namespace",
           Look(w, step), app' \in AppType
    PROVE  DocType'
<1> DEFINE r == [worker[w] EXCEPT !.at = step, !.saw = Seen]
<1>1. worker[w] \in WorkerType /\ WorkerOK(worker[w])
  BY DEF DocType
<1>2. step \in Steps
  BY <1>1 DEF StepsOf, WorkerType
<1>3. Seen \in SUBSET (Objects \cup Kinds)
  BY DEF Seen, WorldType
<1>4. r \in WorkerType
  BY <1>1, <1>2, <1>3 DEF WorkerType
<1>5. r.job = worker[w].job /\ r.at = step /\ r.i = worker[w].i
  BY <1>1 DEF WorkerType
<1>6. WorkerOK(r)
  BY <1>1, <1>4, <1>5 DEF WorkerOK, Indexed
<1>7. worker' = [worker EXCEPT ![w] = r]
  BY DEF Look, DocType
<1> QED BY <1>6, <1>7, MoveType

LEMMA ClaimType ==
    ASSUME DocType, NEW w \in Workers, NEW job \in Jobs, NEW first \in StepsOf[job],
           Claim(w, job, first)
    PROVE  DocType'
<1> DEFINE r == [Idle EXCEPT !.job = job, !.at = first, !.toState = app.state]
<1>1. first \in Steps
  BY DEF StepsOf
<1>2. app.state \in States
  BY DEF DocType, AppType
<1>3. Idle \in WorkerType /\ Idle.i = 0
  BY IdleType DEF WorkerOK, Idle
<1>4. r \in WorkerType
  <2> DEFINE t == app.state
  <2>1. t \in States
    BY <1>2
  <2> HIDE DEF t
  <2>2. ASSUME NEW x \in WorkerType
        PROVE  [x EXCEPT !.job = job, !.at = first, !.toState = t] \in WorkerType
    <3> HIDE DEF Jobs, States, Steps
    <3> QED BY <1>1, <2>1, <2>2 DEF WorkerType
  <2> QED BY <1>3, <2>2 DEF t
<1>5. r.job = job /\ r.at = first /\ r.i = 0
  BY <1>3 DEF WorkerType
<1>6. WorkerOK(r)
  BY <1>4, <1>5, Sequences DEF WorkerOK
<1>7. app' \in AppType
  BY DEF Claim, DocType, AppType
<1> QED BY <1>6, <1>7, MoveType DEF Claim

\* The guarded update of the document at the end of a handler.
LEMMA WriteType ==
    ASSUME DocType, NEW from, NEW state \in States, NEW phase \in Phases,
           WriteIfPhase(from, state, phase)
    PROVE  app' \in AppType
BY DEF WriteIfPhase, DocType, AppType

-----------------------------------------------------------------------------
(* Every action keeps the two parts. *)

\* The claims of the instance task.
LEMMA InstanceClaimsType ==
    ASSUME DocType, WorldType, NEW w \in Workers
    PROVE  InstanceClaims(w) => DocType'
<1>1. ASSUME StartClaim(w) PROVE DocType'
  BY <1>1, ClaimType DEF StartClaim, StepsOf
<1>2. ASSUME StartClaimLate(w) PROVE DocType'
  BY <1>2, ClaimType DEF StartClaimLate, StepsOf
<1>3. ASSUME StopClaim(w) PROVE DocType'
  BY <1>3, ClaimType DEF StopClaim, StepsOf
<1>4. ASSUME RestartClaim(w) PROVE DocType'
  BY <1>4, ClaimType DEF RestartClaim, StepsOf
<1> QED BY <1>1, <1>2, <1>3, <1>4 DEF InstanceClaims

\* The claims of the application task.
LEMMA ApplicationClaimsType ==
    ASSUME DocType, WorldType, NEW w \in Workers
    PROVE  ApplicationClaims(w) => DocType'
<1>1. ASSUME CreatingClaim(w) PROVE DocType'
  BY <1>1, ClaimType DEF CreatingClaim, StepsOf
<1>2. ASSUME DeletingClaim(w) PROVE DocType'
  BY <1>2, ClaimType DEF DeletingClaim, StepsOf
<1> QED BY <1>1, <1>2 DEF ApplicationClaims

\* The steps of the instance task.
LEMMA InstanceStepType ==
    ASSUME DocType, WorldType, NEW w \in Workers
    PROVE  InstanceStep(w) => DocType'
<1>1. ASSUME StartTimeout(w) PROVE DocType'
  BY <1>1, EndType, WriteType DEF StartTimeout, DocType, AppType, WorkerType, WorkerOK
<1>2. ASSUME StartReadDdb(w) PROVE DocType'
  BY <1>2, GotoType DEF StartReadDdb, At, StepsOf, Indexed, DocType
<1>3. ASSUME StartDdbRun(w) PROVE DocType'
  BY <1>3, GotoType DEF StartDdbRun, At, StepsOf, Indexed, DocType
<1>4. ASSUME CreateGet(w) PROVE DocType'
  BY <1>4, LookType DEF CreateGet, At, StepsOf, Indexed, DocType
<1>5. ASSUME CreateDeployment(w) PROVE DocType'
  BY <1>5, GotoType, EndType DEF CreateDeployment, At, StepsOf, Indexed, DocType, CreateObject
<1>6. ASSUME CreateService(w) PROVE DocType'
  BY <1>6, GotoType, EndType DEF CreateService, At, StepsOf, Indexed, DocType, CreateObject
<1>7. ASSUME StartAvailable(w) PROVE DocType'
  <2> DEFINE r == [worker[w] EXCEPT !.at = "activate", !.saw = {}]
  <2>1. /\ worker[w] \in WorkerType /\ WorkerOK(worker[w])
        /\ worker[w].job = "starting" /\ worker[w].at = "check" /\ worker[w].i \in Nat
    BY <1>7 DEF StartAvailable, DocType, At, WorkerType
  <2>3. r \in WorkerType
    BY <2>1 DEF WorkerType
  <2>4. r.job = "starting" /\ r.at = "activate" /\ r.i = worker[w].i
    BY <2>1 DEF WorkerType
  <2>5. WorkerOK(r)
    BY <1>7, <2>1, <2>3, <2>4, Sequences DEF WorkerOK, StepsOf, StartAvailable
  <2>6. worker' = [worker EXCEPT ![w] = r] /\ app' = app
    BY <1>7, <2>1 DEF StartAvailable, DocType, Goto, NextEntry
  <2> QED BY <2>5, <2>6, MoveType DEF DocType
<1>8. ASSUME StartUnavailable(w) PROVE DocType'
  BY <1>8, GotoType DEF StartUnavailable, At, StepsOf, Indexed, DocType
<1>9. ASSUME StartActivate(w) PROVE DocType'
  <2> DEFINE at == IF worker[w].i + 1 = Len(Entries) THEN "conclude" ELSE "activate"
              r  == [worker[w] EXCEPT !.i = worker[w].i + 1, !.at = at]
  <2>1. /\ worker[w] \in WorkerType /\ WorkerOK(worker[w])
        /\ worker[w].job = "starting" /\ worker[w].at = "activate" /\ worker[w].i \in Nat
    BY <1>9 DEF StartActivate, DocType, At, WorkerType
  <2>2. at \in Steps
    OBVIOUS
  <2>3. r \in WorkerType
    <3>1. worker[w].i + 1 \in Nat /\ worker[w].saw \in SUBSET (Objects \cup Kinds)
      BY <2>1 DEF WorkerType
    <3> HIDE DEF at, Steps
    <3> QED BY <2>1, <2>2, <3>1, UpdateType
  <2>4. /\ r.job = "starting" /\ r.i = worker[w].i + 1
        /\ r.at = IF worker[w].i + 1 = Len(Entries) THEN "conclude" ELSE "activate"
    BY <2>1 DEF WorkerType
  <2>5. WorkerOK(r)
    BY <1>9, <2>1, <2>3, <2>4, Sequences DEF WorkerOK, StepsOf, StartActivate
  <2>6. worker' = [worker EXCEPT ![w] = r] /\ app' = app
    BY <1>9, <2>1 DEF StartActivate, DocType, Goto, NextEntry
  <2> QED BY <2>5, <2>6, MoveType DEF DocType
<1>10. ASSUME StartConclude(w) PROVE DocType'
  BY <1>10, EndType, WriteType DEF StartConclude, DocType, AppType, WorkerType, WorkerOK
<1>11. ASSUME StopInactivate(w) PROVE DocType'
  <2> DEFINE at == IF worker[w].i + 1 = Len(Entries) THEN "ddb" ELSE "inactivate"
              r  == [worker[w] EXCEPT !.i = worker[w].i + 1, !.at = at]
  <2>1. /\ worker[w] \in WorkerType /\ WorkerOK(worker[w])
        /\ worker[w].job = "stopping" /\ worker[w].at = "inactivate" /\ worker[w].i \in Nat
    BY <1>11 DEF StopInactivate, DocType, At, WorkerType
  <2>2. at \in Steps
    OBVIOUS
  <2>3. r \in WorkerType
    <3>1. worker[w].i + 1 \in Nat /\ worker[w].saw \in SUBSET (Objects \cup Kinds)
      BY <2>1 DEF WorkerType
    <3> HIDE DEF at, Steps
    <3> QED BY <2>1, <2>2, <3>1, UpdateType
  <2>4. /\ r.job = "stopping" /\ r.i = worker[w].i + 1
        /\ r.at = IF worker[w].i + 1 = Len(Entries) THEN "ddb" ELSE "inactivate"
    BY <2>1 DEF WorkerType
  <2>5. WorkerOK(r)
    BY <1>11, <2>1, <2>3, <2>4, Sequences DEF WorkerOK, StepsOf, StopInactivate
  <2>6. worker' = [worker EXCEPT ![w] = r] /\ app' = app
    BY <1>11, <2>1 DEF StopInactivate, DocType, Goto, NextEntry
  <2> QED BY <2>5, <2>6, MoveType DEF DocType
<1>12. ASSUME StopReadDdb(w) PROVE DocType'
  BY <1>12, GotoType DEF StopReadDdb, At, StepsOf, Indexed, DocType
<1>13. ASSUME StopDdbStop(w) PROVE DocType'
  BY <1>13, GotoType DEF StopDdbStop, At, StepsOf, Indexed, DocType
<1>14. ASSUME StopGet(w) PROVE DocType'
  BY <1>14, GotoType DEF StopGet, At, StepsOf, Indexed, DocType
<1>15. ASSUME StopRemove(w) PROVE DocType'
  BY <1>15, LookType DEF StopRemove, At, StepsOf, Indexed, DocType
<1>16. ASSUME StopRemoveDeployment(w) PROVE DocType'
  BY <1>16, GotoType, EndType DEF StopRemoveDeployment, At, StepsOf, Indexed, DocType, DeleteObject
<1>17. ASSUME StopRemoveService(w) PROVE DocType'
  BY <1>17, GotoType, EndType DEF StopRemoveService, At, StepsOf, Indexed, DocType, DeleteObject
<1>18. ASSUME StopConclude(w) PROVE DocType'
  BY <1>18, EndType, WriteType DEF StopConclude, DocType, AppType, WorkerType, WorkerOK
<1>19. ASSUME RestartDdb(w) PROVE DocType'
  BY <1>19, GotoType DEF RestartDdb, At, StepsOf, Indexed, DocType
<1>20. ASSUME RestartGet(w) PROVE DocType'
  BY <1>20, LookType DEF RestartGet, At, StepsOf, Indexed, DocType
<1>21. ASSUME RestartReplace(w) PROVE DocType'
  BY <1>21, GotoType, EndType DEF RestartReplace, At, StepsOf, Indexed, DocType
<1>22. ASSUME RestartConclude(w) PROVE DocType'
  BY <1>22, EndType, WriteType DEF RestartConclude, DocType, AppType, WorkerType, WorkerOK
<1>23. ASSUME InstanceRelock(w) PROVE DocType'
  BY <1>23, EndType DEF InstanceRelock, SetLock, DocType, AppType, Relock
<1> QED BY <1>1, <1>2, <1>3, <1>4, <1>5, <1>6, <1>7, <1>8, <1>9, <1>10, <1>11, <1>12, <1>13, <1>14, <1>15, <1>16, <1>17, <1>18, <1>19, <1>20, <1>21, <1>22, <1>23 DEF InstanceStep

\* The steps of the application task.
LEMMA ApplicationStepType ==
    ASSUME DocType, WorldType, NEW w \in Workers
    PROVE  ApplicationStep(w) => DocType'
<1>1. ASSUME CreatingReadNamespace(w) PROVE DocType'
  <2> DEFINE r == [worker[w] EXCEPT !.at = IF namespace = "absent" THEN "createNamespace" ELSE "find"]
  <2>1. /\ worker[w] \in WorkerType /\ WorkerOK(worker[w])
        /\ worker[w].job = "creating" /\ worker[w].at = "namespace" /\ worker[w].i \in Nat
    BY <1>1 DEF CreatingReadNamespace, DocType, At, WorkerType
  <2>3. r \in WorkerType
    BY <2>1 DEF WorkerType
  <2>4. r.job = "creating" /\ r.i = worker[w].i /\ r.at \in {"createNamespace", "find"}
    BY <2>1 DEF WorkerType
  <2>5. WorkerOK(r)
    BY <1>1, <2>1, <2>3, <2>4, Sequences DEF WorkerOK, StepsOf, CreatingReadNamespace
  <2>6. worker' = [worker EXCEPT ![w] = r] /\ app' = app
    BY <1>1, <2>1 DEF CreatingReadNamespace, DocType, Goto, NextEntry
  <2> QED BY <2>5, <2>6, MoveType DEF DocType
<1>2. ASSUME CreatingNamespace(w) PROVE DocType'
  BY <1>2, GotoType, EndType DEF CreatingNamespace, At, StepsOf, Indexed, DocType
<1>3. ASSUME CreatingSkip(w) PROVE DocType'
  <2> DEFINE r == [worker[w] EXCEPT !.i = @ + 1]
  <2>1. /\ worker[w] \in WorkerType /\ WorkerOK(worker[w])
        /\ worker[w].job = "creating" /\ worker[w].at = "find" /\ worker[w].i \in Nat
    BY <1>3 DEF CreatingSkip, DocType, At, WorkerType, Finding
  <2>3. r \in WorkerType
    BY <2>1 DEF WorkerType
  <2>4. r.job = "creating" /\ r.at = "find" /\ r.i = worker[w].i + 1
    BY <2>1 DEF WorkerType
  <2>5. WorkerOK(r)
    BY <1>3, <2>1, <2>3, <2>4, Sequences DEF WorkerOK, StepsOf, CreatingSkip, Finding
  <2>6. worker' = [worker EXCEPT ![w] = r] /\ app' = app
    BY <1>3, <2>1 DEF CreatingSkip, DocType, Goto, NextEntry, Finding
  <2> QED BY <2>5, <2>6, MoveType DEF DocType
<1>4. ASSUME CreatingFind(w) PROVE DocType'
  <2> DEFINE saw == IF child[NextResource(w)] = "Created" THEN worker[w].saw
                    ELSE worker[w].saw \cup {NextResource(w)}
              r   == [worker[w] EXCEPT !.i = worker[w].i + 1, !.saw = saw]
  <2>1. /\ worker[w] \in WorkerType /\ WorkerOK(worker[w])
        /\ worker[w].job = "creating" /\ worker[w].at = "find" /\ worker[w].i \in Nat
    BY <1>4 DEF CreatingFind, DocType, At, WorkerType, Finding
  <2>2. NextResource(w) \in Kinds
    BY <1>4, <2>1, Sequences DEF NextResource, Finding, WorkerOK, CreatingFind
  <2>3. r \in WorkerType
    <3>1. saw \in SUBSET (Objects \cup Kinds)
      BY <2>1, <2>2 DEF WorkerType
    <3>2. worker[w].i + 1 \in Nat /\ "find" \in Steps
      BY <2>1
    <3> HIDE DEF saw, Steps
    <3> QED BY <2>1, <3>1, <3>2, UpdateType
  <2>4. r.job = "creating" /\ r.at = "find" /\ r.i = worker[w].i + 1
    BY <2>1 DEF WorkerType
  <2>5. WorkerOK(r)
    BY <1>4, <2>1, <2>3, <2>4, Sequences DEF WorkerOK, StepsOf, CreatingFind, Finding
  <2>6. worker' = [worker EXCEPT ![w] = r] /\ app' = app
    BY <1>4, <2>1 DEF CreatingFind, DocType, Goto, NextEntry, Finding
  <2> QED BY <2>5, <2>6, MoveType DEF DocType
<1>5. ASSUME CreatingMissing(w) PROVE DocType'
  <2> DEFINE r == [worker[w] EXCEPT !.at = "insert"]
  <2>1. /\ worker[w] \in WorkerType /\ WorkerOK(worker[w])
        /\ worker[w].job = "creating" /\ worker[w].at = "find" /\ worker[w].i \in Nat
    BY <1>5 DEF CreatingMissing, DocType, At, WorkerType, Finding
  <2>3. r \in WorkerType
    BY <2>1 DEF WorkerType
  <2>4. r.job = "creating" /\ r.at = "insert" /\ r.i = worker[w].i
    BY <2>1 DEF WorkerType
  <2>5. WorkerOK(r)
    BY <1>5, <2>1, <2>3, <2>4, Sequences DEF WorkerOK, StepsOf, CreatingMissing, Finding
  <2>6. worker' = [worker EXCEPT ![w] = r] /\ app' = app
    BY <1>5, <2>1 DEF CreatingMissing, DocType, Goto, NextEntry, Finding
  <2> QED BY <2>5, <2>6, MoveType DEF DocType
<1>6. ASSUME CreatingInsert(w) PROVE DocType'
  <2> DEFINE saw == IF NextResource(w) \in TaskKinds THEN worker[w].saw \cup {NextResource(w)}
                    ELSE worker[w].saw
              r   == [worker[w] EXCEPT !.at = "find", !.i = worker[w].i + 1, !.saw = saw]
  <2>1. /\ worker[w] \in WorkerType /\ WorkerOK(worker[w])
        /\ worker[w].job = "creating" /\ worker[w].at = "insert" /\ worker[w].i \in Nat
    BY <1>6 DEF CreatingInsert, DocType, At, WorkerType
  <2>2. NextResource(w) \in Kinds
    BY <1>6, <2>1, Sequences DEF NextResource, Finding, WorkerOK, CreatingInsert
  <2>3. r \in WorkerType
    <3>1. saw \in SUBSET (Objects \cup Kinds)
      BY <2>1, <2>2 DEF WorkerType
    <3>2. worker[w].i + 1 \in Nat /\ "find" \in Steps
      BY <2>1
    <3> HIDE DEF saw, Steps
    <3> QED BY <2>1, <3>1, <3>2, UpdateType
  <2>4. r.job = "creating" /\ r.at = "find" /\ r.i = worker[w].i + 1
    BY <2>1 DEF WorkerType
  <2>5. WorkerOK(r)
    BY <1>6, <2>1, <2>3, <2>4, Sequences DEF WorkerOK, StepsOf, CreatingInsert
  <2>6. worker' = [worker EXCEPT ![w] = r] /\ app' = app
    BY <1>6, <2>1 DEF CreatingInsert, DocType, Goto, NextEntry
  <2> QED BY <2>5, <2>6, MoveType DEF DocType
<1>7. ASSUME CreatingWait(w) PROVE DocType'
  BY <1>7, GotoType DEF CreatingWait, At, StepsOf, Indexed, DocType
<1>8. ASSUME CreatingConclude(w) PROVE DocType'
  BY <1>8, EndType, WriteType DEF CreatingConclude, DocType, AppType, WorkerType, WorkerOK
<1>9. ASSUME DeletingSkip(w) PROVE DocType'
  <2> DEFINE r == [worker[w] EXCEPT !.i = @ + 1]
  <2>1. /\ worker[w] \in WorkerType /\ WorkerOK(worker[w])
        /\ worker[w].job = "deleting" /\ worker[w].at = "look" /\ worker[w].i \in Nat
    BY <1>9 DEF DeletingSkip, DocType, At, WorkerType
  <2>3. r \in WorkerType
    BY <2>1 DEF WorkerType
  <2>4. r.job = "deleting" /\ r.at = "look" /\ r.i = worker[w].i + 1
    BY <2>1 DEF WorkerType
  <2>5. WorkerOK(r)
    BY <1>9, <2>1, <2>3, <2>4, Sequences DEF WorkerOK, StepsOf, DeletingSkip
  <2>6. worker' = [worker EXCEPT ![w] = r] /\ app' = app
    BY <1>9, <2>1 DEF DeletingSkip, DocType, Goto, NextEntry
  <2> QED BY <2>5, <2>6, MoveType DEF DocType
<1>10. ASSUME DeletingRemove(w) PROVE DocType'
  BY <1>10, GotoType DEF DeletingRemove, At, StepsOf, Indexed, DocType
<1>11. ASSUME DeletingRemoveDdb(w) PROVE DocType'
  BY <1>11, GotoType DEF DeletingRemoveDdb, At, StepsOf, Indexed, DocType
<1>12. ASSUME DeletingReadNamespace(w) PROVE DocType'
  BY <1>12, GotoType DEF DeletingReadNamespace, At, StepsOf, Indexed, DocType
<1>13. ASSUME DeletingNamespace(w) PROVE DocType'
  BY <1>13, GotoType, EndType DEF DeletingNamespace, At, StepsOf, Indexed, DocType
<1>14. ASSUME DeletingConclude(w) PROVE DocType'
  BY <1>14, EndType, WriteType DEF DeletingConclude, DocType, AppType, WorkerType, WorkerOK
<1>15. ASSUME Unlock(w) PROVE DocType'
  BY <1>15, EndType DEF Unlock, SetLock, DocType, AppType
<1> QED BY <1>1, <1>2, <1>3, <1>4, <1>5, <1>6, <1>7, <1>8, <1>9, <1>10, <1>11, <1>12, <1>13, <1>14, <1>15 DEF ApplicationStep

-----------------------------------------------------------------------------
(* ... and the part of the world. *)

LEMMA InstanceStepWorld ==
    ASSUME DocType, WorldType, NEW w \in Workers, UNCHANGED childVars
    PROVE  InstanceStep(w) => WorldType'
<1> USE DEF childVars, instanceVars, entryVars
<1>1. ASSUME StartTimeout(w) PROVE WorldType'
  BY <1>1 DEF StartTimeout, WorldType
<1>2. ASSUME StartReadDdb(w) PROVE WorldType'
  BY <1>2 DEF StartReadDdb, WorldType
<1>3. ASSUME StartDdbRun(w) PROVE WorldType'
  BY <1>3 DEF StartDdbRun, WorldType, DdbUpdateState, DdbExists, DdbStates, DdbPhases
<1>4. ASSUME CreateGet(w) PROVE WorldType'
  BY <1>4 DEF CreateGet, WorldType
<1>5. ASSUME CreateDeployment(w) PROVE WorldType'
  BY <1>5 DEF CreateDeployment, WorldType, CreateObject
<1>6. ASSUME CreateService(w) PROVE WorldType'
  BY <1>6 DEF CreateService, WorldType, CreateObject
<1>7. ASSUME StartAvailable(w) PROVE WorldType'
  BY <1>7 DEF StartAvailable, WorldType
<1>8. ASSUME StartUnavailable(w) PROVE WorldType'
  BY <1>8 DEF StartUnavailable, WorldType
<1>9. ASSUME StartActivate(w) PROVE WorldType'
  <2>1. worker[w].i \in Nat /\ worker[w].i < 4
    BY <1>9, Sequences DEF StartActivate, At, DocType, WorkerOK, WorkerType
  <2>2. Entries[worker[w].i + 1] \in EntryKinds
    BY <2>1, Sequences
  <2> HIDE DEF EntryKinds
  <2> QED BY <1>9, <2>2 DEF StartActivate, WorldType
<1>10. ASSUME StartConclude(w) PROVE WorldType'
  BY <1>10 DEF StartConclude, WorldType
<1>11. ASSUME StopInactivate(w) PROVE WorldType'
  BY <1>11 DEF StopInactivate, WorldType
<1>12. ASSUME StopReadDdb(w) PROVE WorldType'
  BY <1>12 DEF StopReadDdb, WorldType
<1>13. ASSUME StopDdbStop(w) PROVE WorldType'
  BY <1>13 DEF StopDdbStop, WorldType, DdbUpdateState, DdbExists, DdbStates, DdbPhases
<1>14. ASSUME StopGet(w) PROVE WorldType'
  BY <1>14 DEF StopGet, WorldType
<1>15. ASSUME StopRemove(w) PROVE WorldType'
  BY <1>15 DEF StopRemove, WorldType
<1>16. ASSUME StopRemoveDeployment(w) PROVE WorldType'
  BY <1>16 DEF StopRemoveDeployment, WorldType, DeleteObject
<1>17. ASSUME StopRemoveService(w) PROVE WorldType'
  BY <1>17 DEF StopRemoveService, WorldType, DeleteObject
<1>18. ASSUME StopConclude(w) PROVE WorldType'
  BY <1>18 DEF StopConclude, WorldType
<1>19. ASSUME RestartDdb(w) PROVE WorldType'
  BY <1>19 DEF RestartDdb, WorldType, DdbUpdateState, DdbExists, DdbStates, DdbPhases
<1>20. ASSUME RestartGet(w) PROVE WorldType'
  BY <1>20 DEF RestartGet, WorldType
<1>21. ASSUME RestartReplace(w) PROVE WorldType'
  BY <1>21 DEF RestartReplace, WorldType
<1>22. ASSUME RestartConclude(w) PROVE WorldType'
  BY <1>22 DEF RestartConclude, WorldType
<1>23. ASSUME InstanceRelock(w) PROVE WorldType'
  BY <1>23 DEF InstanceRelock, WorldType
<1> QED BY <1>1, <1>2, <1>3, <1>4, <1>5, <1>6, <1>7, <1>8, <1>9, <1>10, <1>11, <1>12, <1>13, <1>14, <1>15, <1>16, <1>17, <1>18, <1>19, <1>20, <1>21, <1>22, <1>23 DEF InstanceStep

LEMMA ApplicationStepWorld ==
    ASSUME DocType, WorldType, NEW w \in Workers
    PROVE  ApplicationStep(w) => WorldType'
<1> USE DEF childVars, instanceVars, entryVars
<1>1. ASSUME CreatingReadNamespace(w) PROVE WorldType'
  BY <1>1 DEF CreatingReadNamespace, WorldType
<1>2. ASSUME CreatingNamespace(w) PROVE WorldType'
  BY <1>2 DEF CreatingNamespace, WorldType
<1>3. ASSUME CreatingSkip(w) PROVE WorldType'
  BY <1>3 DEF CreatingSkip, WorldType
<1>4. ASSUME CreatingFind(w) PROVE WorldType'
  BY <1>4 DEF CreatingFind, WorldType
<1>5. ASSUME CreatingMissing(w) PROVE WorldType'
  BY <1>5 DEF CreatingMissing, WorldType
<1>6. ASSUME CreatingInsert(w) PROVE WorldType'
  <2>1. NextResource(w) \in Kinds
    BY <1>6, Sequences DEF NextResource, CreatingInsert, At, DocType, WorkerOK, WorkerType
  <2> HIDE DEF Kinds
  <2> QED BY <1>6, <2>1 DEF CreatingInsert, WorldType, Insert
<1>7. ASSUME CreatingWait(w) PROVE WorldType'
  BY <1>7 DEF CreatingWait, WorldType
<1>8. ASSUME CreatingConclude(w) PROVE WorldType'
  BY <1>8 DEF CreatingConclude, WorldType
<1>9. ASSUME DeletingSkip(w) PROVE WorldType'
  BY <1>9 DEF DeletingSkip, WorldType
<1>10. ASSUME DeletingRemove(w) PROVE WorldType'
  BY <1>10 DEF DeletingRemove, WorldType
<1>11. ASSUME DeletingRemoveDdb(w) PROVE WorldType'
  BY <1>11 DEF DeletingRemoveDdb, WorldType, DdbRemove, DdbExists, DdbStates, DdbPhases
<1>12. ASSUME DeletingReadNamespace(w) PROVE WorldType'
  BY <1>12 DEF DeletingReadNamespace, WorldType
<1>13. ASSUME DeletingNamespace(w) PROVE WorldType'
  BY <1>13 DEF DeletingNamespace, WorldType
<1>14. ASSUME DeletingConclude(w) PROVE WorldType'
  BY <1>14 DEF DeletingConclude, WorldType
<1>15. ASSUME UNCHANGED <<request, faults, instanceVars, childVars>> PROVE WorldType'
  BY <1>15 DEF WorldType
<1> QED BY <1>1, <1>2, <1>3, <1>4, <1>5, <1>6, <1>7, <1>8, <1>9, <1>10, <1>11, <1>12, <1>13, <1>14, <1>15 DEF ApplicationStep

LEMMA ClaimsWorld ==
    ASSUME WorldType, NEW w \in Workers, Claims(w)
    PROVE  WorldType'
BY DEF Claims, InstanceClaims, ApplicationClaims, StartClaim, StartClaimLate, StopClaim,
       RestartClaim, CreatingClaim, DeletingClaim, WorldType, instanceVars, entryVars, childVars

\* The ticks that need no handler execution.
LEMMA TickType ==
    ASSUME DocType, WorldType, Tick
    PROVE  DocType' /\ WorldType'
<1> USE DEF childVars, instanceVars, entryVars, DocType, AppType, WorldType
<1>1. ASSUME HandleRunningState, UNCHANGED childVars PROVE DocType' /\ WorldType'
  BY <1>1 DEF HandleRunningState
<1>2. ASSUME HandleStoppedState, UNCHANGED childVars PROVE DocType' /\ WorldType'
  BY <1>2 DEF HandleStoppedState
<1>3. ASSUME HandleDeletedState PROVE DocType' /\ WorldType'
  BY <1>3 DEF HandleDeletedState
<1>4. ASSUME PurgeDeleted PROVE DocType' /\ WorldType'
  BY <1>4 DEF PurgeDeleted
<1> QED BY <1>1, <1>2, <1>3, <1>4 DEF Tick, InstanceTick, ApplicationTick

LEMMA ThrowType ==
    ASSUME DocType, WorldType, NEW w \in Workers, Throw(w),
           UNCHANGED <<instanceVars, childVars>>
    PROVE  DocType' /\ WorldType'
<1>1. DocType'
  BY EndType DEF Throw, DocType
<1>2. WorldType'
  BY BoundAssumption DEF Throw, WorldType, instanceVars, entryVars, childVars
<1> QED BY <1>1, <1>2

LEMMA ExpiryType ==
    ASSUME DocType, WorldType, LockExpires, UNCHANGED <<instanceVars, childVars>>
    PROVE  DocType' /\ WorldType'
BY DEF LockExpires, DocType, AppType, WorldType, instanceVars, entryVars, childVars

LEMMA ApiType ==
    ASSUME DocType, WorldType, ApiNext, UNCHANGED <<instanceVars, childVars>>
    PROVE  DocType' /\ WorldType'
<1> USE DEF DocType, AppType, WorldType, instanceVars, entryVars, childVars
<1>1. ASSUME NEW r \in Requests,
             \/ AdmitRestart(r) \/ AdmitStop(r) \/ AdmitStart(r)
             \/ AdmitDelete(r) \/ AdmitResize(r)
      PROVE  DocType' /\ WorldType'
  BY <1>1 DEF AdmitRestart, AdmitStop, AdmitStart, AdmitDelete, AdmitResize, Admit
<1>2. ASSUME NEW r \in Requests, ServeRequest(r) PROVE DocType' /\ WorldType'
  BY <1>2 DEF ServeRequest
<1>3. ASSUME ForceStop PROVE DocType' /\ WorldType'
  BY <1>3 DEF ForceStop
<1> QED BY <1>1, <1>2, <1>3 DEF ApiNext

LEMMA OthersType ==
    ASSUME DocType, WorldType, Others
    PROVE  DocType' /\ WorldType'
<1>1. DocType'
  BY DEF DocType, AppType, Others, ChildCreated, ChildRemoved, AdmitCreate, ServeCreate,
         NamespaceTerminated, DedicatedDatabaseTask, docVars
<1> USE DEF docVars, instanceVars, entryVars, childVars, WorldType
<1>2. ASSUME NEW k \in Kinds, ChildCreated(k) PROVE WorldType'
  <2> HIDE DEF Kinds
  <2> QED BY <1>2 DEF ChildCreated
<1>3. ASSUME NEW k \in Kinds, ChildRemoved(k) PROVE WorldType'
  <2> HIDE DEF Kinds
  <2> QED BY <1>3 DEF ChildRemoved
<1>4. ASSUME NEW k \in UserKinds, AdmitCreate(k) PROVE WorldType'
  BY <1>4 DEF AdmitCreate
<1>5. ASSUME NEW k \in UserKinds, ServeCreate(k) PROVE WorldType'
  <2>1. k \in Kinds
    BY UserKindsAssumption
  <2> HIDE DEF Kinds
  <2> QED BY <1>5, <2>1 DEF ServeCreate, Insert
<1>6. ASSUME NamespaceTerminated PROVE WorldType'
  BY <1>6 DEF NamespaceTerminated
<1>7. ASSUME DedicatedDatabaseTask PROVE WorldType'
  BY <1>7 DEF DedicatedDatabaseTask, DdbTask, DdbMove, DdbStop, DdbStart, DdbDelete,
              DdbStopped, DdbDeleted, DdbStarted, DdbTimeout, DdbPurge, NoDdb,
              DdbStates, DdbPhases
<1> QED BY <1>1, <1>2, <1>3, <1>4, <1>5, <1>6, <1>7 DEF Others

LEMMA InitType == Init => DocType /\ WorldType
<1> SUFFICES ASSUME Init PROVE DocType /\ WorldType
  OBVIOUS
<1>1. DocType
  BY IdleType DEF Init, DocInit, DocType, AppType, WorkerOK
<1>2. WorldType
  BY DedicatedAssumption, BoundAssumption
     DEF Init, DocInit, InstanceInit, ChildInit, DdbInit, NoDdb, DdbStates, DdbPhases, WorldType
<1> QED BY <1>1, <1>2

LEMMA NextType == DocType /\ WorldType /\ [Next]_vars => DocType' /\ WorldType'
<1> SUFFICES ASSUME DocType, WorldType, [Next]_vars PROVE DocType' /\ WorldType'
  OBVIOUS
<1>1. ASSUME NEW w \in Workers, Step(w) PROVE DocType' /\ WorldType'
  BY <1>1, InstanceStepType, InstanceStepWorld, ApplicationStepType, ApplicationStepWorld
     DEF Step
<1>2. ASSUME NEW w \in Workers, Claims(w) PROVE DocType' /\ WorldType'
  BY <1>2, InstanceClaimsType, ApplicationClaimsType, ClaimsWorld DEF Claims
<1>3. ASSUME UNCHANGED vars PROVE DocType' /\ WorldType'
  BY <1>3 DEF vars, docVars, instanceVars, entryVars, childVars, DocType, AppType, WorldType
<1> QED BY <1>1, <1>2, <1>3, ThrowType, TickType, ExpiryType, ApiType, OthersType DEF Next

\* The document, the handlers and what they manage keep their types, and no handler
\* leaves the sequence of steps of its job.
THEOREM TypeCorrect == Spec => []TypeOK
<1>1. Init => TypeOK
  BY InitType, TypeParts
<1>2. TypeOK /\ [Next]_vars => TypeOK'
  <2>1. TypeOK' <=> DocType' /\ WorldType'
    BY TypeParts, PTL
  <2> QED BY <2>1, NextType, TypeParts
<1> QED BY <1>1, <1>2, PTL DEF Spec

-----------------------------------------------------------------------------
(* The lock.  A handler either goes on with its job and leaves the document *)
(* alone, or ends with one write to it.                                     *)

\* The restart whose application was deleted under it.
Overtaken(w) == worker[w].job = "restarting" /\ app.phase \in {"Deleting", "Deleted", "Removed"}

\* Only handler w moves, and it goes on with its job or ends.
Moves(w) ==
    /\ \A v \in Workers \ {w} : worker'[v] = worker[v]
    /\ worker'[w].job = worker[w].job \/ worker'[w].job = "none"

LEMMA MovesKeep ==
    ASSUME DocType, LockIsHeld, NEW w \in Workers, Moves(w), app' = app
    PROVE  LockIsHeld'
BY DEF LockIsHeld, Live, Acting, Moves

\* The handlers that may unlock or relock are those whose jobs end that way.
LEMMA JobsOfSteps ==
    ASSUME DocType, NEW w \in Workers
    PROVE  /\ worker[w].at = "unlock" => worker[w].job \in {"creating", "deleting"}
           /\ worker[w].at = "relock" => worker[w].job \in {"starting", "stopping"}
BY DEF DocType, WorkerOK, WorkerType, StepsOf

\* A handler that holds the lock may give it up when it ends.
LEMMA SetLockKeeps ==
    ASSUME DocType, LockIsHeld, NEW w \in Workers, NEW lock \in {Free, Nobody},
           worker[w].job \in {"creating", "deleting", "starting", "stopping"},
           SetLock(lock), End(w)
    PROVE  LockIsHeld'
<1> SUFFICES ASSUME ~SlowHandlers, NEW v \in Workers, Live(v)'
             PROVE  (app.lock = v /\ Acting(v))' \/ Overtaken(v)'
  BY DEF LockIsHeld, Overtaken
<1>1. v # w /\ worker'[v] = worker[v] /\ Live(v)
  BY DEF End, DocType, Live, Idle
<1>2. app.lock = w
  BY DEF LockIsHeld, Live
<1>3. Overtaken(v)
  BY <1>1, <1>2 DEF LockIsHeld, Overtaken
<1>4. app'.phase = app.phase
  BY DEF SetLock, DocType, AppType
<1> QED BY <1>1, <1>3, <1>4 DEF Overtaken

\* The guarded write at the end of a handler: if the document is still in its phase,
\* then no other handler is working but, at the end of a deletion, overtaken ones.
LEMMA WriteKeeps ==
    ASSUME DocType, LockIsHeld, NEW w \in Workers, Live(w), NEW state, NEW phase,
           worker[w].job = "deleting" => phase = "Deleted",
           WriteIfPhase(JobPhases[worker[w].job], state, phase), End(w)
    PROVE  LockIsHeld'
<1> SUFFICES ASSUME ~SlowHandlers, NEW v \in Workers, Live(v)'
             PROVE  (app.lock = v /\ Acting(v))' \/ Overtaken(v)'
  BY DEF LockIsHeld, Overtaken
<1>1. v # w /\ worker'[v] = worker[v] /\ Live(v)
  BY DEF End, DocType, Live, Idle
<1>2. worker[w].job \in Jobs
  BY DEF DocType, WorkerType, Live
<1>3. CASE app.phase \notin JobPhases[worker[w].job]
  <2>1. app' = app
    BY <1>3 DEF WriteIfPhase
  <2> QED BY <1>1, <2>1 DEF LockIsHeld, Acting, Live, Overtaken
<1>4. CASE app.phase \in JobPhases[worker[w].job]
  <2>1. app.lock = w
    BY <1>2, <1>4 DEF LockIsHeld, JobPhases
  <2>2. Overtaken(v)
    BY <1>1, <2>1 DEF LockIsHeld, Overtaken
  <2>3. worker[w].job = "deleting"
    BY <1>2, <1>4, <2>2 DEF Overtaken, JobPhases
  <2>4. app'.phase = "Deleted"
    BY <1>4, <2>3 DEF WriteIfPhase
  <2> QED BY <1>1, <2>2, <2>4 DEF Overtaken
<1> QED BY <1>3, <1>4

LEMMA ClaimKeeps ==
    ASSUME DocType, LockIsHeld, NEW w \in Workers, NEW job \in Jobs, NEW first,
           Claim(w, job, first)
    PROVE  LockIsHeld'
<1> SUFFICES ASSUME ~SlowHandlers, NEW v \in Workers, Live(v)'
             PROVE  (app.lock = v /\ Acting(v))' \/ Overtaken(v)'
  BY DEF LockIsHeld, Overtaken
<1>1. /\ app'.lock = w /\ app'.phase = app.phase
      /\ app.phase \in JobPhases[job] /\ app.lock = Free
  BY DEF Claim, DocType, AppType
<1>2. CASE v = w
  <2>1. worker'[w].job = job
    BY DEF Claim, DocType, Idle
  <2> QED BY <1>1, <1>2, <2>1 DEF Acting, Live
<1>3. CASE v # w
  <2>1. worker'[v] = worker[v]
    BY <1>3 DEF Claim, DocType
  <2>2. Overtaken(v)
    BY <1>1, <2>1, LockAssumption DEF LockIsHeld, Live, Overtaken
  <2> QED BY <1>1, <2>1, <2>2 DEF Overtaken
<1> QED BY <1>2, <1>3

LEMMA InstanceStepLock ==
    ASSUME DocType, LockIsHeld, NEW w \in Workers, InstanceStep(w)
    PROVE  LockIsHeld'
<1>1. ASSUME StartReadDdb(w) PROVE Moves(w) /\ app' = app
  BY <1>1 DEF StartReadDdb, Moves, DocType, WorkerType, At, Goto, End, Idle, Look, NextEntry, CreateObject, DeleteObject, Finding
<1>2. ASSUME StartDdbRun(w) PROVE Moves(w) /\ app' = app
  BY <1>2 DEF StartDdbRun, Moves, DocType, WorkerType, At, Goto, End, Idle, Look, NextEntry, CreateObject, DeleteObject, Finding
<1>3. ASSUME CreateGet(w) PROVE Moves(w) /\ app' = app
  BY <1>3 DEF CreateGet, Moves, DocType, WorkerType, At, Goto, End, Idle, Look, NextEntry, CreateObject, DeleteObject, Finding
<1>4. ASSUME CreateDeployment(w) PROVE Moves(w) /\ app' = app
  BY <1>4 DEF CreateDeployment, Moves, DocType, WorkerType, At, Goto, End, Idle, Look, NextEntry, CreateObject, DeleteObject, Finding
<1>5. ASSUME CreateService(w) PROVE Moves(w) /\ app' = app
  BY <1>5 DEF CreateService, Moves, DocType, WorkerType, At, Goto, End, Idle, Look, NextEntry, CreateObject, DeleteObject, Finding
<1>6. ASSUME StartAvailable(w) PROVE Moves(w) /\ app' = app
  BY <1>6 DEF StartAvailable, Moves, DocType, WorkerType, At, Goto, End, Idle, Look, NextEntry, CreateObject, DeleteObject, Finding
<1>7. ASSUME StartUnavailable(w) PROVE Moves(w) /\ app' = app
  BY <1>7 DEF StartUnavailable, Moves, DocType, WorkerType, At, Goto, End, Idle, Look, NextEntry, CreateObject, DeleteObject, Finding
<1>8. ASSUME StartActivate(w) PROVE Moves(w) /\ app' = app
  BY <1>8 DEF StartActivate, Moves, DocType, WorkerType, At, Goto, End, Idle, Look, NextEntry, CreateObject, DeleteObject, Finding
<1>9. ASSUME StopInactivate(w) PROVE Moves(w) /\ app' = app
  BY <1>9 DEF StopInactivate, Moves, DocType, WorkerType, At, Goto, End, Idle, Look, NextEntry, CreateObject, DeleteObject, Finding
<1>10. ASSUME StopReadDdb(w) PROVE Moves(w) /\ app' = app
  BY <1>10 DEF StopReadDdb, Moves, DocType, WorkerType, At, Goto, End, Idle, Look, NextEntry, CreateObject, DeleteObject, Finding
<1>11. ASSUME StopDdbStop(w) PROVE Moves(w) /\ app' = app
  BY <1>11 DEF StopDdbStop, Moves, DocType, WorkerType, At, Goto, End, Idle, Look, NextEntry, CreateObject, DeleteObject, Finding
<1>12. ASSUME StopGet(w) PROVE Moves(w) /\ app' = app
  BY <1>12 DEF StopGet, Moves, DocType, WorkerType, At, Goto, End, Idle, Look, NextEntry, CreateObject, DeleteObject, Finding
<1>13. ASSUME StopRemove(w) PROVE Moves(w) /\ app' = app
  BY <1>13 DEF StopRemove, Moves, DocType, WorkerType, At, Goto, End, Idle, Look, NextEntry, CreateObject, DeleteObject, Finding
<1>14. ASSUME StopRemoveDeployment(w) PROVE Moves(w) /\ app' = app
  BY <1>14 DEF StopRemoveDeployment, Moves, DocType, WorkerType, At, Goto, End, Idle, Look, NextEntry, CreateObject, DeleteObject, Finding
<1>15. ASSUME StopRemoveService(w) PROVE Moves(w) /\ app' = app
  BY <1>15 DEF StopRemoveService, Moves, DocType, WorkerType, At, Goto, End, Idle, Look, NextEntry, CreateObject, DeleteObject, Finding
<1>16. ASSUME RestartDdb(w) PROVE Moves(w) /\ app' = app
  BY <1>16 DEF RestartDdb, Moves, DocType, WorkerType, At, Goto, End, Idle, Look, NextEntry, CreateObject, DeleteObject, Finding
<1>17. ASSUME RestartGet(w) PROVE Moves(w) /\ app' = app
  BY <1>17 DEF RestartGet, Moves, DocType, WorkerType, At, Goto, End, Idle, Look, NextEntry, CreateObject, DeleteObject, Finding
<1>18. ASSUME RestartReplace(w) PROVE Moves(w) /\ app' = app
  BY <1>18 DEF RestartReplace, Moves, DocType, WorkerType, At, Goto, End, Idle, Look, NextEntry, CreateObject, DeleteObject, Finding
<1>19. ASSUME StartTimeout(w) PROVE LockIsHeld'
  BY <1>19, WriteKeeps DEF StartTimeout, At, Live, JobPhases
<1>20. ASSUME StartConclude(w) PROVE LockIsHeld'
  <2>1. JobPhases[worker[w].job] = {"Starting"} /\ Live(w) /\ worker[w].job # "deleting"
    BY <1>20 DEF StartConclude, At, Live, JobPhases
  <2> QED BY <1>20, <2>1, WriteKeeps DEF StartConclude
<1>21. ASSUME StopConclude(w) PROVE LockIsHeld'
  <2>1. JobPhases[worker[w].job] = {"Stopping"} /\ Live(w) /\ worker[w].job # "deleting"
    BY <1>21 DEF StopConclude, At, Live, JobPhases
  <2> QED BY <1>21, <2>1, WriteKeeps DEF StopConclude
<1>22. ASSUME RestartConclude(w) PROVE LockIsHeld'
  <2>1. JobPhases[worker[w].job] = {"Started", "Stopped"} /\ Live(w) /\ worker[w].job # "deleting"
    BY <1>22 DEF RestartConclude, At, Live, JobPhases
  <2> QED BY <1>22, <2>1, WriteKeeps DEF RestartConclude
<1>23. ASSUME InstanceRelock(w) PROVE LockIsHeld'
  BY <1>23, SetLockKeeps, JobsOfSteps DEF InstanceRelock, Relock
<1> QED BY <1>1, <1>2, <1>3, <1>4, <1>5, <1>6, <1>7, <1>8, <1>9, <1>10,
          <1>11, <1>12, <1>13, <1>14, <1>15, <1>16, <1>17, <1>18, <1>19, <1>20,
          <1>21, <1>22, <1>23,
          MovesKeep DEF InstanceStep

LEMMA ApplicationStepLock ==
    ASSUME DocType, LockIsHeld, NEW w \in Workers, ApplicationStep(w)
    PROVE  LockIsHeld'
<1>1. ASSUME CreatingReadNamespace(w) PROVE Moves(w) /\ app' = app
  BY <1>1 DEF CreatingReadNamespace, Moves, DocType, WorkerType, At, Goto, End, Idle, Look, NextEntry, CreateObject, DeleteObject, Finding
<1>2. ASSUME CreatingNamespace(w) PROVE Moves(w) /\ app' = app
  BY <1>2 DEF CreatingNamespace, Moves, DocType, WorkerType, At, Goto, End, Idle, Look, NextEntry, CreateObject, DeleteObject, Finding
<1>3. ASSUME CreatingSkip(w) PROVE Moves(w) /\ app' = app
  BY <1>3 DEF CreatingSkip, Moves, DocType, WorkerType, At, Goto, End, Idle, Look, NextEntry, CreateObject, DeleteObject, Finding
<1>4. ASSUME CreatingFind(w) PROVE Moves(w) /\ app' = app
  BY <1>4 DEF CreatingFind, Moves, DocType, WorkerType, At, Goto, End, Idle, Look, NextEntry, CreateObject, DeleteObject, Finding
<1>5. ASSUME CreatingMissing(w) PROVE Moves(w) /\ app' = app
  BY <1>5 DEF CreatingMissing, Moves, DocType, WorkerType, At, Goto, End, Idle, Look, NextEntry, CreateObject, DeleteObject, Finding
<1>6. ASSUME CreatingInsert(w) PROVE Moves(w) /\ app' = app
  BY <1>6 DEF CreatingInsert, Moves, DocType, WorkerType, At, Goto, End, Idle, Look, NextEntry, CreateObject, DeleteObject, Finding
<1>7. ASSUME CreatingWait(w) PROVE Moves(w) /\ app' = app
  BY <1>7 DEF CreatingWait, Moves, DocType, WorkerType, At, Goto, End, Idle, Look, NextEntry, CreateObject, DeleteObject, Finding
<1>8. ASSUME DeletingSkip(w) PROVE Moves(w) /\ app' = app
  BY <1>8 DEF DeletingSkip, Moves, DocType, WorkerType, At, Goto, End, Idle, Look, NextEntry, CreateObject, DeleteObject, Finding
<1>9. ASSUME DeletingRemove(w) PROVE Moves(w) /\ app' = app
  BY <1>9 DEF DeletingRemove, Moves, DocType, WorkerType, At, Goto, End, Idle, Look, NextEntry, CreateObject, DeleteObject, Finding
<1>10. ASSUME DeletingRemoveDdb(w) PROVE Moves(w) /\ app' = app
  BY <1>10 DEF DeletingRemoveDdb, Moves, DocType, WorkerType, At, Goto, End, Idle, Look, NextEntry, CreateObject, DeleteObject, Finding
<1>11. ASSUME DeletingReadNamespace(w) PROVE Moves(w) /\ app' = app
  BY <1>11 DEF DeletingReadNamespace, Moves, DocType, WorkerType, At, Goto, End, Idle, Look, NextEntry, CreateObject, DeleteObject, Finding
<1>12. ASSUME DeletingNamespace(w) PROVE Moves(w) /\ app' = app
  BY <1>12 DEF DeletingNamespace, Moves, DocType, WorkerType, At, Goto, End, Idle, Look, NextEntry, CreateObject, DeleteObject, Finding
<1>13. ASSUME CreatingConclude(w) PROVE LockIsHeld'
  BY <1>13, WriteKeeps DEF CreatingConclude, At, Live, JobPhases
<1>14. ASSUME DeletingConclude(w) PROVE LockIsHeld'
  BY <1>14, WriteKeeps DEF DeletingConclude, At, Live, JobPhases
<1>15. ASSUME Unlock(w) PROVE LockIsHeld'
  BY <1>15, SetLockKeeps, JobsOfSteps DEF Unlock
<1> QED BY <1>1, <1>2, <1>3, <1>4, <1>5, <1>6, <1>7, <1>8, <1>9, <1>10,
          <1>11, <1>12, <1>13, <1>14, <1>15,
          MovesKeep DEF ApplicationStep

LEMMA ClaimsLock ==
    ASSUME DocType, LockIsHeld, NEW w \in Workers, Claims(w)
    PROVE  LockIsHeld'
BY ClaimKeeps DEF Claims, InstanceClaims, ApplicationClaims, StartClaim, StartClaimLate,
   StopClaim, RestartClaim, CreatingClaim, DeletingClaim

\* The ticks find the document unlocked, or overtake a restart.
LEMMA TickLock ==
    ASSUME DocType, LockIsHeld, Tick
    PROVE  LockIsHeld'
<1> SUFFICES ASSUME ~SlowHandlers, NEW v \in Workers, Live(v)'
             PROVE  (app.lock = v /\ Acting(v))' \/ Overtaken(v)'
  BY DEF LockIsHeld, Overtaken
<1>1. worker' = worker /\ Live(v)
  BY DEF Tick, InstanceTick, ApplicationTick, HandleRunningState, HandleStoppedState,
         HandleDeletedState, PurgeDeleted, Live
<1>2. (app.lock = v /\ Acting(v)) \/ Overtaken(v)
  BY <1>1 DEF LockIsHeld, Overtaken
<1>3. worker[v].job \in Jobs
  BY <1>1 DEF DocType, WorkerType, Live
<1>4. CASE HandleRunningState \/ HandleStoppedState
  BY <1>2, <1>4, LockAssumption DEF HandleRunningState, HandleStoppedState, Overtaken
<1>5. CASE HandleDeletedState
  <2>1. worker[v].job = "restarting"
    BY <1>2, <1>3, <1>5 DEF HandleDeletedState, Acting, JobPhases, Overtaken
  <2>2. app'.phase = "Deleting"
    BY <1>5 DEF HandleDeletedState, DocType, AppType
  <2> QED BY <1>1, <2>1, <2>2 DEF Overtaken
<1>6. CASE PurgeDeleted
  <2>1. worker[v].job = "restarting"
    BY <1>2, <1>3, <1>6 DEF PurgeDeleted, Acting, JobPhases, Overtaken
  <2>2. app'.phase = "Removed"
    BY <1>6 DEF PurgeDeleted, DocType, AppType
  <2> QED BY <1>1, <2>1, <2>2 DEF Overtaken
<1> QED BY <1>4, <1>5, <1>6 DEF Tick, InstanceTick, ApplicationTick

\* A lock only expires under a handler that has ended, if handlers are not slow.
LEMMA ExpiryLock ==
    ASSUME DocType, LockIsHeld, LockExpires
    PROVE  LockIsHeld'
<1> SUFFICES ASSUME ~SlowHandlers, NEW v \in Workers, Live(v)'
             PROVE  Overtaken(v)'
  BY DEF LockIsHeld, Overtaken
<1>1. worker' = worker /\ Live(v) /\ app'.phase = app.phase
  BY DEF LockExpires, Live, DocType, AppType
<1>2. app.lock # v
  BY <1>1, LockAssumption DEF LockExpires
<1> QED BY <1>1, <1>2 DEF LockIsHeld, Overtaken

\* The API writes the intent alone.
LEMMA ApiLock ==
    ASSUME DocType, LockIsHeld, ApiNext
    PROVE  LockIsHeld'
<1>1. worker' = worker /\ app'.phase = app.phase /\ app'.lock = app.lock
  BY DEF ApiNext, AdmitRestart, AdmitStop, AdmitStart, AdmitDelete, AdmitResize, Admit,
         ServeRequest, ForceStop, DocType, AppType
<1> QED BY <1>1 DEF LockIsHeld, Live, Acting

LEMMA OthersLock ==
    ASSUME LockIsHeld, Others
    PROVE  LockIsHeld'
<1>1. worker' = worker /\ app' = app
  BY DEF Others, ChildCreated, ChildRemoved, AdmitCreate, ServeCreate,
         NamespaceTerminated, DedicatedDatabaseTask, docVars
<1> QED BY <1>1 DEF LockIsHeld, Live, Acting

LEMMA NextLock == DocType /\ LockIsHeld /\ [Next]_vars => LockIsHeld'
<1> SUFFICES ASSUME DocType, LockIsHeld, [Next]_vars PROVE LockIsHeld'
  OBVIOUS
<1>1. ASSUME NEW w \in Workers, Step(w) PROVE LockIsHeld'
  BY <1>1, InstanceStepLock, ApplicationStepLock DEF Step
<1>2. ASSUME NEW w \in Workers, Throw(w) PROVE LockIsHeld'
  <2>1. Moves(w) /\ app' = app
    BY <1>2 DEF Throw, End, Moves, DocType, Idle
  <2> QED BY <2>1, MovesKeep
<1>3. ASSUME UNCHANGED vars PROVE LockIsHeld'
  BY <1>3 DEF vars, docVars, LockIsHeld, Live, Acting
<1> QED BY <1>1, <1>2, <1>3, ClaimsLock, TickLock, ExpiryLock, ApiLock, OthersLock DEF Next

\* A handler that has not outlasted its lock holds it, in the phase it claimed.
THEOREM LockKept == Spec => []LockIsHeld
<1>1. Init => LockIsHeld
  BY DEF Init, DocInit, LockIsHeld, Live, Idle
<1>2. TypeOK /\ LockIsHeld /\ [Next]_vars => LockIsHeld'
  BY NextLock, TypeParts
<1> QED BY <1>1, <1>2, TypeCorrect, PTL DEF Spec

\* Handlers whose locks do not time out under them never work on one phase together.
THEOREM Exclusion == Spec => []HandlerExclusion
<1>1. TypeOK /\ LockIsHeld => HandlerExclusion
  <2> SUFFICES ASSUME DocType, LockIsHeld, ~SlowHandlers,
                      NEW v \in Workers, NEW w \in Workers, Acting(v), Acting(w)
               PROVE  v = w
    BY TypeParts DEF HandlerExclusion
  <2>1. ~Overtaken(v) /\ ~Overtaken(w)
    BY DEF Acting, Overtaken, JobPhases
  <2> QED BY <2>1 DEF LockIsHeld, Acting, Overtaken
<1> QED BY <1>1, TypeCorrect, LockKept, PTL

-----------------------------------------------------------------------------
(* The life cycle of the phase, for handlers that may be as slow as they like. *)

\* Steps of handlers change the phase only in the writes that end them.
LEMMA StepCycle ==
    ASSUME DocType, NEW w \in Workers, Step(w), app'.phase # app.phase
    PROVE  <<app.phase, app'.phase>> \in LifeCycle
<1>1. ASSUME StartTimeout(w) \/ StartConclude(w) PROVE <<app.phase, app'.phase>> \in LifeCycle
  BY <1>1 DEF StartTimeout, StartConclude, WriteIfPhase, DocType, AppType, LifeCycle
<1>2. ASSUME StopConclude(w) PROVE <<app.phase, app'.phase>> \in LifeCycle
  BY <1>2 DEF StopConclude, WriteIfPhase, DocType, AppType, LifeCycle
<1>3. ASSUME RestartConclude(w) PROVE <<app.phase, app'.phase>> \in LifeCycle
  BY <1>3 DEF RestartConclude, WriteIfPhase, DocType, AppType, LifeCycle
<1>4. ASSUME CreatingConclude(w) PROVE <<app.phase, app'.phase>> \in LifeCycle
  BY <1>4 DEF CreatingConclude, WriteIfPhase, DocType, AppType, LifeCycle
<1>5. ASSUME DeletingConclude(w) PROVE <<app.phase, app'.phase>> \in LifeCycle
  BY <1>5 DEF DeletingConclude, WriteIfPhase, DocType, AppType, LifeCycle
<1>6. ASSUME InstanceRelock(w) \/ Unlock(w) PROVE app'.phase = app.phase
  BY <1>6 DEF InstanceRelock, Relock, Unlock, SetLock, DocType, AppType
<1> QED BY <1>1, <1>2, <1>3, <1>4, <1>5, <1>6
        DEF Step, InstanceStep, ApplicationStep, StartReadDdb, StartDdbRun, CreateGet,
            CreateDeployment, CreateService, StartAvailable, StartUnavailable, StartActivate,
            StopInactivate, StopReadDdb, StopDdbStop, StopGet, StopRemove,
            StopRemoveDeployment, StopRemoveService, RestartDdb, RestartGet, RestartReplace,
            CreatingReadNamespace, CreatingNamespace, CreatingSkip, CreatingFind,
            CreatingMissing, CreatingInsert, CreatingWait, DeletingSkip, DeletingRemove,
            DeletingRemoveDdb, DeletingReadNamespace, DeletingNamespace

LEMMA NextCycle ==
    ASSUME DocType, Next, app'.phase # app.phase
    PROVE  <<app.phase, app'.phase>> \in LifeCycle
<1> USE DEF DocType, AppType
<1>1. ASSUME NEW w \in Workers, Claims(w) PROVE app'.phase = app.phase
  BY <1>1 DEF Claims, InstanceClaims, ApplicationClaims, StartClaim, StartClaimLate,
              StopClaim, RestartClaim, CreatingClaim, DeletingClaim, Claim
<1>2. ASSUME Tick PROVE <<app.phase, app'.phase>> \in LifeCycle
  BY <1>2 DEF Tick, InstanceTick, ApplicationTick, HandleRunningState, HandleStoppedState,
              HandleDeletedState, PurgeDeleted, LifeCycle
<1>3. ASSUME ApiNext PROVE app'.phase = app.phase
  BY <1>3 DEF ApiNext, AdmitRestart, AdmitStop, AdmitStart, AdmitDelete, AdmitResize,
              Admit, ServeRequest, ForceStop
<1>4. ASSUME LockExpires PROVE app'.phase = app.phase
  BY <1>4 DEF LockExpires
<1>5. ASSUME Others PROVE app' = app
  BY <1>5 DEF Others, ChildCreated, ChildRemoved, AdmitCreate, ServeCreate,
              NamespaceTerminated, DedicatedDatabaseTask, docVars
<1>6. ASSUME NEW w \in Workers, Throw(w) PROVE app' = app
  BY <1>6 DEF Throw
<1> QED BY <1>1, <1>2, <1>3, <1>4, <1>5, <1>6, StepCycle DEF Next

\* Whatever handlers, requests and faults interleave, the phase only ever makes the
\* moves of the documented life cycle.
THEOREM LifeCycleKept == Spec => PhaseFollowsLifeCycle
<1>1. TypeOK /\ [Next]_vars => [app'.phase # app.phase =>
                                <<app.phase, app'.phase>> \in LifeCycle]_vars
  BY NextCycle, TypeParts
<1> QED BY <1>1, TypeCorrect, PTL DEF Spec, PhaseFollowsLifeCycle
=============================================================================
