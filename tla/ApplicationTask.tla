--------------------------- MODULE ApplicationTask ---------------------------
(***************************************************************************)
(* ApplicationTaskService: the handlers that create what an application    *)
(* needs before it can start and delete everything it owns at its end.     *)
(* The documents it inserts and marks (child) are reconciled by the tasks  *)
(* of their own collections, of which only the outcome appears here.       *)
(***************************************************************************)
EXTENDS InstanceTask

CONSTANTS
    NamespaceMode,   \* "fixed": one namespace for all applications; or "appid"
    UserKinds        \* what API requests create in this instance of the model

\* The order in which handleDeletingPhase looks for what is left.
DeleteOrder == <<"CronTrigger", "CloudFunction", "DatabasePolicy",
                 "ApplicationConfiguration", "ApplicationBundle",
                 "WebsiteHosting", "RuntimeDomain", "BucketDomain",
                 "Database", "DedicatedDatabase", "StorageUser", "StorageBucket">>
Kinds == {"CronTrigger", "CloudFunction", "DatabasePolicy", "ApplicationConfiguration",
          "ApplicationBundle", "WebsiteHosting", "RuntimeDomain", "BucketDomain",
          "Database", "StorageUser", "StorageBucket"}

\* Kinds a task of their own removes once they are marked.
TaskKinds == {"CronTrigger", "WebsiteHosting", "RuntimeDomain", "BucketDomain",
              "StorageUser", "StorageBucket"}

ASSUME ModeAssumption == NamespaceMode \in {"fixed", "appid"}
ASSUME UserKindsAssumption ==
    UserKinds \subseteq Kinds \ {"ApplicationConfiguration", "ApplicationBundle",
                                 "RuntimeDomain", "Database", "StorageUser"}

VARIABLES
    child,     \* each of Kinds: "absent", "Creating", "Created" or "Deleting"
    twice,     \* the Kinds of which a second document was inserted
    creating,  \* the UserKinds an admitted API request is about to insert
    late       \* the UserKinds inserted after the deletion had begun

childVars == <<child, twice, creating, late>>

ChildInit ==
    /\ child = [k \in Kinds |-> IF k \in {"ApplicationConfiguration", "ApplicationBundle"}
                                  THEN "Created" ELSE "absent"]
    /\ twice = {}
    /\ creating = {}
    /\ late = {}

Insert(k) ==
    child' = [child EXCEPT ![k] = IF @ # "absent" THEN @
                                  ELSE IF k \in TaskKinds THEN "Creating"
                                  ELSE "Created"]

-----------------------------------------------------------------------------
(* handleCreatingPhase *)

CreateOrder == <<"StorageUser", "RuntimeDomain", "Database">>

CreatingClaim(w) ==
    /\ Claim(w, "creating", "namespace")
    /\ UNCHANGED <<request, faults, instanceVars, childVars>>

CreatingReadNamespace(w) ==
    /\ At(w, "creating", "namespace")
    /\ Goto(w, IF namespace = "absent" THEN "createNamespace" ELSE "find")
    /\ UNCHANGED <<app, request, faults, instanceVars, childVars>>

\* A namespace that exists by now throws AlreadyExists.
CreatingNamespace(w) ==
    /\ At(w, "creating", "createNamespace")
    /\ IF namespace = "absent" THEN namespace' = "Active" /\ Goto(w, "unlock")
                               ELSE End(w) /\ UNCHANGED namespace
    /\ UNCHANGED <<app, request, faults, instance, entryVars, ddb, childVars>>

\* The resource handleCreatingPhase looks for next.
NextResource(w) == CreateOrder[worker[w].i + 1]

Finding(w) == At(w, "creating", "find") /\ worker[w].i < Len(CreateOrder)

\* A dedicated database takes the place of the shared one.
Needed(k) == k = "Database" => ~DdbExists

CreatingSkip(w) ==
    /\ Finding(w)
    /\ ~Needed(NextResource(w))
    /\ worker' = [worker EXCEPT ![w].i = @ + 1]
    /\ UNCHANGED <<app, request, faults, instanceVars, childVars>>

\* findOne: saw collects the resources that are not Created yet.
CreatingFind(w) ==
    /\ Finding(w)
    /\ Needed(NextResource(w))
    /\ child[NextResource(w)] # "absent"
    /\ worker' = [worker EXCEPT
                    ![w].i   = @ + 1,
                    ![w].saw = IF child[NextResource(w)] = "Created" THEN @
                               ELSE @ \cup {NextResource(w)}]
    /\ UNCHANGED <<app, request, faults, instanceVars, childVars>>

CreatingMissing(w) ==
    /\ Finding(w)
    /\ Needed(NextResource(w))
    /\ child[NextResource(w)] = "absent"
    /\ Goto(w, "insert")
    /\ UNCHANGED <<app, request, faults, instanceVars, childVars>>

\* insertOne, and the findOne that follows it: a database is Created at once.
CreatingInsert(w) ==
    /\ At(w, "creating", "insert")
    /\ Insert(NextResource(w))
    /\ twice' = IF child[NextResource(w)] # "absent" THEN twice \cup {NextResource(w)}
                                                     ELSE twice
    /\ worker' = [worker EXCEPT
                    ![w].at  = "find",
                    ![w].i   = @ + 1,
                    ![w].saw = IF NextResource(w) \in TaskKinds THEN @ \cup {NextResource(w)}
                                                                ELSE @]
    /\ UNCHANGED <<app, request, faults, instanceVars, creating, late>>

\* Mutant: only the database is waited for.
CreatingWaitDatabase(w) ==
    /\ At(w, "creating", "find")
    /\ worker[w].i = Len(CreateOrder)
    /\ Goto(w, IF "Database" \notin worker[w].saw THEN "conclude" ELSE "unlock")
    /\ UNCHANGED <<app, request, faults, instanceVars, childVars>>

\* Waiting for every resource to be Created.
CreatingWait(w) ==
    /\ At(w, "creating", "find")
    /\ worker[w].i = Len(CreateOrder)
    /\ Goto(w, IF worker[w].saw = {} THEN "conclude" ELSE "unlock")
    /\ UNCHANGED <<app, request, faults, instanceVars, childVars>>

CreatingConclude(w) ==
    /\ At(w, "creating", "conclude")
    /\ WriteIfPhase({"Creating"}, app.state, "Created")
    /\ End(w)
    /\ UNCHANGED <<request, faults, instanceVars, childVars>>

-----------------------------------------------------------------------------
(* handleDeletingPhase *)

DeletingClaim(w) ==
    /\ Claim(w, "deleting", "look")
    /\ UNCHANGED <<request, faults, instanceVars, childVars>>

\* The kind handleDeletingPhase looks for next.
NextKind(w) == DeleteOrder[worker[w].i + 1]

Present(k) == IF k = "DedicatedDatabase" THEN DdbExists ELSE child[k] # "absent"

\* Nothing left of this kind: on to the next one.
DeletingSkip(w) ==
    /\ At(w, "deleting", "look")
    /\ worker[w].i < Len(DeleteOrder)
    /\ ~Present(NextKind(w))
    /\ worker' = [worker EXCEPT ![w].i = @ + 1]
    /\ UNCHANGED <<app, request, faults, instanceVars, childVars>>

\* deleteUsersAndBuckets marks both collections, the others one each.
MarkedWith(k) == IF k \in {"StorageUser", "StorageBucket"}
                   THEN {"StorageUser", "StorageBucket"} ELSE {k}

\* Something left: remove it or mark it, unlock, look again at the next tick.
DeletingRemove(w) ==
    /\ At(w, "deleting", "look")
    /\ worker[w].i < Len(DeleteOrder)
    /\ NextKind(w) # "DedicatedDatabase"
    /\ Present(NextKind(w))
    /\ child' = [k \in Kinds |->
                   IF k \notin MarkedWith(NextKind(w)) \/ child[k] = "absent" THEN child[k]
                   ELSE IF k \in TaskKinds THEN "Deleting" ELSE "absent"]
    /\ Goto(w, "unlock")
    /\ UNCHANGED <<app, request, faults, instanceVars, twice, creating, late>>

DeletingRemoveDdb(w) ==
    /\ At(w, "deleting", "look")
    /\ worker[w].i < Len(DeleteOrder)
    /\ NextKind(w) = "DedicatedDatabase"
    /\ Present(NextKind(w))
    /\ DdbRemove
    /\ Goto(w, "unlock")
    /\ UNCHANGED <<app, request, faults, namespace, instance, entryVars, childVars>>

\* Mutant: a namespace that terminates counts as gone.
DeletingReadNamespaceEarly(w) ==
    /\ At(w, "deleting", "look")
    /\ worker[w].i = Len(DeleteOrder)
    /\ Goto(w, IF NamespaceMode = "appid" /\ namespace = "Active" THEN "removeNamespace"
                                                                  ELSE "conclude")
    /\ UNCHANGED <<app, request, faults, instanceVars, childVars>>

\* Only in appid mode does the namespace, with the instance in it, go.
DeletingReadNamespace(w) ==
    /\ At(w, "deleting", "look")
    /\ worker[w].i = Len(DeleteOrder)
    /\ Goto(w, IF NamespaceMode = "appid" /\ namespace # "absent" THEN "removeNamespace"
                                                                  ELSE "conclude")
    /\ UNCHANGED <<app, request, faults, instanceVars, childVars>>

\* deleteNamespace: the cluster lets it terminate; one that is gone throws.
DeletingNamespace(w) ==
    /\ At(w, "deleting", "removeNamespace")
    /\ IF namespace = "absent" THEN End(w) /\ UNCHANGED namespace
                               ELSE namespace' = "Terminating" /\ Goto(w, "unlock")
    /\ UNCHANGED <<app, request, faults, instance, entryVars, ddb, childVars>>

DeletingConclude(w) ==
    /\ At(w, "deleting", "conclude")
    /\ WriteIfPhase({"Deleting"}, app.state, "Deleted")
    /\ End(w)
    /\ UNCHANGED <<request, faults, instanceVars, childVars>>

-----------------------------------------------------------------------------
(* handleDeletedState: neither query looks at the lock *)

\* Mutant: stopped applications are forgotten.
HandleDeletedStateStarted ==
    /\ app.state = "Deleted"
    /\ app.phase \in {"Created", "Started"}
    /\ app' = [app EXCEPT !.phase = "Deleting", !.lock = Free]
    /\ UNCHANGED <<worker, request, faults, instanceVars, childVars>>

HandleDeletedState ==
    /\ app.state = "Deleted"
    /\ app.phase \in {"Created", "Started", "Stopped"}
    /\ app' = [app EXCEPT !.phase = "Deleting", !.lock = Free]
    /\ UNCHANGED <<worker, request, faults, instanceVars, childVars>>

PurgeDeleted ==
    /\ app.state = "Deleted"
    /\ app.phase = "Deleted"
    /\ app' = [app EXCEPT !.phase = "Removed", !.lock = Free]
    /\ UNCHANGED <<worker, request, faults, instanceVars, childVars>>

-----------------------------------------------------------------------------
(* The other tasks, the cluster and the API *)

ChildCreated(k) ==
    /\ child[k] = "Creating"
    /\ child' = [child EXCEPT ![k] = "Created"]
    /\ UNCHANGED <<docVars, instanceVars, twice, creating, late>>

ChildRemoved(k) ==
    /\ child[k] = "Deleting"
    /\ child' = [child EXCEPT ![k] = "absent"]
    /\ UNCHANGED <<docVars, instanceVars, twice, creating, late>>

NamespaceTerminated ==
    /\ namespace = "Terminating"
    /\ namespace' = "absent"
    /\ instance' = {}
    /\ UNCHANGED <<docVars, entryVars, ddb, childVars>>

\* ApplicationAuthGuard finds the application, later the document is inserted: nobody
\* looks at the phase, and a trigger, website or bucket domain is inserted Active even
\* while the application is stopped.
AdmitCreate(k) ==
    /\ Exists
    /\ k \notin creating
    /\ child[k] = "absent"
    /\ creating' = creating \cup {k}
    /\ UNCHANGED <<docVars, instanceVars, child, twice, late>>

ServeCreate(k) ==
    /\ k \in creating
    /\ Insert(k)
    /\ late' = IF app.phase \in {"Deleting", "Deleted", "Removed"} THEN late \cup {k} ELSE late
    /\ creating' = creating \ {k}
    /\ active' = active \cup ({k} \cap EntryKinds)
    /\ fresh' = fresh \cup ({k} \cap EntryKinds)
    /\ UNCHANGED <<docVars, namespace, instance, ddb, twice>>

DedicatedDatabaseTask == DdbTask /\ UNCHANGED <<docVars, namespace, instance, entryVars, childVars>>

ApplicationStep(w) ==
    \/ CreatingReadNamespace(w) \/ CreatingNamespace(w) \/ CreatingSkip(w)
    \/ CreatingFind(w) \/ CreatingMissing(w) \/ CreatingInsert(w)
    \/ CreatingWait(w) \/ CreatingConclude(w)
    \/ DeletingSkip(w) \/ DeletingRemove(w) \/ DeletingRemoveDdb(w)
    \/ DeletingReadNamespace(w) \/ DeletingNamespace(w) \/ DeletingConclude(w)
    \/ (Unlock(w) /\ UNCHANGED <<request, faults, instanceVars, childVars>>)

ApplicationClaims(w) == CreatingClaim(w) \/ DeletingClaim(w)
ApplicationTick == HandleDeletedState \/ PurgeDeleted
=============================================================================
