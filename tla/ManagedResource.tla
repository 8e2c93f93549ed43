--------------------------- MODULE ManagedResource ---------------------------
(***************************************************************************)
(* One document of the collections whose tasks share a shape: a tick of    *)
(* every replica claims it by phase, brings an object of the cluster (an   *)
(* ingress, a cron job, a user of the object store) in line with it, and   *)
(* writes the phase.  Runtime domains and websites also have a certificate *)
(* for a custom host; websites are published to the application's database *)
(* after the phase is written.                                             *)
(***************************************************************************)
EXTENDS Naturals

CONSTANTS
    Workers,       \* handler executions that may be in flight at once
    Free,          \* lockedAt is older than lockTimeout
    Nobody,        \* lockedAt is recent, and no handler counts on it
    None,          \* no host: the object, certificate or published document is absent
    Default,       \* the generated host of a document
    CustomHosts,   \* the hosts a user may bind
    Kinds,         \* the kinds of document to consider
    TlsEnabled,    \* gatewayConf.tls.enabled of the region
    SlowHandlers,  \* may a live handler outlast lockTimeout?
    MaxFaults,     \* how many handlers may throw or die half-way
    MaxBinds       \* how often a custom host is bound or removed

AllKinds == {"RuntimeDomain", "BucketDomain", "WebsiteHosting", "CronTrigger", "StorageUser"}

ASSUME ResourceLockAssumption ==
    /\ Free # Nobody
    /\ Free \notin Workers
    /\ Nobody \notin Workers
ASSUME ResourceHostAssumption ==
    /\ None # Default
    /\ None \notin CustomHosts
    /\ Default \notin CustomHosts
ASSUME ResourceBoundAssumption ==
    /\ Kinds \subseteq AllKinds
    /\ TlsEnabled \in BOOLEAN
    /\ SlowHandlers \in BOOLEAN
    /\ MaxFaults \in Nat
    /\ MaxBinds \in Nat

VARIABLES
    kind,         \* the collection the document is in; it never changes
    doc,          \* [state, phase, host, lock]; phase "None" says that it is gone
    worker,       \* handler executions: [job, at, state, host]
    object,       \* the host the cluster's object serves, or None
    certificate,  \* [host, ready]
    published,    \* the host of the website document in the application's database
    kept,         \* history: has a change of host left the certificate of another one?
    disturbed,    \* has a handler met another one, or died before it published?
    faults,       \* handlers that have thrown or died so far
    binds         \* hosts bound and removed so far

cluster == <<object, certificate, published>>
counters == <<disturbed, faults, binds>>
taskVars == <<kind, doc, worker, cluster, counters>>
vars == <<taskVars, kept>>

-----------------------------------------------------------------------------
(* The rules of each task service *)

Living == {"Creating", "Created"}

\* The task of runtime domains tests gatewayConf.tls, the one of websites its `enabled`;
\* neither looks at it again when a certificate is removed.
RuntimeDomainRules ==
    [certified |-> TRUE, issues |-> TRUE, unbinds |-> TRUE, publishes |-> FALSE, stops |-> TRUE,
     looksAtLock |-> TRUE, inactiveFrom |-> Living, deletedFrom |-> Living,
     removals |-> {"phase"}]
BucketDomainRules ==
    [certified |-> FALSE, issues |-> FALSE, unbinds |-> FALSE, publishes |-> FALSE, stops |-> TRUE,
     looksAtLock |-> TRUE, inactiveFrom |-> Living, deletedFrom |-> {"Created"},
     removals |-> {"state"}]

WebsiteRules ==
    [certified |-> TRUE, issues |-> TlsEnabled, unbinds |-> FALSE, publishes |-> TRUE, stops |-> TRUE,
     looksAtLock |-> TRUE, inactiveFrom |-> Living, deletedFrom |-> Living,
     removals |-> {"state", "phase"}]
CronTriggerRules ==
    [certified |-> FALSE, issues |-> FALSE, unbinds |-> FALSE, publishes |-> FALSE, stops |-> TRUE,
     looksAtLock |-> FALSE, inactiveFrom |-> Living, deletedFrom |-> {"Created"},
     removals |-> {"state"}]
\* Nothing sets a storage user Inactive.
StorageUserRules ==
    [certified |-> FALSE, issues |-> FALSE, unbinds |-> FALSE, publishes |-> FALSE, stops |-> FALSE,
     looksAtLock |-> TRUE, inactiveFrom |-> {"Created"}, deletedFrom |-> Living,
     removals |-> {"state"}]

rules == [RuntimeDomain |-> RuntimeDomainRules, BucketDomain |-> BucketDomainRules,
          WebsiteHosting |-> WebsiteRules, CronTrigger |-> CronTriggerRules,
          StorageUser |-> StorageUserRules][kind]

-----------------------------------------------------------------------------

Idle == [job |-> "none", at |-> "idle", state |-> "Active", host |-> Default]
NoCertificate == [host |-> None, ready |-> FALSE]
Exists == doc.phase # "None"
Live(w) == worker[w].job # "none"
At(w, job, step) == worker[w].job = job /\ worker[w].at = step
Goto(w, step) == worker' = [worker EXCEPT ![w].at = step]
End(w) == worker' = [worker EXCEPT ![w] = Idle]

\* The document right after the API's insert.
Init ==
    /\ kind \in Kinds
    /\ doc = [state |-> "Active", phase |-> "Creating", host |-> Default, lock |-> Free]
    /\ worker = [w \in Workers |-> Idle]
    /\ object = None /\ certificate = NoCertificate /\ published = None
    /\ kept = FALSE /\ disturbed = FALSE /\ faults = 0 /\ binds = 0

\* findOneAndUpdate({phase, lockedAt older than the timeout}, {lockedAt: now}); the
\* handler goes on with the document it got.
Claim(w, job, phase, first) ==
    /\ ~Live(w)
    /\ doc.phase = phase
    /\ doc.lock = Free
    /\ doc' = [doc EXCEPT !.lock = w]
    /\ worker' = [worker EXCEPT ![w] =
                    [job |-> job, at |-> first, state |-> doc.state, host |-> doc.host]]
    /\ disturbed' = (disturbed \/ \E v \in Workers : Live(v))
    /\ UNCHANGED <<kind, cluster, faults, binds>>

\* updateOne({_id, phase: from}, {phase: to, lockedAt: TASK_LOCK_INIT_TIME}).
WriteIfPhase(from, to) ==
    doc' = IF doc.phase = from THEN [doc EXCEPT !.phase = to, !.lock = Free] ELSE doc

\* relock() in the return of a handler that waits for the certificate.
Relock(w) ==
    /\ worker[w].at = "relock"
    /\ doc' = IF Exists THEN [doc EXCEPT !.lock = Nobody] ELSE doc
    /\ End(w)
    /\ UNCHANGED <<kind, cluster, counters>>

-----------------------------------------------------------------------------
(* handleCreatingPhase *)

ClaimCreating(w) ==
    Claim(w, "creating", "Creating",
          IF rules.issues /\ doc.host # Default THEN "certificate" ELSE "get")

\* The website's handler asserts that there is a domain of its bucket: the application's
\* deletion removes that too, and takes phase Creating from the website first.
BucketDomainGone(w) ==
    /\ kind = "WebsiteHosting"
    /\ worker[w].job = "creating" /\ worker[w].at \in {"certificate", "get"}
    /\ doc.state = "Deleted" /\ doc.phase # "Creating"
    /\ End(w)
    /\ UNCHANGED <<kind, doc, cluster, counters>>

\* Mutant: a route that is there is not looked for.
CreatingTrusts(w) ==
    /\ At(w, "creating", "get")
    /\ Goto(w, "conclude")
    /\ UNCHANGED <<kind, doc, cluster, counters>>

\* An absent certificate is created, one that is not Ready is waited for; whose host an
\* existing one is for is not looked at.
CreatingCertificate(w) ==
    /\ At(w, "creating", "certificate")
    /\ Goto(w, CASE certificate.host = None -> "issue"
                 [] certificate.ready -> "get"
                 [] OTHER -> "relock")
    /\ UNCHANGED <<kind, doc, cluster, counters>>

\* Creating what exists by now throws.
CreatingIssue(w) ==
    /\ At(w, "creating", "issue")
    /\ IF certificate.host = None
         THEN certificate' = [host |-> worker[w].host, ready |-> FALSE] /\ Goto(w, "relock")
         ELSE UNCHANGED certificate /\ End(w)
    /\ UNCHANGED <<kind, doc, object, published, counters>>

CreatingGet(w) ==
    /\ At(w, "creating", "get")
    /\ Goto(w, IF object = None THEN "create" ELSE "conclude")
    /\ UNCHANGED <<kind, doc, cluster, counters>>

\* Creating what exists by now throws; the user of an object store is added anew.
CreatingCreate(w) ==
    /\ At(w, "creating", "create")
    /\ IF object = None \/ kind = "StorageUser"
         THEN object' = worker[w].host /\ Goto(w, "conclude")
         ELSE UNCHANGED object /\ End(w)
    /\ UNCHANGED <<kind, doc, certificate, published, counters>>

\* Mutant: a website is published only when it is created again.
ConcludeUnpublished(w) ==
    /\ At(w, "creating", "conclude")
    /\ WriteIfPhase("Creating", "Created")
    /\ IF rules.publishes /\ published # None THEN Goto(w, "publish") ELSE End(w)
    /\ UNCHANGED <<kind, cluster, counters>>

\* A website is published next, whether or not the phase was written.  A storage user is
\* added to its group first; where that gives an error the handler ends with the lock, as
\* in Throw.
CreatingConclude(w) ==
    /\ At(w, "creating", "conclude")
    /\ WriteIfPhase("Creating", "Created")
    /\ IF rules.publishes THEN Goto(w, "publish") ELSE End(w)
    /\ UNCHANGED <<kind, cluster, counters>>

Publish(w) ==
    /\ At(w, "creating", "publish")
    /\ published' = worker[w].host
    /\ End(w)
    /\ UNCHANGED <<kind, doc, object, certificate, counters>>

-----------------------------------------------------------------------------
(* handleDeletingPhase *)

ClaimDeleting(w) == Claim(w, "deleting", "Deleting", "get")

\* Mutant: binding another host to a running application keeps the certificate.
RemovesWhenDeleted(w) ==
    /\ rules.certified
    /\ worker[w].state = "Deleted" /\ (rules.unbinds \/ worker[w].host # Default)

\* What the handler knows from its claim decides whether the certificate goes, too.
RemovesCertificate(w) ==
    /\ rules.certified
    /\ \/ worker[w].state = "Active"
       \/ worker[w].state = "Deleted" /\ (rules.unbinds \/ worker[w].host # Default)
AfterObject(w) == IF RemovesCertificate(w) THEN "certificate" ELSE "conclude"

\* The user of the object store is deleted without a look.
DeletingGet(w) ==
    /\ At(w, "deleting", "get")
    /\ Goto(w, IF object = None /\ kind # "StorageUser" THEN AfterObject(w) ELSE "delete")
    /\ UNCHANGED <<kind, doc, cluster, counters>>

\* Deleting what is gone by now throws or gives an error: the handler ends.
DeletingDelete(w) ==
    /\ At(w, "deleting", "delete")
    /\ IF object = None THEN End(w) ELSE Goto(w, AfterObject(w))
    /\ object' = None
    /\ UNCHANGED <<kind, doc, certificate, published, counters>>

DeletingCertificate(w) ==
    /\ At(w, "deleting", "certificate")
    /\ Goto(w, IF certificate.host = None THEN "conclude" ELSE "revoke")
    /\ UNCHANGED <<kind, doc, cluster, counters>>

DeletingRevoke(w) ==
    /\ At(w, "deleting", "revoke")
    /\ IF certificate.host = None THEN End(w) ELSE Goto(w, "relock")
    /\ certificate' = NoCertificate
    /\ UNCHANGED <<kind, doc, object, published, counters>>

\* Mutant: the deletion of a website publishes it once more.
DeletingPublishes(w) ==
    /\ At(w, "deleting", "conclude")
    /\ WriteIfPhase("Deleting", "Deleted")
    /\ IF rules.publishes THEN Goto(w, "publish") ELSE End(w)
    /\ UNCHANGED <<kind, cluster, counters>>

DeletingConclude(w) ==
    /\ At(w, "deleting", "conclude")
    /\ WriteIfPhase("Deleting", "Deleted")
    /\ IF rules.publishes THEN Goto(w, "unpublish") ELSE End(w)
    /\ UNCHANGED <<kind, cluster, counters>>

Unpublish(w) ==
    /\ At(w, "deleting", "unpublish")
    /\ published' = None
    /\ End(w)
    /\ UNCHANGED <<kind, doc, object, certificate, counters>>

-----------------------------------------------------------------------------
(* The handlers of the states: updateMany, when the lock is free *)

\* Mutant: no handler of a state looks at the lock.
MoveLockBlind(state, from, phase) ==
    /\ doc.state = state
    /\ doc.phase \in from
    /\ doc' = [doc EXCEPT !.phase = phase, !.lock = Free]
    /\ UNCHANGED <<kind, worker, cluster, counters>>

Move(state, from, phase) ==
    /\ doc.state = state
    /\ doc.phase \in from
    /\ rules.looksAtLock => doc.lock = Free
    /\ doc' = [doc EXCEPT !.phase = phase, !.lock = Free]
    /\ UNCHANGED <<kind, worker, cluster, counters>>

\* Mutant: a stopped document is not brought back.
NeverActive == FALSE

HandleActiveState == Move("Active", {"Deleted"}, "Creating")
HandleInactiveState == Move("Inactive", rules.inactiveFrom, "Deleting")
HandleDeletedState == Move("Deleted", rules.deletedFrom, "Deleting")

\* deleteMany, which looks at no lock.
Purge ==
    /\ doc.state = "Deleted" /\ doc.phase = "Deleted"
    /\ doc' = [doc EXCEPT !.phase = "None"]
    /\ UNCHANGED <<kind, worker, cluster, counters>>

-----------------------------------------------------------------------------
(* What others write: the instance task, the API, the application's deletion *)

SetState(from, to) ==
    /\ Exists /\ rules.stops
    /\ doc.state = from
    /\ doc' = [doc EXCEPT !.state = to]
    /\ UNCHANGED <<kind, worker, cluster, counters>>
Activate == SetState("Inactive", "Active")
Deactivate == SetState("Active", "Inactive")

\* Binding takes the phase to Deleting under whoever holds the lock, in every state.
SetHost(host) ==
    /\ Exists
    /\ binds < MaxBinds
    /\ binds' = binds + 1
    /\ doc' = [doc EXCEPT !.host = host, !.phase = "Deleting"]
    /\ UNCHANGED <<kind, worker, cluster, disturbed, faults>>
BindCustomDomain(host) == rules.certified /\ SetHost(host)
RemoveCustomDomain == rules.unbinds /\ SetHost(Default)

\* The removals: some write the state only, some the phase as well.
Remove(how) ==
    /\ Exists
    /\ how \in rules.removals
    /\ doc' = IF how = "phase" THEN [doc EXCEPT !.state = "Deleted", !.phase = "Deleting"]
                               ELSE [doc EXCEPT !.state = "Deleted"]
    /\ UNCHANGED <<kind, worker, cluster, counters>>

-----------------------------------------------------------------------------
(* Cluster, faults, locks *)

CertificateReady ==
    /\ certificate.host # None /\ ~certificate.ready
    /\ certificate' = [certificate EXCEPT !.ready = TRUE]
    /\ UNCHANGED <<kind, doc, worker, object, published, counters>>

Throw(w) ==
    /\ Live(w)
    /\ faults < MaxFaults
    /\ faults' = faults + 1
    /\ disturbed' = (disturbed \/ worker[w].at \in {"publish", "unpublish"})
    /\ End(w)
    /\ UNCHANGED <<kind, doc, cluster, binds>>

\* Mutant: a handler that dies keeps the lock.
LockOutlivesHandler ==
    /\ doc.lock = Nobody
    /\ doc' = [doc EXCEPT !.lock = Free]
    /\ UNCHANGED <<kind, worker, cluster, counters>>

LockExpires ==
    /\ doc.lock # Free
    /\ \/ SlowHandlers
       \/ doc.lock = Nobody
       \/ doc.lock \in Workers /\ ~Live(doc.lock)
    /\ doc' = [doc EXCEPT !.lock = Free]
    /\ UNCHANGED <<kind, worker, cluster, counters>>

-----------------------------------------------------------------------------

Creating(w) ==
    \/ CreatingCertificate(w) \/ CreatingIssue(w) \/ CreatingGet(w)
    \/ CreatingCreate(w) \/ CreatingConclude(w) \/ Publish(w) \/ BucketDomainGone(w)
Deleting(w) ==
    \/ DeletingGet(w) \/ DeletingDelete(w) \/ DeletingCertificate(w)
    \/ DeletingRevoke(w) \/ DeletingConclude(w) \/ Unpublish(w)
Step(w) == Creating(w) \/ Deleting(w) \/ Relock(w)

Tick == HandleActiveState \/ HandleInactiveState \/ HandleDeletedState \/ Purge

Request ==
    \/ Activate \/ Deactivate
    \/ \E host \in CustomHosts : BindCustomDomain(host)
    \/ RemoveCustomDomain
    \/ \E how \in {"state", "phase"} : Remove(how)

Act ==
    \/ \E w \in Workers : ClaimCreating(w) \/ ClaimDeleting(w) \/ Step(w) \/ Throw(w)
    \/ Tick
    \/ Request
    \/ CertificateReady
    \/ LockExpires

\* The host changes and the handler that takes the route down will have read, or has read
\* already, that the application is stopped: it leaves the certificate of the former host.
LeavesCertificate ==
    \/ /\ doc'.host # doc.host
       /\ \/ doc.state = "Inactive"
          \/ \E w \in Workers : worker[w].job = "deleting" /\ worker[w].state = "Inactive"
    \/ doc.phase = "Deleting" /\ doc.state = "Active" /\ doc'.state = "Inactive"

\* It ends when the certificate is revoked, or issued for the present host.
ReplacesCertificate ==
    certificate'.host # certificate.host /\ certificate'.host \in {None, doc.host}

Next == Act /\ kept' = (LeavesCertificate \/ (kept /\ ~ReplacesCertificate))

Spec == Init /\ [][Next]_vars

(***************************************************************************)
(* Every replica ticks each second, handlers go on, locks expire, and a    *)
(* bound host resolves, so that its certificate is issued.  The purge is   *)
(* only weakly fair: a removal of the application that is repeated takes   *)
(* phase Deleted back, and nothing in the code makes a purge come first.   *)
(***************************************************************************)
Fairness ==
    /\ \A w \in Workers : WF_taskVars(Step(w))
    /\ WF_taskVars(\E w \in Workers : ClaimCreating(w))
    /\ WF_taskVars(\E w \in Workers : ClaimDeleting(w))
    /\ WF_taskVars(HandleActiveState) /\ WF_taskVars(HandleInactiveState)
    /\ WF_taskVars(HandleDeletedState)
    /\ WF_taskVars(Purge) /\ WF_taskVars(CertificateReady) /\ WF_taskVars(LockExpires)
FairSpec == Spec /\ Fairness

-----------------------------------------------------------------------------
(* Properties *)

Hosts == CustomHosts \cup {Default}
States == {"Active", "Inactive", "Deleted"}
Phases == {"None", "Creating", "Created", "Deleting", "Deleted"}
StepsOf == [none     |-> {"idle"},
            creating |-> {"certificate", "issue", "get", "create", "conclude", "publish",
                          "relock"},
            deleting |-> {"get", "delete", "certificate", "revoke", "conclude", "unpublish",
                          "relock"}]
Steps == UNION {StepsOf[j] : j \in DOMAIN StepsOf}

TaskTypeOK ==
    /\ kind \in Kinds
    /\ doc \in [state : States, phase : Phases, host : Hosts,
                lock : Workers \cup {Free, Nobody}]
    /\ worker \in [Workers -> [job : DOMAIN StepsOf, at : Steps, state : States,
                               host : Hosts]]
    /\ \A w \in Workers : worker[w].at \in StepsOf[worker[w].job]
    /\ object \in Hosts \cup {None} /\ published \in Hosts \cup {None}
    /\ certificate \in [host : Hosts \cup {None}, ready : BOOLEAN]
    /\ disturbed \in BOOLEAN
    /\ faults \in 0..MaxFaults /\ binds \in 0..MaxBinds
TypeOK == TaskTypeOK /\ kept \in BOOLEAN

\* Handlers keep each other out if they never met, and also, where the state handlers look
\* at the lock, as long as none outlasts it.
Excluded == ~disturbed \/ (~SlowHandlers /\ rules.looksAtLock)

\* The route of a document that says Created is the one of its present host, although
\* binding, stopping and removing change host, phase and state under the handlers.
RoutedAsBound == Excluded /\ doc.phase = "Created" => object = doc.host

\* No route, job or user outlives the phase Deleted and the document itself.
DownWhenDeleted == Excluded /\ doc.phase \in {"Deleted", "None"} => object = None

\* "create certificate before ingress, otherwise apisix ingress will not work": a route
\* of a custom host has a certificate, which is ready, and which is for that host unless
\* the host changed while the application was stopped: the certificate is named by the
\* document, and an existing one is used without a look at its host.
CertificateFirst ==
    Excluded /\ rules.issues /\ object \in CustomHosts =>
      certificate.ready /\ (certificate.host = object \/ kept)

\* "Certificates are only removed when you delete the application and unbind the custom
\* runtime domain.  Starting, restarting and stopping the application does not remove
\* certificates."
CertificateKept ==
    [][certificate.host = doc.host /\ doc.state # "Deleted" =>
         certificate'.host = certificate.host]_vars

Publishing(w) == worker[w].at \in {"publish", "unpublish"}

\* The published website is the one that is routed, unless two handlers met or one died
\* after the phase was written and the lock given back.
PublishedIsServed ==
    rules.publishes /\ ~disturbed /\ (\A w \in Workers : ~Publishing(w)) =>
        /\ doc.phase = "Created" => published = doc.host
        /\ doc.phase \in {"Deleted", "None"} => published = None

\* What stays active is served in the end under the host that was bound last.
ServedInTheEnd ==
    <>[](doc.state = "Active" /\ Excluded) => <>[](doc.phase = "Created" /\ object = doc.host)

\* A removal that is not taken back ends: the document is gone, unless a removal of the
\* application takes phase Deleted back for ever, or the user of the object store is gone
\* (or was never made) when the handler comes to delete it, which then fails for ever.
RemovedInTheEnd ==
    <>[](doc.state = "Deleted") =>
      \/ <>(~Exists)
      \/ []<>("phase" \in rules.removals /\ doc.phase = "Deleted")
      \/ <>[](kind = "StorageUser" /\ doc.phase = "Deleting" /\ object = None)
=============================================================================
