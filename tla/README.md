# Verification of the control plane

TLA+ models of the platform's control plane, TLC configurations that model-check them, and
proofs that TLAPS checks. Everything is translated from the code under `src/`; file names
below are relative to `src/server/src/` unless they start with another directory.

## 1. The system

The repository is a serverless platform in the manner of laf. Its main program is
`src/server`, a NestJS service of which several replicas run. It keeps all of its state in
MongoDB and manages Kubernetes, APISIX/ingress, MinIO and WeChat Pay. Every application has
a runtime (`src/runtimes/nodejs`), a pod that serves its cloud functions from a database of
its own.

### How it works

Almost every component follows one pattern, and the pattern is what is hard about it:

- A document has a **state** (what its owner wants, written by the API) and a **phase** (how
  far the system has come, written by task services).
- Each task service has a cron `tick()` per second **on every replica**, which starts one
  handler per phase and state without awaiting it. A handler claims a document with one
  `findOneAndUpdate({phase, lockedAt < now - lockTimeout}, {lockedAt: now})`, then awaits
  calls to the cluster and other collections, then writes the next phase with
  `updateOne({appid, phase})`, `unlock()` or `relock()`.
- The lock is only a timestamp. Nothing fences a handler that outlives it, `unlock` and
  `relock` are unconditional, an error leaves `lockedAt` as it is, and no collection has a
  unique index.
- Handlers of a state are `updateMany` without a lock. API requests check a document that
  the auth guard read earlier, and then write unconditionally.

Where several documents must change together the code uses MongoDB transactions
(`withTransaction` or explicit sessions).

### Components, their state and what makes them correct

| Component | State it keeps | Operations | What is hard | What must hold |
|---|---|---|---|---|
| **Application** (`application/*.ts`) | `Application` [state, phase, lockedAt], bundle, configuration | API: create, updateState, updateBundle, delete; task: creating, deleting, deleted | stale guards, two replicas, deletion in 13 collections | one handler per phase; Created means complete; Deleted means nothing left; deletion happens |
| **Instance** (`instance/*.ts`) | Kubernetes Deployment and Service; Active/Inactive of domains, websites, triggers | start, stop, restart, each over many awaits | wants that change under a handler, handlers that die half-way, five-minute timeout | phase agrees with the cluster; a wanted stop happens |
| **Dedicated database** (`database/dedicated-database/*.ts`) | `DedicatedDatabase` [state, phase, lockedAt], KubeBlocks manifest | create, updateState, remove; start, stop, delete, purge | remove() that overtakes any handler, relock and then fall through | phase agrees with the manifest; no orphan manifest; deletion and restart end |
| **Billing** (`billing/*.ts`) | `ApplicationBilling`, `Application.latestBillingTime`, `billingLockedAt` | create a bill per hour; pay a pending bill; force a stop | two replicas, handlers that outlive locks, transactions that conflict | every hour once, every bill once, no debt unseen |
| **Account** (`account/*.ts`) | `Account` [balance, owedAt], `AccountTransaction`, `AccountChargeOrder`, gift codes | charge order, WeChat notification, gift code, reward | notifications repeated and out of order, check outside the transaction | ledger adds up; an order is credited once |
| **Gateway** (`gateway/*.ts`) | `RuntimeDomain`, `BucketDomain`, ingress, certificates | bind/remove custom domain; creating, deleting, active, inactive | API that changes the phase under a handler; stale certificate decision | the route is the one of the bound host; a custom host has its certificate first |
| **Website hosting** (`website/*.ts`, `gateway/website-task*`) | `WebsiteHosting`, ingress, certificate; published copy in the app database | as gateway, with publish after the phase update | a crash between update and publish | as gateway; the published website is the one routed |
| **Storage** (`storage/*.ts`) | `StorageUser`, `StorageBucket`, MinIO | create, delete, policy | MinIO and document differ after a fault | no user outlives its document |
| **Cron triggers** (`trigger/*.ts`) | `CronTrigger`, CronJob | create, delete, active, inactive | state handlers without lock checks | no orphan cron job |
| **Usage** (`database/*usage*`, `storage/*usage*`, `utils/p-limit.ts`) | `dataSize`, `lockedAt` of `Database` and `StorageUser`, write permission of the database user; queue and `activeCount` in each server | tick, claim, measure and store, judge and grant | bounded concurrency, overlapping ticks, stale sizes, works no one awaits, lost queues | no place unused and none too many; a limit is applied and lifted; the true size is stored in the end |
| **Functions** (`function/*.ts`, `recycle-bin/*`, `function-template/*`, `trigger.service.ts`) | `CloudFunction`, `RecycleBin`, triggers; published copy in the app database | create, update, rename, remove, restore, purge, use a template; publish | two databases, transactions on one of them only, reads before a transaction | nothing is lost; the published copy is the stored one |
| **Runtime cache** (`src/runtimes/nodejs/src/support/engine`, `.../database-change-stream`) | `FunctionCache`, `FunctionModule.cache` | load, follow the change stream, compile on invocation, clear | events read again asynchronously, lost on reconnect; modules that import others | the runtime serves what is published |
| **Policies, groups, users, quotas, auth, notifications** | one document each | publish, invite, join, verify, notify | check-then-act without unique index | at most once, within the quota |
| SDKs, CLI, web console, exporter, charts | none worth a model | | | |

Interactions: the application task inserts and marks the documents of the other components and
waits until their own tasks have removed them; the instance task switches domains, websites
and triggers and drives the dedicated database; the payment task stops applications;
functions, policies and configuration reach the runtime through its database and a change
stream; the usage tasks change what the database user of an application may do. `PROJECT.json`
lists every component with its status and every hazard with its line.

## 2. The modules

```
ApplicationDoc  DedicatedDatabaseLifecycle         Transactions   Account
        \          /            ^                       |        /  |
        InstanceTask            | implements     BillingCreation    |
             |                  |                       |      \    |
        ApplicationTask   DedicatedDatabase         BillingPayment  |
             |                  |                       |           |
        Application      DedicatedDatabaseProofs     Billing     Recharge
             |                                          |           |
        ApplicationProofs                         BillingProofs  RechargeProofs
             |
        ApplicationSafetyProofs

        PLimit            PublishedFunctions           ManagedResource
          |                /             \                    |
       UsageTask    CloudFunctions   FunctionCache    ManagedResourceProofs
          |                \             /
     UsageTaskProofs       FunctionService
                                 |
                        FunctionServiceProofs
```

**ApplicationDoc** is the document, the lock, the handler executions and the API. `app` is
the document with `lock` for `lockedAt`: `Free` (old), a handler (that handler stored it and
nobody since), or `Nobody` (recent, but its handler has ended). `worker[w]` is one execution
of a handler: its job, the await it stands at (`at`), what it read (`toState`, `saw`), its
place in a loop (`i`). A request is admitted on the document the guard read (`Admit*`) and
written later (`ServeRequest`). `Throw` is an exception or a dying replica.

**InstanceTask** and **ApplicationTask** have one action per await of every handler, in the
order of the code, with the early returns. The cluster is `namespace`, `instance` and
`active`; the documents of other components are `child`, of which only the outcome of their
tasks appears (`ChildCreated`, `ChildRemoved`). `creating` holds API requests that create a
child. Two history variables say what the code lets in: `late`, the kinds of child inserted
after the deletion had begun, and `fresh`, the domains, websites and triggers inserted since a
stop made theirs Inactive. **Application** composes them and states fairness and properties.

**DedicatedDatabaseLifecycle** is the abstract specification of the dedicated database as its
users see it, a document with a state and a phase. InstanceTask and ApplicationTask are
composed with it. **DedicatedDatabase** is the real task with locks, handlers and manifest,
and implements it (`ImplementsLifecycle`, checked and proved), so that the composition is
one with the code. Its history variable `met` says that two handlers have worked at once,
which a relocked document allows; `misread` says that the last handler asked for the manifest,
got an error and took it for no manifest, as `getDeployManifest` has it (`ReadFails`).

**ManagedResource** is one document of the collections whose tasks share a shape: runtime
domain, bucket domain, website, cron trigger, storage user. `rules` holds what differs
between the five task services (does it have certificates, does it look at the lock, from
which phases does a state move on, which removals are there); all else is one action per
await, for all of them. `object`, `certificate` and `published` are the ingress, cron job or
user in the cluster, the certificate with the host it was issued for, and the website document
in the application's database. `disturbed` is a history variable: two handlers met, or one
died between the phase and its publication. So is `kept`: the host changed and the
certificate of another one may have stayed (`LeavesCertificate`, `ReplacesCertificate`).

**Transactions** says what a multi-document transaction of MongoDB promises: snapshot reads,
writes that appear together, an abort when a document it writes has changed since its
snapshot. **Account** holds balance, debt and ledger, with the arithmetic of
`chargeWithTransaction` and of a payment. **BillingCreation** and **BillingPayment** are the
two tasks; **Billing** composes them with the owner. **Recharge** is how money comes in:
orders, WeChat notifications that are repeated, late and out of order, and gift codes.

**PLimit** is the helper of that name: `queue`, `activeCount`, and in `checks` the calls whose
look for room is still to come in a microtask. **UsageTask** extends it with the three tasks
that use it (limit of databases, capture of databases, capture of storage): the tick that
counts and enqueues in two steps (`counted`, of each tick under way), the handler that claims
one document and starts its work without waiting, and the works await by await. What the user
writes, changes of the bundle, deletions, other replicas and restarts of the server are the
environment.

**PublishedFunctions** is the interface between control plane and runtime: the collection in
the application's database, a change stream that delivers in order while it is open, and the
three ways of publishing. **CloudFunctions** is the control plane's side, one action per await
of each request: `stored`, `bin` and `trigger` are collections, `request[r]` holds what a
request has read and, once its transaction has written, what it will commit (`fns`, `items`).
The transaction of a template begins with the configuration, before any name is looked up:
`Snapshot` is what its search will see. **FunctionCache** is the runtime's side, with the
asynchronous read of an inserted document (`read`) and the compiled modules, each represented
by the set of documents it was made of. **FunctionService** composes them. Its history
variables name what the code does not guarantee: `torn` (names whose requests overlapped or
failed since an undisturbed update, and names that took such a function over by a rename or a
restore), `missed` (functions of which the stream lost an event), `overtaken` (an event passed
an older read), `clashed` (two published functions had one name since the runtime's first
query).

`MC*` modules declare the model values of the checks and nothing else. Operators marked
"Mutant" are what a plausible bug would make of the definition below them; nothing uses them
in the specification, they show that a property can fail.

### Abstractions

- Several applications do not interact, so there is one; billing has one account. A
  collection of children of one kind is one element of `child` (`twice` records that a
  second one was inserted).
- Names, manifests, prices and bundles are data; an hour's price is any of `Prices`.
- An aborted transaction leaves no trace. The commit of a transaction and the writes it makes
  visible are one step; its reads are the step of its snapshot.
- `lockedAt` is not a number: whether it has expired is the action `LockExpires`, possible as
  soon as the handler that stored it is gone. With `SlowHandlers` it may also expire under a
  live handler. The lock of a usage capture is set to the last half-hour mark, so that it may
  expire at once.
- A function is a name, its code, and the code it was compiled from. Both databases use the
  same `_id`, as the code does. A transaction that publishes shows its changes at once and in
  order; the system database shows those of a request at its commit, and what it has
  written until then is `Locked` for other writers.

## 3. What is checked

| Run | Question | Bounds | Result |
|---|---|---|---|
| `core_timely` | Do two replicas and an active owner keep an application consistent if handlers end in time? | 2 handlers, 1 request, a dedicated database, a trigger created by API at any time; no faults | holds, 1.7 M states |
| `core_live` | Is a created application complete, and do wanted stops and deletions happen, whenever a handler throws or dies? | 1 handler, 1 request, a dedicated database, 1 fault, instances may time out | holds, 320 k states |
| `ddb` | Is the phase of a dedicated database true, is nothing orphaned, do deletions and restarts end, is its document's life the abstract one? | 2 handlers that may outlive their locks, any number of wants, removals and failed reads, 1 fault | holds, 285 k states |
| `resources` | Is each of the five kinds routed as bound, gone when deleted, certified first, published as served, and served or removed in the end? | 2 handlers, 2 custom hosts, 2 bindings, 1 fault | holds, 472 k states |
| `billing` | Is every hour billed and every bill paid once, and in the end, and the account true? | 2 + 2 handlers, 2 hours, 1 charge, 1 request, 1 fault, prices 0 and 1 | holds, 94 k states |
| `recharge` | Is an order credited once with its reward, whatever WeChat sends? | 2 orders, 1 code used by 1 request at a time, 2 payments, a tier between the amounts | holds, 62 k states |
| `limits` | Does the limiter keep its bound and forget nobody; is a limit enforced and a size captured in the end? | 2 ticks that overlap, 3 names of functions, concurrency 1, 1 document, 2 works, 2 parts of which 1 grows, sizes 0 and 1, 1 fault or restart | holds, 302 k states |
| `functions` | Is no function lost, do the databases agree, does the runtime serve what is published? | 2 ids, 2 names, 2 codes, 3 requests; see below | holds, 1.3 M states |
| `restart_stuck` | "only running application can restart": is a wanted restart taken up? | 1 handler, 1 request | violated |
| `lost_stop` | "if state is Restarting, update state to Running": does the end of a start leave other wants alone? | 1 handler, 1 request | violated |
| `certificate_lost` | "Starting, restarting and stopping the application does not remove certificates": so? | 1 handler, 1 binding, no fault | violated |
| `names_twice` | "Function name is unique in the application": also after a restore? | as `functions`, one request after the other, no fault | violated |

The properties, in the order of the modules:

- **HandlerExclusion**: a phase has one handler at a time. This is not obvious:
  `handleDeletedState` moves the phase without looking at the lock, a restart claims in two
  phases, `unlock` may hit a lock of another handler.
- **StoppedIsDown**, **RunningIsServed**: phase and cluster agree at the two ends of the
  instance's life, over all domains, websites and triggers: one that is stopped has no
  instance, and nothing of it is Active but what was inserted since. Both are checked without
  faults and for instances that become available within five minutes: see the hazard at
  `instance-task.service.ts:116` for what happens otherwise.
- **CreatedIsComplete**: nothing is missing, and nothing is there twice, although each
  resource is looked up and inserted in two steps and no index forbids a second one.
- **DeletedLeavesNothing**: phase Deleted comes after asynchronous removals in all
  collections, the namespace and the dedicated database.
- **PhaseFollowsLifeCycle**: the phase makes the documented moves only.
- **StopIsServed**, **DeleteIsServed**, **RestartIsServed** (dedicated database): what is
  wanted and not taken back happens, if the removals it waits for do (`RemovalHindered`). The
  dedicated database's DeleteIsServed says what it can of a `remove()` that is repeated: phase
  Deleted is reached again and again.
- **PhaseIsTrue**, **NoOrphan**: as long as no two handlers have met, the phase of a dedicated
  database agrees with its manifest and no manifest is left behind, whichever handler
  `remove()` overtakes, unless the handler that wrote the phase had failed to read the
  manifest (`misread`). That a database is up behind phase Started needs no such exception: a
  failed read makes a starter apply the manifest again. **ImplementsLifecycle** holds even
  when they meet.
- **RoutedAsBound**, **DownWhenDeleted**: route and document agree when the phase says Created
  or Deleted, although binding and stopping change host, phase and state under the handlers.
  They hold where handlers keep each other out (`Excluded`): always in time for the tasks
  whose state handlers look at the lock, and as long as two never met for cron triggers.
- **CertificateFirst**: "create certificate before ingress, otherwise apisix ingress will
  not work" (`gateway/runtime-domain-task.service.ts`): where handlers keep each other out, a
  routed custom host has a certificate that is ready, and issued for this host unless the
  host changed while the application was stopped (`kept`), over rebinding and unbinding.
  In a region without TLS websites have no certificates, and it is about runtime domains
  only; the run has TLS, the theorem covers both.
- **PublishedIsServed**: the website in the application's database is the one routed.
- **ServedInTheEnd**, **RemovedInTheEnd**: an active document gets its route under the host
  bound last; a removed one goes, unless a removal of the application takes phase Deleted
  back for ever, or the user of the object store is gone when it is to be deleted.
- **HoursOnce**, **PaidOnce**, **HoursAreBilled**, **BillsArePaid**: exactly once, and
  eventually, for handlers that end before their lock times out.
- **LedgerIsTrue**, **OwedIsTrue**: each record of the account shows the balance it left;
  debt and credit are marked.
- **ChargedOnce**, **SuccessIsRecorded**: notifications in any order and number credit an
  order once, and one that is paid at the first attempt is Paid in the end.
- **ActiveBound**, **SlotsAreUsed**, **QueueBounded**: no more functions run than may, none
  waits beside a free place, and overlapping ticks do not let the queue grow.
- **VerdictIsApplied**, **LimitIsEnforced**: the end of a check leaves the permission that
  follows from the sizes it read, and once these stay, the right one.
- **SizeIsCaptured**: the stored size becomes the true one, whatever captures overlapped or
  failed.
- **NothingLost**: a function is in the collection or in the recycle bin until it is deleted
  from there, through aborted transactions, overlapping restores and renames of what a
  trigger calls.
- **Agreement**: between requests both databases hold the same functions, compiled from the
  code they show, for every name that is not `torn`.
- **CacheAgrees**, **ModulesAreCurrent**: a runtime with nothing left to handle has the
  published functions, and runs no module compiled from, or importing, an older one, unless
  a read was `overtaken` or names have `clashed`; a function of which an event was lost is
  right again after its next publication.

### Bounds, and why they are enough

Two handlers are enough for the races of a lock: a property of it names two handlers, and the
proofs of exclusion and of the life cycle hold for every number. One request in flight races
with every step of every handler, and requests follow each other without bound. One fault can
strike at every await; the states it leaves are the starting point of everything that follows.
Faults and a second handler are not combined in the runs of the core: what holds of both
together, `CreatedIsComplete`, `DeletedLeavesNothing`, `PhaseFollowsLifeCycle` and
`HandlerExclusion`, is proved for every number of each (section 4). Two hours and up to three
bills let a bill be created while another is paid and while the next hour passes. Two hosts and
two bindings let a host be bound over another and taken back while a handler works on the first.
One document and two works let two captures of it overlap; the limiter then has as many names as
may wait and run together (`UsageAssumption`), and its bounds are proved for every concurrency.
Three requests are what a removal, a creation and a restore take, and three overlapping ones of
the same name are more than any transaction looks at.

`functions` explores three settings together (`Bounds`): requests that overlap and fail with
no runtime up; triggers with updates and renames; and a runtime that starts, stops and loses
its stream, with one request after the other. The requests that change what is published are
transactions or single writes there, so that what a runtime sees does not depend on how they
overlapped. Wherever a bound limits a counter it is a CONSTANT named `Max...`, or a
field of `Bounds`, and appears in a guard. `CHECK_DEADLOCK FALSE` is in every configuration
because a removed application or document, a paid order, the end of the hours and the last
request are the proper end.

### Fairness, and why the code justifies it

The cron ticks every second and handlers go on once an await returns, so each claim and each
step is weakly fair, as are the other tasks and the controllers of the cluster; the
certificate of a bound host becomes ready because binding checks that the host resolves.
Strong fairness is used where the clock brings something about: the start that is given up
once `updatedAt` is five minutes old, in the instance task and in the dedicated database task,
where relocks disable it again and again without renewing `updatedAt`; the commit of a billing
transaction, which lasts milliseconds and is retried or taken up after its lock times out; and
the claim of each document by a usage task, since a tick calls as many handlers as there are
documents with an old lock and locks last hours. WeChat repeats a notification until it is
answered (weak fairness of `NotifySuccess`). A purge is only weakly fair, since nothing makes
it come before the application's next `remove()` or `deleteOne()`, which takes phase Deleted
back; for the same reason, and because the removal of a storage user may fail for ever, the
application assumes nothing of the removal of runtime domains, websites and storage users
(`Hindered`), nor that its dedicated database leaves Deleting for good: its liveness
properties have the disjunct `RemovalHindered` instead. That reads of a manifest fail is not
fair either, so that they may fail always. Requests are never fair, no instance or database
ever has to become available, and nothing is fair in `functions`, which states no liveness:
lost events are not made up for by anything but the next publication.

### What the violated runs show

- `restart_stuck`: `updateState` rejects a restart only if state **and** phase say that
  nothing runs. During Creating the state is Running, so the restart is admitted and the
  application ends as Restarting and Created, which no handler takes up and no API guard
  lets out of.
- `lost_stop`: `handleStartingPhase` writes `toState` read at its claim, minutes ago. A stop,
  restart or deletion wanted meanwhile is overwritten. The dedicated database task has the
  same line (`dedicated-database-task.service.ts:103`).
- `certificate_lost`: the handler that takes a route down decides by the state it has claimed
  whether the certificate goes: Active means an unbinding. An application that is stopped and
  started again before the claim is Active too, and loses the certificate of the host that
  stays bound; it is issued anew, and until then the host is not served.
- `names_twice`: removing a function, creating one of its name and restoring the first
  leaves two of one name, with no overlap and no fault; later updates and removals take
  either of them.

### What else the models show

These follow from the code, and the properties are stated so that they hold beside them (a
history variable, a precondition or a constant names the case).

- **Application.** A start wanted after phase Deleted leaves a document for ever. A shared
  namespace (`NamespaceMode`) is not removed with the application, and a deletion admitted
  while the phase is still Started leaves the instance in it. A start that timed out and is
  wanted again at once is Running without an instance.
- **Dedicated database.** A handler relocks the document and goes on, so that another may
  claim it meanwhile: a second, stalled stopper then re-creates the manifest of a database
  that is gone. What is said of phase and manifest holds until two have met. One failed read of
  the manifest and a database that runs is Stopped, or Deleted and purged, which leaves its
  manifest for ever. Each tick of the application's deletion calls `remove()` again, which takes
  phase Deleted back to Deleting: the deletion ends with the first purge that comes in between.
- **Domains and websites.** The certificate of a runtime domain is named by the application and
  that of a website by its id, and an existing one is taken without a look at its host: bind
  one host, stop, bind another while stopped, start, and the second is routed with the
  certificate of the first (`kept`). The deletion of an application repeats its removal of
  domains and websites, which takes phase Deleted back as above. A website whose bucket domain
  is gone is not created; that happens with the application's deletion (`BucketDomainGone`);
  a bucket deleted beside the creation of its website, which then fails at every tick, is not
  modelled. The state handlers of cron triggers look at no lock, so that a late
  handler may create a job after another found none to delete. A handler that dies after
  the phase of a website leaves it unpublished until its phase next changes. The removal of a
  storage user gets an error for ever if the user was never made or is gone already, and so
  does not end.
- **Bucket domains.** `deleteOne` filters by an id that belongs to another document.
- **Money.** The forced stop of `billing-payment` matches state Running only and sees the
  snapshot, so that a payment into debt may leave an application running. Two requests may
  use one gift code, which is looked up outside the transaction that uses it: `recharge` has
  one at a time. The late notification of a failed attempt makes a paid order Failed, and
  a success notified after it is not taken up. `account.findOne` may create two accounts.
- **Usage.** `storage-usage-limit` counts documents of a collection that has no such lock and
  so never calls its handler: a storage limit is never enforced. "concurrency limit: 10"
  bounds claims; the works they start are bounded by nothing. The check of a database reads
  capacity and size in two queries and may judge from an old one and a new one, until the
  next check. An error of `mc` makes the stored size NaN until the next capture.
- **Functions.** A restore deletes by id from the bin, so that what arrives there between its
  find and its delete is lost (`purged` counts it). A rename publishes before its commit: if
  that aborts, the published `_id` has the new name, and each later update of the function fails
  with a duplicate key. A template publishes what its snapshot held under the name it ends up
  with, though that was removed since. A rename compiles the code its controller read and stores
  the code of now. Two overlapping requests about a name may leave a removed function published.
  A function that was torn so carries its mismatch through the recycle bin: a restore publishes
  what was compiled, not what is stored.
- **Runtime.** Events lost while the stream is closed, or before the listener is there, are
  never read again; a read overtaken by the next publication stores the older document. Both
  last until the next publication of that function or a restart. The cache is keyed by name:
  of two functions of one name it keeps the one it read last, and the deletion of that one
  leaves none.

## 4. What is proved

Every safety property a run checks is stated by a theorem. The theorems hold for every
value of the constants that satisfies the named assumptions of the module: any number of
handlers, requests, documents, hosts, functions and faults, any set of prices and tiers. The
assumptions say that names differ where the code's do (a lock is not a handler, "no host" is
not a host, "no entry" is not a cached entry), that amounts are natural numbers, and that
sets whose members are counted are finite.

`SlowHandlers` is either way unless the table names `~SlowHandlers`: no handler outlives its
lock. Those six are false otherwise, and the code has no fence that would make them true: two
creators insert a resource twice, two payers pay a bill twice, a late starter brings up what
was stopped or deleted. Three of them need more. `RunningIsServed` needs instances that come up
within five minutes (`~StartTimesOut`), since giving up a start that a user wants again at
once leaves an application Running without one; `StoppedIsDown` needs that no handler dies
(`MaxFaults = 0`), since a restart that dies half-way leaves its instance behind;
`DeletedLeavesNothing` needs a namespace per application (`NamespaceMode = "appid"`), since
the instance in a shared one is not removed. The runs make the same choices.

| Module | Theorem | Statement |
|---|---|---|
| ApplicationProofs | TypeCorrect | `Spec => []TypeOK` |
| | LockKept | `Spec => []LockIsHeld` |
| | Exclusion | `Spec => []HandlerExclusion` |
| | LifeCycleKept | `Spec => PhaseFollowsLifeCycle` |
| ApplicationSafetyProofs | CreatedKept | `~SlowHandlers` gives `Spec => []CreatedIsComplete` |
| | RunningServed | `~SlowHandlers`, `~StartTimesOut` give `Spec => []RunningIsServed` |
| | StoppedDown | `~SlowHandlers`, `MaxFaults = 0` give `Spec => []StoppedIsDown` |
| | DeletionComplete | `~SlowHandlers`, `NamespaceMode = "appid"` give `Spec => []DeletedLeavesNothing` |
| DedicatedDatabaseProofs | LifecycleImplemented | `Spec => ImplementsLifecycle` |
| | TypeCorrect | `Spec => []TypeOK` |
| | PhaseKeptTrue | `Spec => []PhaseIsTrue` |
| | NoOrphanLeft | `Spec => []NoOrphan` |
| ManagedResourceProofs | InvariantHolds | `Spec => []ResourceInv` |
| | TypeCorrect | `Spec => []TypeOK` |
| | RouteKept | `Spec => []RoutedAsBound` |
| | NothingOutlives | `Spec => []DownWhenDeleted` |
| | CertificateComesFirst | `Spec => []CertificateFirst` |
| | PublishedKept | `Spec => []PublishedIsServed` |
| BillingProofs | TypeCorrect | `Spec => []TypeOK` |
| | LedgerKept | `Spec => []LedgerIsTrue` |
| | DebtShown | `Spec => []OwedIsTrue` |
| | NoHourLost | `Spec => []NoHourSkipped` |
| | DoneWasPaid | `Spec => []DoneIsPaid` |
| | HoursBilledOnce | `~SlowHandlers` gives `Spec => []HoursOnce` |
| | BillsPaidOnce | `~SlowHandlers` gives `Spec => []PaidOnce` |
| RechargeProofs | TypeCorrect | `Spec => []TypeOK` |
| | ChargeOnce | `Spec => []ChargedOnce` |
| | DebtShown | `Spec => []OwedIsTrue` |
| | LedgerKept | `Spec => []LedgerIsTrue` |
| UsageTaskProofs | TypeCorrect | `Spec => []TypeOK` |
| | ActiveBounded | `Spec => []ActiveBound` |
| | NoSlotEmpty | `Spec => []SlotsAreUsed` |
| | QueueStaysBounded | `Spec => []QueueBounded` |
| | VerdictApplied | `Spec => VerdictIsApplied` |
| FunctionServiceProofs | TypeCorrect | `Spec => []TypeOK` |
| | NeverLost | `Spec => []NothingLost` |
| | CacheIsCurrent | `Spec => []CacheAgrees` |
| | ModulesKeptCurrent | `Spec => []ModulesAreCurrent` |
| | DatabasesAgree | `Spec => []Agreement` |

`TypeOK` of DedicatedDatabase, Recharge, UsageTask and FunctionService is in no run because it
is proved.

**Exclusion.** HandlerExclusion is not inductive: that two handlers are not in one phase says
nothing about who may claim next. `LockIsHeld` is: a live handler holds the lock and the
document is in the phase it claimed. Its one exception, a restart whose application was
deleted under it, is forced by `handleDeletedState`, which resets the lock of the phases a
restart claims in; from then on the restart's phase is over and can never come back, because
Deleting leads only to Deleted and Removed. Exclusion follows from it.

**Life cycle.** Holds without any assumption on the locks: every write of the phase repeats
the phase in its filter. The type invariant gives the rest (a handler is at a step of its
job).

**Created, running, stopped, deleted.** None of the four is inductive, since each speaks of a
phase that a handler writes after it has looked at everything else. Their invariants say what
each handler knows of the world by the step it has reached, and rest on `LockIsHeld`:

- `CreationInv`: what a handler that creates has passed in `CreateOrder` is Created or noted in
  `saw`, what it is about to insert is missing, and when it concludes all is provided: only the
  holder of the lock inserts.
- `ServingInv`: a handler that starts and has come to its loop has found both objects, and the
  entries it has passed are active; once Started all are, until phase Stopping. It builds on
  `CreationInv`, which gives the namespace.
- `DownInv`: the entries a stopping handler has passed are off, but what the API has inserted
  since (`fresh`), and it concludes without an instance. A stopped application has one only
  while a restart is at work, which found nothing and creates both objects.
- `DeletionInv`: what the handler has passed in `DeleteOrder` is gone, or came back `late`; the
  namespace is absent when it concludes, and with it the instance.

**Refinement.** The map takes `doc` to `[state, phase]`. Most steps stutter. The invariant
needed is `NoDeletedStart`: a handler of a start never read state Deleted, because
`remove()` writes the phase as well; otherwise the end of a start could write Deleted with
phase Started, a move the abstract life cycle does not have.

**Phase and manifest.** The lock of a dedicated database does not keep handlers apart, so
`PhaseIsTrue` and `NoOrphan` are about executions in which they have not met. `AloneInv` says
that there is then one handler, in the phase it claimed or, if `remove()` overtook it, in
Deleting; what it knows of the manifest by its step, unless it misread; and that a manifest
only terminates from Deleting on. `misread` is of the last handler: the next one that claims
starts from what there is, so that a misread that was followed by a true look is forgotten.

**Routes and certificates.** That route and host agree when the phase is Created says nothing
of the handler that is about to write that phase. `Sound` does: while a handler creates, the
phase is still Creating, with the host it read, or somebody has moved it to Deleting, in which
case its last write does nothing; a handler that deletes finds the object gone once it is
past it. To be sound it must be alone (`Alone`), which follows from the lock where the state
handlers look at it (`Held`) and from `NeverMet` otherwise. `PublishedIsServed` has its own
invariant, for a publication that comes after the phase and the lock.

**Account.** `LedgerIsTrue` needs `SnapshotOK`: an open payment will write the account, and
as long as it is not stale it has read the balance the account has now. Each step that
writes the account makes every other open payment stale, so the one that commits recorded
the true balance. It does not need the locks. In Recharge the balance is read and written in
one step, and `ChargedOnce` needs that what has been credited is no longer Pending, and that
success is only notified of what is paid.

**Hours and payments.** Slow handlers can bill an hour twice and even set
`latestBillingTime` back; still none is skipped (`NoHourSkipped`), because a handler goes on
from an hour before which all are billed and bills are never removed. A bill that is Done
has a payment (`DoneIsPaid`), since both appear with one commit. Exactly once takes the
locks. `OnceInv` says that a creator at work has the lock of the document and bills the hour
of `latestBillingTime`, of which there is no bill yet, and that no two bills are of one hour;
`PayOnceInv` says that a payer at work has the lock of a Pending bill, and that no two payments
are of one bill.

**Limiter.** `SlotsAreUsed` speaks of the moment when no check is left. `NoneForgotten` is what
is conserved until then: while a function waits, there is no room, or as many checks are to
come as places are free, or as many as functions wait. `next()` and a check may take each
other's function, and each keeps the sum. `ActiveBound` counts the members of a set, over
lemmas on cardinalities. The queue stays bounded because a tick that finds n stale documents
enqueues what is missing to n; that it has enough free names is a pigeonhole argument over
waiting and running functions. `VerdictIsApplied` needs `ChecksApart`: a limit's lock outlasts
its work, so no second check of the database changes the permission the first one has read.

**Functions.** `NothingLost` looks like a fact about three collections, but each commit writes
what a transaction read several steps ago. The invariant says of each transaction that what it
has locked is as it found it (`Fits`), that the locks of two transactions are disjoint
(`Disjoint`), and what the steps of its kind have put into its record (`Shape`). It needs that
restoring conflicts with whatever else writes the items, in the collection and in the bin.

**What the runtime knows.** `CacheAgrees` speaks of a runtime at rest. `KnowledgeInv` says what
holds on the way there, for each function of which no event was lost. What is cached is
published, or its deletion is still in the stream (`CacheTrue`); what is published is cached,
being read, or its insertion is still in the stream (`CacheFull`); a read that will store an
older document has a deletion before it (`ReadsTrue`); a module is made of cached entries, or
of entries that a deletion in the stream will clear (`ModulesTrue`). `StreamInv` says that a
deletion of a function that is published is followed by its insertion, which the order of the
events of one publication (deletions first) gives. All this fails with two functions of one
name, and the proof led to `clashed`.

**Two databases.** `Agreement` says what is so when all requests have ended. `AgreementInv`
says it for each name while they run: a name no request is half-way with has the same
functions in both databases (`Agreeing`); a transaction that has published knows that its
commit will make them the same (`HalfWay`, with `After` for what the commit writes); an update
that nobody disturbed knows that what it has stored is compiled from its own code
(`UpdateKnows`); and a request that was disturbed has left a mark (`Meeting`, `Noticing`). It
needs that what a commit overwrites is called as the request believes (`Over`), which rests on
`Fits`. The proof found that a mark has to survive the recycle bin, which no run had reached
with its bounds.

Only model-checked: the liveness properties, which are out of the prover's reach
(`StopIsServed`, `DeleteIsServed`, `RestartIsServed`, `ServedInTheEnd`, `RemovedInTheEnd`,
`HoursAreBilled`, `BillsArePaid`, `SuccessIsRecorded`, `LimitIsEnforced`, `SizeIsCaptured`).
The violated runs are counterexamples and need no proof.

## 5. Not modelled

- **Database policies and rules** publish as functions do, by the same code pattern;
  **configuration** and the runtime's other change streams (policies, websites, proxy) follow
  the same stream with whole-document replacements.
- **Groups, users, quotas, tokens, verification codes, notifications** keep single documents
  with check-then-act and have few steps each.
- **Storage buckets** have a task of the shape of ManagedResource; only their removal with the
  application is modelled. The storage limit's handler is never called.
- **History, version numbers, debug parameters, template catalogue, invite codes, exports
  and imports** are left out of the modules of their components: nothing modelled reads them.
- **Execution of functions, web sockets, logs, monitors, pods, the database proxy and the
  query language** have no state that outlives a call, or are pure functions over JSON.
- **SDKs, CLI, web consoles, exporter, charts** keep no state that others depend on, though
  they, with vendored editor code and generated API types, are most of the repository's lines.
  Credentials and external identity providers are configuration.

## 6. Plan

Done, in this order: the application with its instance, the dedicated database with its
refinement, billing and recharge; then gateway, websites, triggers and storage users
(ManagedResource), usage limits with the limiter, functions with the runtime's cache; and the
proofs above.

Next:

1. Policies and configuration as further kinds of PublishedFunctions; storage buckets as a
   sixth kind of ManagedResource.
2. ManagedResource shown to implement the abstract `child` of ApplicationTask (absent,
   Creating, Created, Deleting), as DedicatedDatabase implements its life cycle.
3. Notifications, group invitations, quotas and verification codes.
4. Proofs of what is safety in the liveness properties: that in every state where something is
   still to be done, a handler is at work or its lock runs out, so that only fairness is left
   to TLC.

Each component has one run that takes all of its properties together; new components follow
that.
