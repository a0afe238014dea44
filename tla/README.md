# Verification of the Kubernetes controllers

This directory holds TLA+ specifications of the programs in this repository,
TLC configurations that check them on small instances, and proofs that hold for
instances of every size. Paths below are relative to the repository's `src/`;
`client-go/` stands for `app-controller/vendor/k8s.io/client-go/`.

## 1. Inventory

The repository holds five small programs and the libraries one of them vendors.
Their own logic is in two controllers built on client-go, one built on
controller-runtime, an admission webhook, and the clients, informers and fakes
generated for two custom resources.

| component | state | operations | talks to |
|---|---|---|---|
| **app-controller** `app-controller/controller.go` | the work queue; informer caches of Apps, Deployments, Services, Ingresses; the locals of each worker's `syncHandler` | `NewController` (handlers), `enqueueApp`, `Run`, `processNextWorkItem`, `syncHandler`; `handleObject` is dead code | informers (callbacks, listers), work queue, API server (`Create`), event recorder |
| **work queue** `client-go/util/workqueue/queue.go` | slice `queue`, sets `dirty` and `processing`, flags `shuttingDown` and `drain`, one mutex and condition variable | `Add`, `Get`, `Done`, `ShutDown`, `ShutDownWithDrain` | handlers (producers), workers (consumers), `Run` |
| **delaying and rate limited queue** `delaying_queue.go`, `rate_limiting_queue.go`, `default_rate_limiters.go` | heap of waiting items, failure count per item, token bucket | `AddAfter`, `AddRateLimited`, `Forget`, `NumRequeues` | work queue |
| **informers** `client-go/tools/cache` | reflector's resource version, DeltaFIFO, indexer, listeners' buffers | list, watch, relist, resync, notify | API server, handlers, listers |
| **main and signals** `app-controller/main.go`, `pkg/signals/signal.go` | the signal channel, the stop channel | start, first signal (stop), second signal (exit) | controller, informers |
| **serviceController** `serviceController/pkg/controller.go` | work queue with failure counts; caches of Services and Ingresses | `addService`, `updateService`, `deleteIngress`, `syncService`, `handlerError` | informers, work queue, API server (`Create`, `Delete`) |
| **serviceController main** `serviceController/main.go` | a stop channel that nobody closes; resync period 0 | start | controller, informers |
| **AppReconciler** `kubebuilder-demo/controllers/app_controller.go` | nothing between calls | `SetupWithManager`, `Reconcile` | controller-runtime's cache, queue and client |
| **App webhook** `kubebuilder-demo/api/v1beta1/app_webhook.go` | none | `Default`, `ValidateCreate`, `ValidateUpdate`, `ValidateDelete` | API server |
| **kubebuilder-demo main** `kubebuilder-demo/main.go` | the manager | start | reconciler, webhook, signals |
| **client, informer and lister of Apps** `app-controller/pkg/generated` | an informer's cache | typed calls, `ListFunc`, `WatchFunc`, lister reads | API server, controller |
| **informer factories** `.../informers/externalversions/factory.go` | maps of informers and of those started | `InformerFor`, `Start`, `WaitForCacheSync` | mains, informers |
| **fake client, deep copies, informer and lister of Foos** `operator-crd/pkg` | the fake's object tracker and its watchers | the fake's typed calls, `DeepCopy` | tests |
| **operator-crd**, **create-crd-template** mains | none | read one resource and print it | API server |
| **schemes and registration** | tables filled by `init` | none afterwards | clients |

**Interaction.** An informer's goroutine writes its cache first and then calls
the handlers, which put keys on the work queue. Workers take a key, read one or
more caches - each trailing the API server by a delay of its own - decide, and
write to the API server. Their writes come back as watch events. Nothing but the
API server survives the process. Main creates the factories, the controller asks
them for informers, main starts them, and the controller waits for their caches
before its workers run.

**Hard behaviours.** Several goroutines on one mutex and one condition variable;
the decision to create or delete taken from several caches that are stale
independently of each other; several objects created by separate calls, any of
which may fail, with or without effect; retries that race with new changes; the
process ending anywhere; watches lost and replaced by lists, some of them from
API servers that are behind; two Apps that want the same object; objects deleted
by users or by the garbage collector while a worker still believes in them;
signals and API outages in the middle of the start; pointers shared between
objects that are meant to be copies. `PROJECT.json` lists each of these hazards
at the line where it bites, with the properties that would catch it.

**What correctness means here.**

- Work queue: no item is lost or handed to two workers, the slice and the sets
  agree, nobody sleeps for ever, a shutdown drops nothing, a drain returns, and
  no item starves.
- Informers: cache and queued deltas never lose a change, no key goes back in
  time, deletions are announced once, "synced" means that the first list is in,
  and caches catch up with the API server across lost watches and late lists, but
  for deletions that a list does not show (*ghosts*).
- app-controller: every version of every App is reconciled; an App reported
  Synced owns its dependents; when things calm down every App owns them; what
  belongs to deleted Apps vanishes; the rate limiter forgets what is done with.
- serviceController: no version of a Service is dropped silently; annotated
  Services get their Ingress; the rules of `serviceController/Readme.md`.
- kubebuilder-demo: whenever nothing is under way the dependents are what the
  switches in the App's spec ask for.
- Programs: no key is processed before the caches are filled, exit codes tell
  the truth, a signal ends the process, and left alone it comes to serve.
- Fake client: objects of tracker, watchers, caches and clients share no memory.

## 2. The modules

| module | what it is |
|---|---|
| `ItemQueue` | what a work queue promises: a set of dirty items, each taken by one worker at a time, none starved |
| `WorkQueue` | `queue.go` with its mutex and condition variable; it implements `ItemQueue` |
| `Informers` | store, deltas under way and cache of each kind of object, as operators for the controllers' actions |
| `Replica` | what an informer's cache promises: each key shows a past moment, and the moments go forward |
| `AppInformer` | typed client, Reflector, DeltaFIFO and indexer of Apps in detail; it implements `Replica` |
| `FakeClient` | the fake client of Foos, its tracker and an informer on it, on a heap; it implements `Replica` |
| `AppController` | the App controller on `ItemQueue` and `Informers`, with users, garbage collector, faults, stops and crashes |
| `ServiceController` | the Service controller on the same two modules |
| `AppReconciler` | webhook and reconciler of kubebuilder-demo on the same two modules |
| `Startup` | the five programs from main to exit, with signals, factories and workers |
| `MCWorkQueue`, `MCAppController`, `MCServiceController`, `MCAppReconciler`, `MCStartup`, `MCAppInformer`, `MCFakeClient` | the instances TLC checks |
| `WorkQueueProofs`, `InformersProofs`, `AppControllerProofs`, `ServiceControllerProofs`, `AppReconcilerProofs`, `StartupProofs`, `AppInformerProofs`, `FakeClientProofs` | theorems and proofs |

The controllers use the *abstract* queue. `WorkQueue` is checked (with liveness)
and proved (safety) to implement it, so that the condition variable need not be
carried through the controllers' state spaces. In the same way they use
`Informers`, where a cache is a sequence of deltas per name behind the API server;
what happens inside an informer is `AppInformer`'s concern.

Definitions whose comment begins with *Fault* are plausible mistakes in the
definition below them. No specification uses them; substituting one for the
other shows that a property is able to fail (`PROJECT.json`, "mutants").

### WorkQueue

Each method of `Type` runs under `cond.L`, so a method is one action; the
exceptions follow the code's own gaps. `Get` is split at `cond.Wait` (`GetWait`
puts the goroutine into `waiters`; `Signal` and `Broadcast` take it out; it then
tests the loop condition again as the `for` does). `ShutDown` and
`ShutDownWithDrain` lock the mutex anew for `setDrain`, `shutdown`,
`isProcessing`, `shouldDrain` and `waitForProcessing`, and each of these is an
action. `queue` is a sequence, `dirty` and `processing` are sets, as in the code;
`worker`, `holding` and `closer` are the goroutines' program counters and locals.
`Signal` wakes *some* waiting goroutine: Go promises no more. Metrics and the
read-only `Len` and `ShuttingDown` are left out. `Terminated` is the quiet end of
a queue all of whose goroutines have returned, so that TLC's deadlock check means
something before it.

### Informers

`store` is what the API server holds and `cache` the indexer, for each kind and
name. `pend[kind][n]` is what is under way about a name: first the deltas that
DeltaFIFO holds, then the events that the reflector has not received. Each name
has a sequence of its own because DeltaFIFO is popped key by key; a FIFO of keys is
one of the orders this allows, and `SharedInformer` promises none ("no promise about
ordering between states seen for different objects", `shared_informer.go:68`).

`Write` is a write at the API server and its watch event. `Replace` is a list, at
the start or after a lost watch. Of each name's events the reflector has received
a prefix - any prefix, but at least what an earlier list has put into DeltaFIFO
(`queued`). These are kept, as `DeltaFIFO.Replace` keeps `f.items`; the others are
lost, and `Relisted` queues in their place the object that was listed, or a
deletion of one that was not, *if the indexer has it*. An object that is only
queued and not in the list any more is `Overlooked`: nobody queues its deletion,
it is cached and it stays (`delta_fifo.go:628-648`). `ghosts` remembers these
names until they are listed or written again. `Bury` is `dedupDeltas`, and
`Tombstone` a deletion that only a list has shown; controllers whose handlers do
not tell it from another substitute `None`. `initial` holds the names of the first
list that are still queued, and `Synced` is `WaitForCacheSync`.

`ProcessDelta` applies the next delta of a name. (A Pop applies all that is queued
of a key under the lock of DeltaFIFO; readers of the indexer and the listeners'
goroutines do not take that lock, and see every state in between.)
`LoseInformers` is the end of the process. `CacheTrails` is what the module
promises: every object that exists is going to be cached as it is, and of those
that are gone none remains, but for ghosts.

### AppInformer and Replica

The API server is `log`, a sequence of writes; a resource version is a position
in it. `R!StoredAt(k, p)` is what is stored under `k` after the first `p` writes.
The typed client's calls are actions: `Create`, `Update` (refused unless the
resource version is the stored one), `UpdateStatus` (always NotFound: the CRD has
no status subresource), `Patch`, `Delete`, `DeleteCollection`, `Get`, `ListApps`.
`held` is the App a client has read and will change. An App is a counter of its
changes and its resource version.

The reflector is `watching`, `lastSync` (its resource version) and `unavailable`
(a list answered "too large resource version", after which it asks for the
latest). `List` is a list that shows the present; `ListBehind` one from an API
server that is behind, which may not be older than `lastSync`; `ListTooLarge`
the refusal of the latter; `WatchEvent` one event; `WatchEnds` the end of a
watch; `Resync` the 30 s timer. DeltaFIFO is `items` (deltas per key), `queue`,
`populated` and `initial` (`initialPopulationCount`). `Queue` is
`queueActionLocked` with `dedupDeltas`; `DeletedBy` and `Overlooked` are what
`Replace` finds missing and what it does not look at; `Pop` applies one key's
deltas to `cache` under the lock. `moment`, `firstList`, `changes` and `ghosts`
are history.

`Replica` is the abstract specification: `Extend` (the log grows), `Advance` (a
key's copy moves to a later moment), `AdvanceAll` (all copies do at once, as when a
list replaces them), `Forget` (a restart). `RefinesReplica` maps `copy` to the
indexer.

A *ghost* is a key that `DeltaFIFO.Replace` misses (`delta_fifo.go:628-648`): it
compares the list with the indexer only, so that an object whose addition is
still queued when a list arrives that no longer has it is added afterwards, and
stays until the next list or event. `FifoTracksLog` and `CatchesUp` leave these
keys aside, and nothing else; `EventuallyRemoved` does not, and
`AppInformer_ghost` shows a ghost.

### FakeClient

Memory is modelled where it can be shared: a Foo is its `Spec.Replicas`, a
pointer to a cell of `heap` or `Nil`, and a plain assignment shares the cell.
`DeepCopy` takes a fresh cell; `Live` is what the program can still reach, and
cells that are not live are garbage. The cells are finitely many; `Room(n)` holds a
step back that may need more than are free. `tracker`, `cache`, `events` (the watcher's
channel), `mine` (an object a client changes) and `borrowed` (one it only reads)
hold pointers. `Store` and `Announce` are the tracker's `add`
(`client-go/testing/fixture.go`); a `Patch` sets the replicas, clears them or changes
other fields; the calls that the fake refuses change nothing. `phase` is the
reflector: the fake's watch has no history and ignores the resource version, so
that what is written between list and watch (`missed`) is never seen by the cache.
`CatchesUp` leaves these keys aside until they are written again.

### AppController

`pc[w]` walks a worker through `syncHandler`: `Get` (waiting for a key), `app`
(reading the App's lister), then for each kind of `KindOrder` `lookup` and
perhaps `create`, `check` (the three `IsControlledBy`), `Done` (the deferred
`workqueue.Done`). Each step reads *one* cache or makes *one* call, so that
everything else may happen in between. `local[w]` holds the App that was read,
the next kind and, for each kind passed, the owner of the object found or
created, which is all that `check` looks at.

An object is its owner's uid and, for a Deployment, its replicas. An App is its
uid and its spec: the three names and the replicas. Uids are given in order, so
that an App created again under its old name is a different owner.

`LookupName` and `CreateName` are two operators because the code has two ideas
of the name: `syncHandler` looks a Service up under `Spec.Service.Name`, and
`newService` names it `Spec.Deployment.Name`.

Handlers and resyncs put keys into `notes`, from where `EnqueueApp` moves them to
the queue: the informer's goroutine and the listener's are different ones. A delta
that leaves the cached App as it is - a list after a lost watch brings many - calls
no handler (`sharedIndexInformer.OnUpdate`, `distribute`). There is no handler for deletions of Apps and none for dependents. `Fail` and `Succeed`
are the tail of `processNextWorkItem`: `tracked` holds the keys whose failures
the rate limiter counts and `waiting` those whose back-off is running. `Stop` is
the close of the stop channel (`Run` shuts the queue down and returns without
waiting for its workers), `Restart` the end of the process at any point and its
new start.

### ServiceController

As above, with the program counters of `syncService`. `ServiceHandler` and
`IngressHandler` are the three registered handlers; `handlerError` is `Fail`, with
`failures` the counts `NumRequeues` returns. A Service is a version and whether it
carries `ingress/http: "true"`. `Calls` is what a delta makes the handlers do; a
tombstone among the handler calls of Ingresses meets the type assertion in
`deleteIngress`, and `Panic` ends the process. `handled`, `givenUp` and `gone` are history
variables for the properties.

### AppReconciler

Every write of an App goes through `Default`, which negates `EnableIngress`, and
`Valid`, which sees the result. The manager's cache is `Informers`, its queue
`ItemQueue` with one worker (`MaxConcurrentReconciles` is 1). `Enqueued` is what
`For(App)` and `Owns(...)` make of an event: every change of an App, and of
dependents whose old or new state has an App as controller. `Dropped` are the
dependents whose events a list makes vanish without a trace. `Reconcile` is
`GetApp` (or `GetAppFails`), then for each of Deployment, Service and Ingress `Read` and perhaps one
call: `CallSucceeds`, `CallRefused` or `CallFails` (done or not). `ReadFails` has
the code's three reactions: a Deployment is updated at a venture, an error is
returned for a dependent that is wanted, and one for a dependent that is not
wanted is passed over. `Proceed` returns after a Service that is switched off,
as the code does. `unnoticed` (history) marks Apps for which something happened
that makes no event: objects of others under the App's name, dependents that came
and perhaps went while a watch was lost (`Dropped`, which includes ghosts), a failed
read that was passed over.

### Startup

`Script(p)` lists the steps of each main; `script` is what main has yet to do.
`handler` and `signalled` are the goroutine of `SetupSignalHandler` and its
channel with two places (`signal.Notify` drops what does not fit), `stop` the stop
channel. `requested`, `started` and `synced` are the factories' informers:
`Start` runs those that were asked for before, `WaitForCacheSync` waits for those
that were started. `Wait` is `Run`'s `cache.WaitForCacheSync`, which ends with
the caches or with the stop; when both have come either may be what it sees
(`PollImmediateUntil` looks at the caches only now and then). Workers enter their loop (`wait.Until` looks at the
stop channel first), take keys and return them. Exit codes: 255 for
`klog.Fatalf`, 2 for a panic, 1 for `os.Exit(1)` and `log.Fatalln`, 143 for a
signal nobody handles, 0 for a return of main. Controller-runtime is not in the
repository: what the manager does between `Start` and its return is modelled from
how main uses it, with as little assumed as possible.

## 3. The runs

Passing runs:

| run | instance | what it shows |
|---|---|---|
| `WorkQueue` | 3 items, 3 workers, one `ShutDown`, one `ShutDownWithDrain` | `QueueIsBacklog`, `ExclusiveProcessing`, `NoLostWakeup`, `SleepersDoNotMix`, `DrainerWillBeWoken`, `ExitedMeansDrained`; with fairness `DrainReturns` and `RefinesItemQueue` |
| `AppController_safety` | 2 Apps wanting the same name, 2 workers, 2 kinds; 2 user writes and one failing call, or one lost watch, or one stop or crash | `CacheTrails`, `NoAppForgotten` and `SyncedMeansOwned`: no two Apps are Synced with one object |
| `AppController_live` | 1 App, 2 names, 2 kinds; 1 user write and a deletion of a dependent, or 2 user writes, with a lost watch; or 2 user writes and a failing call or a crash | `NoAppForgotten` with an App that changes; `Converge` and `OrphansVanish` |
| `ServiceController` | 1 Service; user writes, writes by others to the Ingress, failing calls, lost watches and crashes in four mixtures: 3, 1, 1, 1, 0; 2, 1, 3, 0, 0; 2, 1, 1, 1, 1; 3, 0, 0, 2, 0 | `NoServiceForgotten`, and with fairness `IngressCreated` |
| `AppReconciler` | 1 App; a user write with a lost watch and a write by others or a failure; a user write with a write by others, a failure and a crash; or 2 user writes and a failure | `QuietMeansSettled` without resyncs; with them `Settles`; `OrphansVanish` |
| `Startup` | 5 programs, 2 workers, 3 signals, an API server that comes and goes | `NoBlindWorker`, `SuccessMeansSynced`, `EndsWhenAsked`, `ServesInTheEnd` |
| `AppInformer` | 2 keys; 3 writes with a late list, a lost watch and a crash, or 3 writes with two lost watches, or 4 writes | `FifoTracksLog`, `DeletionsArePaired`, `SyncedMeansListed`, `NoLostUpdate`; `RefinesReplica` and `CatchesUp` |
| `FakeClient` | 1 key, 8 cells, 2 values, 3 writes | `Unshared`, `TrackerKeepsWrites`; `RefinesReplica` and `CatchesUp` |

Each checks its module's type invariant as well.

Runs that TLC answers with a counterexample, each a disagreement between the
code and its documentation (the quotations are under "findings"):

| run | property | what happens |
|---|---|---|
| `AppController_sample` | `SyncedMeansOwned` | with three different names, as in `artifacts/crd/example.app.yaml`, the App is Synced without the Service and Ingress it names: they were created under the Deployment's name. The next resync of the App ends in AlreadyExists, and so do all its retries |
| `ServiceController_converge` | `IngressConverges` | the annotation goes and comes back; the second sync still sees the deleted Ingress in its cache; nothing tries again |
| `ServiceController_panic` | `NoPanic` | an Ingress deleted while the watch is lost arrives as a tombstone, and the type assertion panics |
| `AppInformer_ghost` | `EventuallyRemoved` | an App is created, the watch is lost before its addition is popped, the App is deleted, and the list does not show it: the App is cached and stays |

`SyncedMeansOwned` passes where the names are equal and nobody deletes
dependents, and fails on the names of the sample manifest. It is the same
property both times; the two runs show that the name is the only cause.

Further divergences were met while modelling, which follow from one or two lines
and need no run:

- `ShutDown`'s comment (`queue.go:208-210`) says that it makes a drain return at
  once; a drainer that is already asleep goes on sleeping until the next `Done`.
- `Run`'s comment (`controller.go:149-151`) says that it waits for its workers;
  it does not.
- The replicas of an App that change do not reach its Deployment
  (`controller.go:242-243`; `TestUpdateDeployment`, `controller_test.go:280-297`).
- The Ingress of a deleted Service stays (`serviceController/Readme.md:6`).
- `processNextItem` of serviceController never calls `Forget` on success, as
  `rate_limiting_queue.go:26-27` asks ("Doesn't matter whether it's for perm failing
  or for success"): the failures of a key add up over its life, until one that would
  pass is given up at once.
- `Reconcile` returns as soon as it has dealt with a Service that is switched off
  (`kubebuilder-demo/controllers/app_controller.go:129`): an App that had both and
  switches both off, as the validation makes it do, keeps its Ingress.
- `syncService` deletes whatever Ingress has the Service's name
  (`serviceController/pkg/controller.go:153`).
- `Default` negates `EnableIngress` on every write, also when the user did not
  touch it (`app_webhook.go:48`).
- `UpdateStatus` of Apps always answers NotFound (`app.go:141`): the CRD has no
  status subresource.
- The fakes ignore resource versions, and their `DeleteCollection` deletes
  nothing and reports success (`fake_foo.go:126`); what is written between an
  informer's list and its watch is never announced to it
  (`fake/clientset_generated.go:48`).

**Ghosts** reach every program that is built on these informers. An App that is a
ghost is synced every 30 s and its dependents are made again after each garbage
collection; a dependent that is a ghost is taken for present, so that an App is
Synced without it and a Reconcile leaves it missing. `Converge`, `OrphansVanish`
and `Settles` therefore leave aside what a ghost misleads (`Misled`, `GhostOwner`),
and no more: with these parts removed TLC finds the ghost in the same runs.

### Bounds, and why they are enough

- `MaxLag = 2`: two deltas are under way about a name at most when it is written or
  listed, and a write that would bring a third waits. Two are enough for a create
  followed by a delete, or an old version followed by a new one, to be under way
  together, for one of them to be queued and the other lost, and for a list to add
  a third; the proofs, where `MaxLag` is arbitrary, need nothing else of it.
- `Bounds` caps what the environment does, and is a set of alternatives, one of
  which holds for a whole behaviour: `user` writes, `delete`s of dependents (or
  writes by `others`, or `ingress` writes), `fault`s, `relist`s and `crash`es. Two
  user writes make create-delete and create-change possible, three also
  create-delete-create; one lost watch, failing call or crash can already fall at
  every point of a sync, and splits what is under way in every way. Nothing the
  controller does itself is bounded, retries
  and resyncs included.
- Two Apps and two workers are what a contest for one name takes. The Ingress is
  treated as the Service is, so two kinds suffice (`AppController_sample` has the
  three). Services meet nowhere, so one is enough; nor do the Apps of
  kubebuilder-demo, whose dependents carry the App's own name.
- `MaxRetry = 1` (10 in the code) lets a key be retried, retried once more and
  given up.
- `AppInformer`: two keys let the countdown of the first list meet other keys,
  two lost watches let two lists fall between two Pops, and four writes make
  create-delete-create-delete of one key possible.
- `AppInformer_ghost` has bounds that just allow its counterexample.
- `FakeClient`: keys share nothing but the heap, and eight cells are what one key
  can keep live at once and a call needs (`Cells` and the guard `Room` are a bound:
  the program's memory has no such end). `MaxWrites = 3` is a create, an update
  and a deletion.
- `MaxSignals = 3`: one more than the channel holds.
- Symmetry of Apps and of workers is used in `AppController_safety` only, which
  checks no liveness.
- Deadlock is checked for `WorkQueue` and `Startup`. The others may come to rest
  with nothing to do when the disturbances are used up.

### Fairness

The controllers' specifications assume weak fairness of each goroutine (the Go
scheduler runs what can run; API calls return; handlers return), of the
informers' deliveries and first lists, of back-offs ending (at most 1000 s) and,
in `AppController` and `AppReconciler`, of the resync (30 s, 10 h) and of the
garbage collector. Taking a key is strongly fair per key: this is the fairness of
`ItemQueue`, which `RefinesItemQueue` derives from weak fairness of the workers
alone. Users, faults, lost watches, stops and crashes are never forced to happen.
`Fairness` of `WorkQueue` obliges nobody to call `Add` or to shut the queue down,
only to finish a shutdown that has begun.

`AppInformer` assumes that the reflector lists and watches and that the informer
pops; clients, late answers, lost watches, resyncs and crashes are free.
`FakeClient` assumes the same of its informer. `Startup` assumes that main, the
signal handler and the informers go on; workers may hang in a call for ever, the
manager reacts to a stop when it likes, and the API server may stay away
(`ServesInTheEnd` has its return as a premise).

## 4. The proofs

All theorems are about `Safety` (the specification without fairness), for any
sets of items, workers, Apps, Services, keys, names, specs, kinds and cells, for any
bounds, and under the named ASSUMEs only: `QueueAssumption`, `AppAssumption`,
`ServiceAssumption`, `ReconcilerAssumption`, `StartupAssumption`,
`InformerAssumption`, `FakeAssumption`, `NoneIsNoObject` and `NoneIsNoApp` say that sentinel values are no ordinary values, that bounds are
numbers, that there is a worker, that workers (`WorkQueue`), keys (`AppInformer`,
`FakeClient`) and cells are finitely many, that Deployments come first and that
names in specs are names. TLC evaluates them in every run of their module. One
theorem, `SyncedOwned`, has two hypotheses more. The five programs, the kinds of
kubebuilder-demo and the scripts of main are what the code says, no parameters.

Each module's `IInv` is the inductive invariant, stated in the module it is about;
TLC checked it there as an invariant before it was proved.

**WorkQueue.** `IInv` is the conjunction of the checked invariants with
`Structure`, which ties program counters to shared state (who holds an item is
busy, who has exited saw the shutdown, ...). `NoLostWakeup` is the delicate part.
A `Signal` may wake any sleeper, so that the invariant counts: while a worker
sleeps there are at least as many workers on their way through `Get` as queued
items. `SleepersDoNotMix` makes the count work: once `Broadcast` has run no worker
sleeps any more, and before that no drainer does. `DrainersWoken` has the
additional hypothesis that one goroutine at most drains, and needs it: the one
`Signal` of the last `Done` wakes one of two drainers.
`QueueRefinesItemQueue` maps every action to a step of `ItemQueue` or a stutter.

**Informers.** `InformersProofs` proves what the three controllers need of each
operator: it keeps types and `CacheTrails`, and what is under way after it is what
was under way before or what was written or is stored (`HeldAfter...`). For a list
this is a statement about every prefix of every name's deltas: what is kept and
what `Relisted` adds end in the stored object or in a deletion, and where neither is
so the name is `Overlooked` and a ghost. The lemmas go name by name (`NameTrails`).

**AppController.** `NoAppForgotten` is not inductive as it stands: a worker may
be syncing an *outdated* version of an App, whose end would leave the current
one to nobody, and a list may replace the events that would make up for it. The
invariant therefore speaks of the cache first. `CachedAppIsServed`: an App that is
cached was Synced as it is, or a worker has just that version, or a sync is still to
begin (`Ahead`: the key is among notes, queue and back-offs).
`StaleSyncIsFollowed`: a sync of a version that is not the cached one any more is
followed by another. These hold whatever the watch does, because only `Deliver`
changes the cache and it notifies the handlers of each change. `CacheTrails` then
takes the step from the cache to the store: an App that is stored is cached as it
is, or something under way will change what is cached (`News`). `WorkerState` carries
the program counters. There is one lemma per action. `NoTrackedFailureLeaks`, that the
rate limiter counts no key that is done with, is a conjunct of `IInv` and only proved
(`FailuresForgotten`); no run checks it.

`SyncedMeansOwned` is proved under two conditions on the constants. `NobodyDeletes`:
the controller has no handler for deleted dependents, so that a user who deletes
one makes the last report untrue until the next resync. `NamesAgree`: objects are
created under the Deployment's name and looked up under their own
(`controller.go:419`), and `AppController_sample` shows what becomes of the property
where these differ. The difficulty is that a worker compares owners it has read one
after the other, from caches that trail, and reports later. `OwnersStay` says why
that is no harm: an object with an owner, in the server, a cache, an event under way
or a worker's memory, tells of something that lasts. As long as an App with that uid
exists the object is there and has that owner, since only the garbage collector
deletes, it deletes only what has no living owner, a taken name cannot be created
over, and uids are not given twice.

**ServiceController.** The same argument proves `NoServiceForgotten`
(`CachedServiceIsServed`, `StaleSyncIsFollowed`, `CacheTrails`). Here there is no
resync to make up for a delta that `updateService` skips; it skips those that leave
the cached Service as it is, and these leave `CachedServiceIsServed` as it is too,
also when a list brings a version for the second time.

**AppReconciler.** `QuietMeansSettled` speaks of states in which nothing is under
way, and is not inductive: it says nothing of the steps that lead there. `IInv` speaks
of the states in which no *other* Reconcile of an App is to begin (`Ahead`). Then
the one that is under way is of the App as it is cached, and the dependents it has
passed - all of them, when none is under way - are `Served` (`ReadsAreServed`): one
that is wanted is cached, or a delta will change that; one that is not wanted is not
cached or not stored any more. A delta that makes a dependent unserved changes what
is cached of it, and enqueues the App, if the old or the new object has an owner:
this is `OwnersKnown`, for all Apps but the `unnoticed`. `GhostsAreUnnoticed` puts
the ghosts among the latter. When nothing is under way, cache and store agree
(`CacheTrails`), and `Served` is what `QuietMeansSettled` says. `WorkerState` says
that the worker starts only when every cached App has been put on the queue.

**Startup.** Whether a worker takes keys blindly depends on an order of calls several
steps long: a factory's `Start` runs the informers that were asked for *before* it,
a wait waits for those that were *started*. `StepsBuildOn` states for each step of
main what it leaves behind once it is done (`~Ahead(step)`), and `WorkersWaited` what a
worker knows between its start and its first key. The proof evaluates the scripts of
the five programs; no step occurs twice in one.

**FakeClient.** `Unshared` counts cells; `Apart` says the same pairwise, owner by
owner, which a step can be shown to keep. With it a write through a pointer is seen to
change the value of its owner only, so that what the tracker holds
(`TrackerKeepsWrites`) and what cache and events show (`ShowsThePast`) remain what they
were when copied. `EventsAhead` puts the events into the order of the writes, after
everything the cache knows, so that applying one moves its key forward:
`RefinesReplica`, for any number of keys where TLC has one. Fresh cells are
taken by rank (`Fresh`), and a lemma shows that the ranks of a finite set of numbers
are distinct and all taken.

**AppInformer.** The refinement and the three properties of cache and DeltaFIFO
rest on one invariant. `VersionsIdentify`: a resource version names one write of
the log; with it an update that the server accepts counts on from what is stored,
which is `NoLostUpdate`. `CacheIsPast`: each cached object is what was stored at the
key's `moment`, and the last delta queued for the key is what was stored at a
moment between that and the reflector's resource version; a Pop therefore moves
the key forward. `ListUnderWay`: a key of the first list that the cache does not
show yet is among the first `initial` keys of the queue, and their deltas are not
older than the list; when the countdown is over, `SyncedMeansListed` follows. What
is stored after several writes is not computed by recursion but by its last write
(`StoredAt`), so that the lemmas `StoredNext`, `StoredStays`, `StoredAfterOthers`
and `StoredAfterDeletion` need no induction. The last part of the module proves
`RefinesReplica`: writes are `Extend`, `Pop` is `Advance`, `Restart` is `Forget`, and
everything the reflector does is a stutter.

**Only model-checked.** Liveness (`DrainReturns`, `Converge`, `OrphansVanish`,
`IngressCreated`, `Settles`, `EndsWhenAsked`, `ServesInTheEnd`, `CatchesUp` and the
fairness of `ItemQueue`) is beyond the prover, and so are the properties that the
code violates, which have a counterexample instead.

## 5. Not modelled

- The heap of the delaying queue and the computation of delays, which is done in
  floating point and capped (`default_rate_limiters.go:97`): a back-off takes any
  finite time, which includes what the code computes.
- Inside the informers: the listeners' buffers, paging of lists, bookmarks.
- `handleObject`, which nothing calls; the status of Apps, which nothing writes;
  events recorded on failures; fields of created objects that nothing reads.
- After `Stop` the models let informers deliver and producers add as before; in
  the program these stop as well. This allows more behaviours, and the queue
  ignores what they add.
- Namespaces and selectors of listers, client-side rate limits, the actions that
  the fakes record. The fake of Apps is the code of `FakeClient` for a type
  without pointers, the factory and the typed client of Foos are the code of
  `Startup` and `AppInformer` for another type.
- Schemes, group versions and registration: tables that `init` functions fill.
- Flags, health checks and leader election of kubebuilder-demo.

## 6. Plan

1. Proofs: that the caches of `Informers` implement `Replica`, ghosts apart, so that
   controllers and informer meet in one abstract specification.
2. `RateLimitingQueue`: the heap and loop of the delaying queue with the failure
   counts, shown to implement what `waiting`, `tracked` and `failures` stand for.
3. `AppInformer` shown to implement the cache of `Informers`, ghosts and late
   lists apart.

## 7. Running

`tlc -config X.cfg M` checks a run (`PROJECT.json` names the module of each), and
`tlapm M.tla` checks the proofs of the eight `...Proofs` modules.
