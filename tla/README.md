# Helm Broker in TLA+

Helm Broker exposes Helm charts (*addons*) as services of the Open Service
Broker API. It has two halves that meet in a storage (etcd in production, an
in-memory driver for tests and simple installations):

- the **broker** (`internal/broker`) serves the OSB API: a platform, usually
  Service Catalog, provisions, deprovisions, binds and polls; each long action
  is an *operation* that a goroutine executes while the platform polls it;
- the **controllers** (`internal/controller`) watch (Cluster)AddonsConfiguration
  resources, download the repositories they name, decide which addons are valid
  and free of conflicts, store them, and register the broker in Service Catalog.

This directory holds the specifications, the TLC configurations that check them
and the TLAPS proofs. Everything is translated from the Go source;
`PROJECT.json` maps each definition to its lines, and gives for each property a
mutant: a definition changed the way a plausible bug would change it, for which
TLC finds the property violated. Mutated forms are marked `Mutation` in the
modules and are used by nothing else.

## Inventory

| Component | State | Operations | Hard because | Correct when | Module |
|---|---|---|---|---|---|
| Provisioning (`provision.go`, `operation_state.go`, `helm/client.go`) | operations, instances, a mutex, one goroutine per operation, Helm releases | Provision, its goroutine | handler and goroutine interleave; each storage call is a separate read or write; crash and failed calls; Helm may leave a failed release | one operation at a time, an operation ends, what it reports is true, no release is lost | `InstanceLifecycle` |
| Deprovisioning (`deprovision.go`) | the same, another mutex | Deprovision, its goroutine | works on a copy of the instance; three deletions in a row | 410 means gone; nothing is removed under a running installation | `InstanceLifecycle`, `Binding` |
| Operation and instance storage (`storage/driver`) | operations and instances by ID | Insert, GetAll, UpdateStateDesc, Upsert, Get, Remove | check and put are two etcd calls; the in-memory driver has a lock | the log of operations is append-only and exclusive | `InstanceLifecycle`, `OperationLog` |
| Last operation (`lastop.go`) | none | read of one operation | the sequence of answers a platform sees | an operation ends once and never changes | `OperationLog` |
| Binding (`bind.go`, bind operations, bind data) | bind operations, credentials in memory by instance ID | Bind, GetBindData, goroutine | GetBindData takes no mutex; a second Bind reuses the old operation; credentials are lost on restart | credentials are those of the instance as it is; a binding ends | `Binding` |
| Unbind (`unbind.go`) | none | answers 410, changes nothing | - | - | header of `Binding` |
| OSB API server (`server.go`) | none | decoding, routing, status codes | - | - | entry and answers in the two modules |
| Addons configuration controllers (`common.go`, `common_client.go`, `repository/`) | statuses of configurations, addons and charts, finalizers | Reconcile: OnAdd, OnDelete, reprocess | several resources conflict with each other, updates race, one step of many may fail | what is stored is what Ready configurations offer; conflicts resolve | `AddonsController` |
| Broker controllers (`broker_controller.go`, `cluster_broker_controller.go`, `broker/`, `instance/`) | (Cluster)ServiceBrokers, the namespace of a facade | Reconcile, for a namespace or the cluster | reads of three kinds of objects while they change; a facade is shared state | a scope has a broker exactly while it has configurations or instances | `BrokerController`; relisting in `AddonsController` |
| Addon and chart storage (`entity_addon.go`, `entity_chart.go`) | addons under two keys, charts | Upsert, Get, GetByID, FindAll, Remove | two puts and two deletes per addon; the maps of the in-memory driver | both views agree, and agree with what is registered | `AddonStorage`; what is lost on the way in `AddonForm` |
| Documentation (`controller/docs`, `rafter`) | AssetGroups, an archive per addon | Ensure, EnsureRemoved, upload | both controllers archive in one directory | documentation is that of the addon | `AddonStorage`, `AddonLoading` |
| Addon loading (`addon/loader.go`, `form.go`, `provider/`, `repository/`) | temporary directories, the namespace of the Template service | fetch an index, load an addon, fill in a URL | one service and one directory for two controllers; errors after a directory was made | the right Secret, nothing left behind, a bad addon is refused | `AddonLoading`, `AddonForm` |
| Catalog (`catalog.go`) | none | Convert | flags and schemas pass four representations | what is offered is what was written | `AddonForm`, `AddonOffer` |
| Rendering and resolving of `bind.yaml` (`bind/`) | the templates of a chart | Render, Resolve | precedence of sources; objects change while they are read; the in-memory driver hands out its chart | credentials follow the rules of Resolve | `BindResolver` |
| Migration (`migration.go`) | a label on the Deployment | Execute, with two goroutines | crash in the middle; the broker writes meanwhile | the label means migrated | `Migration` |
| Controller process (`cmd/controller/main.go`, `setup.go`, `health/controller.go`) | what is in memory | start, liveness probe | restarts | controllers run on migrated data | `ControllerProcess` |
| Webhook, broker health, command line tools | none | - | - | - | not modelled |

Who talks to whom: the platform calls the server, the server the services, the
services the storage and Helm; goroutines write the storage behind the
handlers' backs; the controllers write the addons and charts the broker reads.
There are no messages between the halves other than the storage.

The hazards of this code are listed at their lines in `PROJECT.json`, each
with the properties that would catch it going wrong.

## The modules

### InstanceLifecycle

One action per storage or Helm call of `Provision`, `Deprovision` and their
goroutines, and one per early return.

| Variable | Code |
|---|---|
| `ops`, `instances` | what the operation and instance storages hold |
| `releases` | what Helm holds, by release name (`createReleaseName`) |
| `mu["create"]`, `mu["remove"]` | the mutex of `provisionService` and of `deprovisionService` |
| `handler[t]` | program counter and locals of the request that thread `t` serves |
| `worker[id]` | program counter and locals of the goroutine `do` of operation `id` |
| `crashes`, `faults` | how often a failure has happened, for the bounds |

`Driver` decides how Insert works: with `"memory"` the check for a running
operation and the insertion are one step under the storage's lock
(`InsertInMemory`), with `"etcd"` they are a get (`CheckInEtcd`) and a put
(`PutInEtcd`). A failed etcd call answers the request or ends the goroutine
with an error; a put may have had its effect nevertheless
(`PutUnacknowledged`, `WorkerFails`). `Crash` loses threads, goroutines and
mutexes and, with the in-memory driver, the storage; the code resumes nothing
on start, so nor does the model. `Legacy` instances were stored by an old
version with a hash of their parameters, which `requestedParametersAreDifferent`
replaces by those of the next request. Helm, which is not in the repository,
is modelled from how `client.go` calls it: no `Replace`, no `Atomic`, `Wait`
with an hour's timeout. So a name in use is refused, a failed installation
leaves a failed release, and an installation is pending in between. A release
that is uninstalled while it is being installed does not come back.

`Platform` says what the caller does beyond one request at a time: `"overlap"`
(a request about an instance while another is being served), `"retry"`
(provision again while provisioning is in progress) and `"reprovision"`
(provision an ID whose removal was asked for). The OSB specification allows a
platform to do all three; properties that need less say so in their runs.

Left out as data: merging of chart values, wording of descriptions, the
decoding of requests. Addon and chart lookups may always miss
(`RejectProvision`, `RefuseInstall`) since the controllers remove addons at any
time.

### OperationLog

The abstract specification of what a platform sees by polling
`last_operation`: an operation is opened as in progress, next to no running one
of its kind on the instance (next to none at all when the log is `Exclusive`),
is closed once, and never changes afterwards. Only the loss of a `Volatile`
log on a restart removes operations. `InstanceLifecycle` implements it with
`log <- ops`; `Exclusive` is true unless the driver is etcd and requests about
one instance overlap.

### Binding

`Bind` under its mutex, `GetBindData` without one, the goroutine that renders
and stores the credentials, and the life of the instances next to it, whose
removal deletes the credentials. Credentials stand for the *life* of the
instance they were rendered for: an ID provisioned a second time starts another
life. Habits of the platform: `"overlap"`, `"rebind"` (bind a bound binding
ID), `"stray"` (bind without an instance or with an unknown plan) and `"hasty"`
(deprovision while a binding is in the making).

### AddonsController

The worker that reconciles the configurations of one scope (a namespace, or the
cluster), one at a time, and everything it talks to. One action per call to the
API server or a storage.

| Variable | Code |
|---|---|
| `conf` | the configurations in the API server: generation, spec, status, finalizer, deletion timestamp |
| `cache` | the same in the informer cache of the manager, from which every Get and List is served |
| `queue`, `rec` | the work queue; program counter and locals of `Reconcile` |
| `stored`, `charts` | the addon storage, by name and version, and the chart storage |
| `broker`, `catalog` | the ServiceBroker (absent, to be relisted, listed) and what Service Catalog was told |

`Reconcile` branches to `OnAdd` (`loadRepositories` ... `updateAddonStatus`,
`removeAddon`, `ensureBroker`, `ReprocessRequest`) or `OnDelete`
(`listOnDelete` ... `deleteFinalizer`). A write is a Get from the cache and an
Update that the API server refuses unless the object got is the latest;
`RetryOnConflict` repeats it, which is the guard `cache[c] = conf[c]` of
`Write`. That it may give up is a failed call. Users create, edit and delete
configurations at any time (`MaxEdits`), repositories and addons may be broken
(`MaxErrors`), calls fail (`MaxFaults`), the controller restarts
(`MaxCrashes`). `Fresh` names the reads for which the cache is assumed to be up
to date: `"get"`, the configuration reconciled, and `"list"`, the others.

A repository has one addon and an addon has one plan and one chart, so that the
repositories, addons and charts of a configuration are sets that correspond.
That the addon and its chart are put in separate calls shows here only in what
may fail (`RegisteringError`). How addons are stored is for `AddonStorage`, how they are loaded for
`AddonLoading`, and when the ServiceBroker comes and goes for
`BrokerController`: here it is there at some times and not at others.

### AddonStorage

What `AddonsController` has as one set, call by call: `saveAddons` and
`removeAddon` of the two controllers, and the storages they write.

| Variable | Code |
|---|---|
| `idSpace`, `nvSpace` | the keys of `entity_addon.go`: by ID, and by name and version. The etcd driver has a copy of the addon under each, put and deleted in two calls; the in-memory driver maps the second key to the first, under a lock |
| `charts`, `groups` | charts by name and version, and AssetGroups by ID |
| `status` | the addons in the statuses of configurations |
| `deleting` | configurations that are deleted and kept by their finalizer |
| `job[w]` | what the controller for namespaces, or the one for the cluster, is doing |
| `spoiled` | a history variable: addons of which a call failed, or a restart came, after some of their calls and before the others, until they are saved as a whole again |

An addon has a revision, since a repository may change under one name, version
and ID; registering it anew is a save over the old one, then the status, then
the removal of what is offered no more. `GetByID` is what the broker reads,
`Get` what the controllers read, `FindAll` the catalog. `Extends` says which
names of namespaces begin with which others, as etcd is asked for a prefix.
A chart is stored under its version as `Chart.yaml` writes it, and looked for
under the version of the plan's `ChartRef`, which gob has encoded with `String`:
`ChartOf` and `Printed` are the two forms, `ChartRef` the one that comes back.

A reconciliation that fails or is cut off by a restart is over. The next one of
the configuration loads what its repositories have by then (`OnAdd` with any
offers), or finds that it is deleted (`OnDelete`), or cannot fetch a repository
(`FetchingError`, after which the configuration is Failed and nothing of it is
ever removed); a write of the status may fail too (`ReconcileFails`). A deletion
that is repeated passes over addons it does not find by name and version.

### AddonForm

Four pure functions on the representations of an addon: what the loader makes of
a directory, with every reason to refuse it (`Loads`, `ToModel`), what a storage
gives back (`Stored`), the offer (`Convert`) and the check of Bind
(`isBindable`). `encoding/gob`, which the etcd driver uses, writes a
pointer as the value it points to and leaves out zero values, so that a pointer
to `false` comes back as none; and the driver stores neither `free` nor the
documentation entries. A file is missing, malformed, incomplete or complete.

### BindResolver

`Render` and `Resolve` of the goroutines of Bind, one read of a ConfigMap,
Secret or Service at a time, with the objects changing in between. With the
in-memory driver `Render` appends `bind.yaml` to the chart that all have, as
`renderer.go:49` does. `Resolvable`, `Wanted` and `Credential` are the reference:
the three rules in the comment of `resolver.go` as a definition, which
`ResolvedByPolicy` compares with what the steps end with.

### AddonLoading

`loadRepositories` and `createAddons` of the two controllers side by side: the
getters (a clone for git, hg and s3, a request for https, an error for
others), the templates in URLs with the Secret they ask for, the index, each
addon with its archive, its files and its documentation. Unpacking an addon
(`GetAddon`) and loading it, with the removal of the unpacked directory
(`Load`), are two steps, beside the getter's own directory. `templateNS` is the
field `namespace` of the Template service, `tgz` the archive of
documentation by name and version, `tmp` the number of other directories in the
temporary directory. Every step may fail; an archive that could not be written
stays where it is. The process may end at any step (`Restart`), as it also does
for an index with a version that is not a semantic one.

### AddonOffer

The composition: what `AddonLoading` loads is stored by either driver, offered,
and bound by two goroutines of `BindResolver`. A repository that cannot be
fetched leaves what is served as it was (`Publish`). Bindings are looked at once the
last load is over, which loses nothing: they read the stored addon once.

### ControllerObjects, Migration, BrokerController, ControllerProcess

`ControllerObjects` declares the configurations that the other three share.
`Migration` is `Execute` with its two goroutines: `migrateCharts` asks
for configurations to be reprocessed, `migrateInstances` converts the stored
instances one by one, while the broker writes them too, and then the label is
put on the Deployment, an Update that is refused when the Deployment has
changed. `BrokerController` has both reconcilers, with their events, the three
reads they decide on and the facades. Service Catalog is external: it has
classes for a broker, removes them before a deleted broker goes, and lets
instances refer to classes.

`ControllerProcess` composes them: migration first, then the controllers
with a request for every object there is, the liveness probe, which creates a
configuration, waits for its status and deletes it, and restarts, which lose
queues, jobs and the namespaces of facades.

### MC modules

`MCInstanceLifecycle`, `MCBinding`, `MCAddonsController`, `MCAddonStorage`,
`MCAddonOffer` and `MCControllerProcess` only add symmetry (of threads,
operation IDs, goroutines, bindings, configurations and releases) and
values of the constants. Symmetry is not used in the runs with liveness
properties.

### Proof modules

`InstanceLifecycle_proofs`, `InstanceRecords_proofs`, `Binding_proofs`,
`AddonsController_proofs`, `AddonsSettled_proofs`, `AddonStorage_proofs`,
`AddonOffer_proofs` and `ControllerProcess_proofs` extend the modules they are
named after (`InstanceRecords_proofs` the first of them, `AddonsSettled_proofs`
the one before it) with inductive invariants, lemmas and theorems; see
"The proofs".

## The runs

Common bounds: two handler threads, one instance unless stated, two to four
operation IDs, at most one restart and one failed storage call (`MaxCrashes`,
`MaxFaults`). Two threads are enough for a race because each service has one
mutex: one thread in each service, or one waiting, is all that can happen at a
time. Three operation IDs allow provision, deprovision and a further attempt;
`lifecycleSerial` has a fourth, since the instance of the old version comes with
one. Running out of IDs stands for an error of the ID generator.

| Run | Question | Answer |
|---|---|---|
| `lifecycleEtcd` | etcd, every habit, unknown plans, a crash, a failed call | `TypeOK`; two provisionings or two deprovisionings of an instance never run together (`OneOfEachType`) although Insert is not atomic; the operations are an `OperationLog` (`LogSpec`); only a restart, a failed call or an unknown plan leaves an operation without anybody to execute it (`LeftByFailure`); after its second read nobody provisions an instance under a handler (`NotProvisionedMeanwhile`) |
| `lifecycleSerial` | etcd, two instances of one `provisionOnlyOnce` service, one of them stored by an old version, and a plan that is unknown; one request per instance at a time, but across instances they interleave | the check of Insert is exact (`OneInProgress`), the addon is provisioned once (`ProvisionedOnce`), every release is named by a stored instance so that deprovisioning reaches it (`ReleaseIsRecorded`) |
| `lifecycleOrderly` | etcd, crash and failed call, a platform without habits | what `IsProvisioned` reports is true of record and release (`ProvisionedIsDeployed`), 410 means that nothing is left (`GoneIsGone`) |
| `lifecycleFair` | in-memory driver, every habit, a crash, fairness | operations end (`OperationsEnd`), requests are answered (`RequestsEnd`) |
| `etcdOverlap` | etcd, overlapping requests | violates `OneInProgress` |
| `bindingEtcd` | etcd, two bindings, two lives of the instance, every habit but "hasty", a crash, a failed call, a plan that is not bindable | `BindingTypeOK`; one operation at a time creates a binding (`OneBindingInProgress`), although Insert is not atomic; stored credentials are those of the instance as it is (`DataOfInstance`); only a restart, a failed call or a request for what does not exist leaves a bind operation behind (`BindingLeftByFailure`) |
| `bindingFair` | in-memory driver, two bindings, "overlap" and "rebind", a crash, fairness | one bind operation per instance (`OneBindingInProgress`); bind operations end (`BindingsEnd`), requests are answered (`BindRequestsEnd`) |
| `addonsSafe` | two configurations that ask for nothing, for `a1` or for `a1` and `a2`, three edits, a crash, a failed call, stale Gets | `AddonsTypeOK`; an addon has one Ready configuration (`OneRegistrar`) and is stored with its chart (`ReadyIsStored`); a configuration that was Ready goes only when the failed ones have been told (`ReleaseReprocesses`) |
| `addonsSettle` | the same with something wrong in one load, an up-to-date cache, fairness | reconciling ends (`Settles`); without errors nothing is left behind (`NothingLeftBehind`) and the catalog is current (`CatalogCurrent`) |
| `registry` | both drivers; two configurations of a namespace and one of the cluster register, upgrade and remove addons, a chart version with a leading v, a failed call, a repository that cannot be fetched or a restart | `StorageTypeOK`; what is listed as Ready is found under both keys, in its last revision, with chart and documentation (`ListedIsServed`); the catalog, the charts and the documentation have nothing else but what a failure cut off (`OnlyListedIsServed`); an addon registered anew never leaves the catalog (`NoGap`) |
| `offer` | both drivers; addons of 22 shapes in seven repositories are loaded by two controllers, with an error or a restart anywhere, offered, and bound by two goroutines while an object changes | what is offered is what was written, and Service Catalog and Bind agree on what can be bound (`OfferedAsWritten`); Secrets and documentation are the right ones (`SecretOfConfiguration`, `DocsOfAddon`); directories are cleaned up but for four per failure (`LittleIsLeft`); credentials follow the rules (`ResolvedByPolicy`) |
| `process` | the migration with a failed call or a restart, then the controllers, the probe, users and Service Catalog, fairness | `ProcessTypeOK`; the label means migrated (`MigratedWhenLabelled`); a broker is created or deleted only for its own scope (`BrokerOfRequest`) and settles to what is needed (`BrokerFollows`) |

Bounds of `addonsSafe` and `addonsSettle`: two configurations are enough for a
conflict, and three edits for both to exist and one of them to change or go
while the other waits, or while either is being reconciled. Bounds of
`registry`: three reconciliations (`MaxJobs`) allow an addon to be registered,
upgraded and removed, and two controllers to work at a time. Of `offer`: two
loads (`MaxLoads`), one per controller at a time or one after the other, and one
failure (`MaxLoadFaults`); a restart in the middle of two loads from https
leaves four directories, so that the bound of `LittleIsLeft` is reached. Then
two releases and two bindings, two objects of two keys each, and one change
(`MaxChanges`). The constraint `CalmBindings` of the run leaves out bindings in
behaviours in which a load has failed: all that failures leave is files no
binding reads. `maxSchemaLength` is 3 in place of 64 kB, with schemas one shorter
and as long. Of `process`: two steps of users, one failure, two namespaces and
the cluster, an instance of each kind of class, an instance stored by an old
version and one that is not. Two steps are enough for an instance to become the
last need of a broker; that it then goes too takes a third one, with which the
run would take more than the five minutes it is given. The step that would
follow is the one the run has for a configuration that is the last need: an event
of a deletion, and a reconciliation that finds neither.

**Fairness.** Weak fairness of each handler's steps and of each goroutine's
steps: the Go scheduler runs every runnable goroutine, storage calls return,
and `helm.Client.Install` is bounded by a timeout. Neither the platform, nor
failures and restarts are fair. A wait for the mutex is not a step: a request
starts when it gets the mutex, and `RequestsEnd` says that whoever holds it
lets it go. In `AddonsController`: weak fairness of the worker, of the informer
and of Service Catalog, and strong fairness of taking a request off the queue,
which is served in order. Users and the creation of the broker are not fair.
In `ControllerProcess`: weak fairness of the migration and of its end after an
error (goroutines run, the pod is started again), of the reconciliation of each
configuration, of both broker controllers, of the end of a probe (it has a
timeout) and of Service Catalog (it finalizes brokers that are deleted). Users,
the broker, failures and restarts are not fair.

### What the violation shows

`etcdOverlap`: `Insert` reads the running operations and puts the new one in two
calls (`entity_operation.go:71`, `:86`). Provision and Deprovision hold
different mutexes, so a provision and a deprovision request both find no running
operation and both are stored. The storage test
(`storage/testing/operation_test.go:125`, run for both drivers) expects the
second Insert to fail. The in-memory driver does not have the race.

### Where the other properties stop

The premises of the passing runs are needed; each of these configurations has a
counterexample that the code really has. Most of them also contradict a test, a
comment or a document of the repository, which is named then.

Broker:

- That no second provisioning is started for an instance that is provisioned,
  with `"retry"`: `IsProvisioned` and `IsProvisioningInProgress` are two reads
  (`provision.go:60`, `:73`), and the goroutine of the running provisioning may
  end between them. The request that is repeated then inserts a second
  operation, where `provision_test.go:252` says that no operation ID is asked
  for. It fails at Helm; by then it has written the record anew. The window is
  that between the two reads and no wider: `NotProvisionedMeanwhile`.
- That a binding which is bound is answered with its credentials, with
  `"rebind"`: Bind starts the goroutine that renders them and reads them at once
  (`bind.go:75`, `:76`). If they were fetched before, there are none until the
  goroutine is done, and the answer is 400. The test (`osbapi_test.go:664`) puts
  credentials into the storage beforehand.
- `GoneIsGone` with `"reprovision"`: one succeeded removal decides
  `IsDeprovisioned` for ever (`operation_state.go:78`). If the same ID is
  provisioned again, Deprovision answers 410 and leaves instance and release.
- Binding a bound binding again starts the goroutine under the operation that
  has succeeded (`bind.go:75`). Credentials of another binding that nobody has
  fetched make its Insert fail, and `do` then sets the operation to failed.
- `OperationsEnd` with a plan in `Plans` but not in `Offered`: Provision
  inserts the operation (`provision.go:124`) before it looks the plan up (`:132`)
  and answers 400, so the operation stays in progress. Later provision requests
  are answered with it, deprovision requests are rejected. `LeftByFailure` names
  this return as the only one.
- `BindingsEnd` with `"stray"`: the same in Bind (`bind.go:98`, `:104`).
- Both, with etcd and a crash or a failed `UpdateStateDesc`: nobody takes the
  operation up again.
- `ProvisionedIsDeployed` with `"retry"`, by the second provisioning above; nor
  does it hold for the instances of old versions (`Legacy`), whose releases have
  other parameters than the first request that matches.
- `ReleaseIsRecorded` and `GoneIsGone` with restarts of the in-memory driver:
  records and operations are lost, releases stay.
- `ReleaseIsRecorded` with two plans, services or namespaces: a provisioning
  that fails leaves a failed release, and a second one of the same ID under
  another plan overwrites the record that named it.
- `ProvisionedOnce` with two `provisionOnlyOnce` services and `"overlap"` on
  etcd: the race of `etcdOverlap`, in which a provisioning goroutine writes back
  the instance that a deprovisioning has removed.
- `DataOfInstance` with `"hasty"`: the goroutine of
  a binding may store credentials after the removal of its instance.
- The two drivers do not check the same in the Insert of bind operations: per
  binding in etcd, per instance in memory. `OneBindingInProgress` states each.
- `ResolvedByPolicy` without `Undisturbed`: the in-memory driver hands out its
  chart, and `Render` appends to it (`renderer.go:49`), so that a binding of
  one plan may be rendered with the `bind.yaml` of another. And if an
  object changes between two reads, credentials may mix both contents.

Controllers:

- `OneRegistrar` without `"list"` in `Fresh`: configurations are listed from the
  cache (`common.go:175`). The status of the one reconciled before is not there
  yet, and both become Ready with the same addon.
  `docs/08-registration-rules.md:18` says that only the first is registered.
- `ReleaseReprocesses` for a configuration that was Failed. It keeps what it could
  load as ready in its status, which `findExistingAddon`
  (`repository_collection.go:122`) takes for registered, and another one that
  offers it fails too. When the first is deleted, `OnDelete` (`common.go:231`)
  tells nobody, and the other stays Failed.
  `docs/03-architecture-deep-dive.md:40` says that failed ones that had conflicts
  are reprocessed.
- `ReadyIsStored` after a failed call: an addon that could not be stored stays,
  as Failed, in the status of a configuration that is Ready. Another one
  registers the addon, and the deletion of the first removes it. Also, if two
  addons share a chart: removing one removes the chart of the other.
- `NothingLeftBehind` after a restart between `saveAddons` and the status, after
  a repository that could not be fetched (the status becomes Failed, the addons
  stay, and neither deletion nor the next load removes them), and without
  `"get"` in `Fresh` (the deletion of a configuration whose status Ready is not
  in the cache yet removes nothing).
- `CatalogCurrent` after a failed `Sync`: the repeated reconciliation finds
  nothing to do and does not sync.
- `UpdateConfiguration` writes the spec that was read at the start
  (`common_client.go:52`): an edit made before `addFinalizer` is lost.
- `ListedIsServed` and `NoGap` with two addons that share an ID, and with an
  upgrade that keeps the ID and changes the version: the removal of the old
  version deletes the ID under which the new one was stored
  (`entity_addon.go`, `Remove`). With two addons that share a chart,
  removing one removes the chart of the other.
- `ListedIsServed` on the in-memory driver, with a name and version that comes
  back with another ID: `Upsert` keeps the mapping to the old one.
- `OnlyListedIsServed` with `Extends` not empty: `FindAll` of the etcd driver asks
  for a prefix without a separator at its end (`entity_addon.go:142`, `:265`), so
  that the catalog of a namespace has the addons of every namespace whose name
  begins with its own.
- Conflicts between configurations are found by name and version
  (`repository_collection.go:146`), where `docs/08-registration-rules.md:18` speaks
  of IDs: two configurations register two addons with one ID, which overwrite
  each other.
- `ListedIsServed` has the chart found, on etcd, if its version is written as
  `String` prints it: the key of a chart has `Original()` of its version
  (`entity_chart.go:145`), and a `ChartRef` that was in etcd that of `String()`
  (`model.go:103`). A chart whose version is written `v1.0.0` is not found when
  its addon is provisioned or removed, and stays.
- `ListedIsServed` and `OnlyListedIsServed` leave out `spoiled` addons: what was
  put or left under one key when the call for the other failed stays, as does
  what a configuration had that could not fetch a repository later, and nobody
  removes it until it is registered again. So `Remove` deletes two keys
  (`entity_addon.go:165`, `:175`); if the second call fails, the repeated deletion
  does not find the addon by the first key, takes it for removed, and drops the
  finalizer: the broker offers the addon for ever, where
  `docs/03-architecture-deep-dive.md:39` has it removed.
- `OfferedAsWritten` says that the offer and Bind agree on what can be bound, and
  not that it is what `meta.yaml` says. A plan without `bindable` has the flag of
  its addon (`bind.go:305`), where `docs/04-create-addons.md:78` says that it is
  `false`. A plan with `bindable: false` has no flag once it was in etcd
  (`entity_addon.go:325`; gob sends no zero values) and can be bound if its addon
  can, where the comment at `bind.go:304` says that the plan overrides. Likewise
  `free` is lost in etcd. Plans with one ID collapse to one without an error
  (`form.go:152`).
- `SecretOfConfiguration` for a configuration of the cluster whose secretRef
  names no namespace: it gets the one the other controller has set last.
- `DocsOfAddon` with an addon of the same name and version in both
  controllers: they write and remove one archive.
- `LittleIsLeft` allows for failures: a clone or an unpacking that fails leaves
  its directory, an archive that could not be written stays
  (`generic_dir_getter.go:115`), and a restart leaves the directories of both
  getters and of both addons being loaded. The directory is an `emptyDir` with a
  limit.
- `MigratedWhenLabelled` leaves out instances the broker has written
  meanwhile: `Upsert` (`migration.go:135`) writes back what `GetAll` has read,
  so that an instance removed in between is there again. A configuration or an
  instance that cannot be migrated ends the process on every start.
- The liveness probe accepts the status of a configuration that was there
  before (`health/controller.go:87`), so that a controller that has stopped
  after an earlier probe may look alive.
- `BrokerFollows` is about what the broker controllers see last; an instance may
  get its class between the List and the Delete of a broker, which Service
  Catalog then removes under it and the controller creates again.
- A version that is not a semantic one in an index panics
  (`repository_entry.go:27`).

Docs that say something else than the code, with no state involved:
`docs/05-bind-addons.md:7` (`bind.yaml` is required only if
the plan itself has the flag), `form.go:95` (a message `at most one` for a check
`!= 1`).

## The proofs

Eight modules hold theorems, for every value of the constants: every number of
threads, instances, configurations, addons, requests, restarts and failed calls,
and both drivers. Where a theorem needs more than that, the table says what, and
"Where the other properties stop" above says what happens without it.

Assumptions on constants are the shapes of the constants (`ConstantsAssumption`,
`LoadingAssumption`, `ResolverAssumption`, `OfferAssumption`,
`StorageAssumption`, `ProcessAssumption`, ...), that the set of directories of plans is finite
(`FormAssumption`), and that `Nil` is none of the values it stands beside
(`NilAssumption`). TLC evaluates each of them in the runs.

### InstanceLifecycle_proofs

| Theorem | Statement |
|---|---|
| `Invariance` | `Spec => []IInv` |
| `TypeCorrect` | `Spec => []TypeOK` |
| `OneOfEachTypeAlways` | `Spec => []OneOfEachType` |
| `OneInProgressWhenSerialised` | with the in-memory driver, or without `"overlap"`, `Spec => []OneInProgress` |
| `Refinement` | `Spec => LogSpec` |
| `LeftByFailureOnly` | `Spec => LeftByFailure` |

`OneOfEachType` is not inductive: nothing in it says why a put is still allowed
after its check. `IInv` adds that

- a handler that serves a request holds the mutex of its service
  (`HandlerHoldsMutex`), so no second handler of its type exists;
- a handler that has an operation ID is its only owner (`OneOwner`), and the ID
  is unused until the put and in progress between the put and the start of the
  goroutine (`HandlerOwnsID`);
- a goroutine works on an operation that is in progress
  (`WorkerRunsOperation`), so closing it is a `Close` of the log;
- **what Insert has checked is still true at its put** (`CheckStillHolds`): no
  other handler of the same type can have put an operation since, because of
  the mutex; and none of the other type, if requests about one instance do not
  overlap (`OneRequestPerInstance`).

The proof has one lemma per action. The refinement follows action by action:
the puts map to `Open` by `CheckStillHolds`, `UpdateStateDesc` to `Close` by
`WorkerRunsOperation`, `Crash` to `Lose` or a stutter, everything else to a
stutter. `LeftByFailureOnly` goes through the actions once more: of those that
take an operation out of the hands of a handler or goroutine, each hands it on,
closes it, counts a failure, or is `RejectPlan`.

### InstanceRecords_proofs

What `IInv` does not talk about: records and releases. All actions are first
sorted into eight kinds of change (`Step`: a handler returns, enters, passes on,
saves a record or opens an operation, a goroutine works or ends, a restart);
`StepCases` reduces `Next` to them, and every further proof is by kinds.

| Theorem | Statement | If |
|---|---|---|
| `Records_ProvisionedOnce` | `[]ProvisionedOnce` | `Serialised`: in-memory driver, or requests about one instance do not overlap |
| `Records_ReleaseIsRecorded` | `[]ReleaseIsRecorded` | `Serialised`; `Durable`: etcd, or no restarts; an instance is always asked for with the service, plan and namespace `asks[i]` |
| `Records_NotProvisionedMeanwhile` | `NotProvisionedMeanwhile` | |
| `Records_ProvisionedIsDeployed` | `[]ProvisionedIsDeployed` | no `"retry"`; no records of old versions (`Legacy = {}`) |
| `Records_GoneIsGone` | `GoneIsGone` | no `"overlap"`, no `"reprovision"`; `Durable`; asked for alike |

`asks` in `AsAsked` and `KeptAsAsked` is any function, the same for a whole
behaviour: requests with a plan the addon does not have are excepted, for
they are refused before a record is written. With one service, namespace and offered
plan, as in `LifecycleSerial`, every behaviour satisfies it. `Legacy = {}` is
needed because a record of an old version gets the parameters of the first
request that matches its hash, and its release keeps those it was installed with.

The invariants behind them:

- `HashInv` and `OnceInv`: an instance whose record has a hash is provisioned and
  only a handler on its way to replace the hash has to do with it; what
  `IsProvisioningAllowed` has found is true until the record is written
  (`StillAllowed`), which needs that a goroutine writes back only a record that
  is there, for the same service and namespace (`RecordStands`).
- `ReleaseInv(asks)`: records, handlers and goroutines all name the release
  `asks[i]`, the record is there while a goroutine installs, and the release is
  not when it forgets the record.
- `NothingOpenSince`: from the second read of a handler to its put no provisioning
  of the instance is in progress, whatever the platform does, so none can end.
- `AgainInv`, without `"retry"`: a handler that found its instance not provisioned is still right at
  the put, because nothing that could complete is in progress (`NothingOpen`,
  `OpenIsFirst`).
- `DeployedInv`: what a goroutine has done so far stands, as long as no removal is
  asked for: `OneOfEachType` leaves nobody else who writes there.
- `GoneInv`: once a removal is asked for nobody provisions (`RemovalIsLast`), so a
  record that is gone stays gone.

### Binding_proofs

| Theorem | Statement | If |
|---|---|---|
| `Bindings_TypeOK` | `[]BindingTypeOK` | |
| `Bindings_OneInProgress` | `[]OneBindingInProgress` | |
| `Bindings_DataOfInstance` | `[]DataOfInstance` | `Patient`: an instance is not removed while something is done for its bindings |
| `Bindings_LeftByFailure` | `BindingLeftByFailure` | |

`BindInv` has that a handler in `Bind` holds the mutex, that the check of
`Insert` still holds at the put, and under `Patient` that whatever is rendered,
held or returned is of the instance as it is now (`LifeInv`).

### AddonsController_proofs

| Theorem | Statement | If |
|---|---|---|
| `Addons_TypeOK` | `[]AddonsTypeOK` | |
| `Addons_OneRegistrar` | `[]OneRegistrar` | `"list" \in Fresh`: the cache is up to date when configurations are listed |
| `Addons_ReadyIsStored` | `[]ReadyIsStored` | the same; `OwnCharts`: no two addons have a chart in common |
| `Addons_ReleaseReprocesses` | `ReleaseReprocesses` | `"list" \in Fresh` |

`AddonsInv` follows the one worker through its steps: the finalizer keeps its
configuration from being replaced by another of the name (`FinalizerInv`), the
verdict Ready it has not yet written is disjoint from what other Ready
configurations have (`RegisterInv`), and what it removes is nobody's
(`RemovalInv`).

### AddonsSettled_proofs

| Theorem | Statement | If |
|---|---|---|
| `Addons_CatalogCurrent` | `[]CatalogCurrent` | |
| `Addons_NothingLeftBehind` | `[]NothingLeftBehind` | `"get"`, `"list" \in Fresh`: the cache is up to date when a configuration is read and when the others are listed |

Both properties say something of states in which nothing is left to do, so their
invariants say what is left to do in all others.

- `ToldInv`: as long as no call has failed and there was no restart, the catalog
  is what is stored, or the worker has counted a change and is on its way to
  `Sync` (`CatalogInv`). It gets there because a configuration with a finalizer
  is in the cache, in some version, so that the write of the status cannot end
  the reconciliation with NotFound (`PresentInv`); this is where a late cache
  might have mattered, and does not.
- `SettledInv`: a Ready configuration is never taken for a new one, and one that
  is being deleted is in the queue, has an event to come, or is in the worker's
  hands (`ConfsInv`); the status the worker has read is still the one that is
  there, as far as it is Ready, and `OnDelete` still has to remove all that is
  stored of it (`LastInv`); and what is stored is offered by a Ready
  configuration, or the worker is going to write the status that offers it or to
  remove it (`OwnedInv`). A repository that could not be fetched, a failed call
  or a restart breaks the last of these, as described above.

### AddonStorage_proofs

| Theorem | Statement | If |
|---|---|---|
| `Storage_TypeOK` | `[]StorageTypeOK` | |
| `Storage_ListedIsServed` | `[]ListedIsServed` | `OwnKeys`: an ID has one name and version, and the other way round, and no two addons share a chart |
| `Storage_OnlyListedIsServed` | `[]OnlyListedIsServed` | `OwnKeys`; `Extends = {}`: no namespace's name begins with another's |
| `Storage_NoGap` | `NoGap` | `OwnKeys` |

`StorageInv` says how far the calls about the addon in hand have come in each of
the two key spaces, the charts and the documentation (`Saved`, `Removed`), and
that every other addon that is not spoiled is wholly there or wholly absent
(`ScopeInv`). What nobody else has, and what is removed only for a configuration
that goes, is in `StatusInv`, `SavingInv` and `RemovingInv`.

### AddonOffer_proofs

| Theorem | Statement |
|---|---|
| `Offer_SecretOfConfiguration` | `[]SecretOfConfiguration` |
| `Offer_DocsOfAddon` | `[]DocsOfAddon` |
| `Offer_LittleIsLeft` | `[]LittleIsLeft` |
| `Offer_OfferedAsWritten` | `[]OfferedAsWritten` |
| `Offer_ResolvedByPolicy` | `[]ResolvedByPolicy` |

`OfferInv` has the namespace the shared Template service holds while the
controller for namespaces works (`NamespaceInv`), the archive of each upload
(`ArchiveInv`), a directory for each open repository and one for an addon that is
unpacked, beside four for each failure (`TmpInv`), an owner for every archive as
long as nothing has failed (`TgzInv`), and of what is served the directory it
was loaded from. From that, `OfferedAsWritten` is a
lemma about the operators of `AddonForm` alone: what the loader, the model, the
encoding and the catalog do to any directory of an addon.

`ResolvedByPolicy` compares steps that go through two lists with rules about the
whole of them, and is proved without an induction over the lists: `Midway` says
what has been read of the first p sources and the first q variables, in the
words of the rules (`SourcesRead`, `VariablesRead`), each step takes p or q to
the next entry (`SourceRead`, `VariableRead`, `VariablePassed`), and at the end
of both lists it is the rules (`AllRead`). Whose `bind.yaml` a goroutine has read
is not known before it is over: `ResolverInv` says that it follows the rules for
some `bind.yaml` that was added to its chart, which is its own if no other was.

### ControllerProcess_proofs

| Theorem | Statement |
|---|---|
| `Process_TypeOK` | `[]ProcessTypeOK` |
| `Process_MigratedWhenLabelled` | `[]MigratedWhenLabelled` |
| `Process_BrokerOfRequest` | `BrokerOfRequest` |

`MigrationInv`: what is in the old form is still on the list of the goroutine, or
the goroutine has not read its list; no label before both have ended.
`BrokersInv`: a job in hand and the facade of its controller have the same
namespace.

### Only model-checked

Liveness (`OperationsEnd`, `RequestsEnd`, `BindingsEnd`, `BindRequestsEnd`,
`Settles`, `BrokerFollows`) needs fairness and is out of the prover's reach.
Every other property of the passing runs is stated by a theorem. Where a theorem needs a
condition and a run does not have it, the run is all there is.

## Plan

1. Done: all modules and runs, and the theorems above, which state every
   invariant and every action property of the passing runs, and the refinement of
   `OperationLog`.
2. Perhaps: `AddonsController` as a refinement of a specification of who
   registers what, with `AddonStorage` below it.

## Not modelled

The webhook, which replaces a deprecated image of a pod, the health of the broker, which asks
etcd, the readiness probes, and the command line tools, which convert files to
files, keep no state. Of the OSB server, decoding, routing and encoding are left
out, of charts the Go templates, JSON paths and the merging of values: they are
data that no property tells apart. `RemoveByID`, `RemoveAll`, `UpdateState` and
the Insert of instances are called by tests only. The in-memory driver hands out
pointers to its operations, so that a state may be read while it is written; a
read of the old or of the new state is in the model, a torn read of a Go string
is not. Deployment runs one broker (`replicas: 1`, strategy `Recreate`), so two
brokers on one storage are not modelled.
