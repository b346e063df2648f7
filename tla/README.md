# A TLA+ model of clusterbook-operator

clusterbook-operator runs four controllers in one manager process. Each turns a
custom resource into an IP reserved at a *clusterbook* server and into the
Kubernetes objects that use it. The code is short; what makes it hard is what
it stands between: an API server it reads through stale caches and writes with
optimistic concurrency, and a remote pool of addresses whose requests are
neither conditional nor idempotent.

This directory holds a model of that code, the TLC runs that check it on small
instances, and proofs that hold for every instance. Paths are relative to the
root of the repository; line numbers are those of the commit modelled.

* [The system](#the-system)
* [What the modules model](#what-the-modules-model)
* [The runs](#the-runs)
* [Where the code and its documents disagree](#where-the-code-and-its-documents-disagree)
* [The proofs](#the-proofs)
* [What is not modelled](#what-is-not-modelled)
* [The plan](#the-plan)

## The system

| part | state it keeps | operations | what makes it correct |
|---|---|---|---|
| `ClusterbookCluster` reconciler, `controller/reconciler.go` | finalizer and status of the CR; the Secret `cluster-<name>` (render mode) or metadata on a Secret of somebody else (enrich mode) | `Reconcile`, `finalize`, `ensureReservation`, `reconcileDNSDrift`, `loadKubeconfig`, `upsertArgoSecret`, `enrichExistingSecret`, `stripEnrichedMetadata`, `clustersForSecret` | published addresses are held, no address serves two clusters, a retry reserves nothing new, deletion gives back what was taken, a rotated kubeconfig is followed |
| clusterbook server, used through `pkg/client/client.go` | for each IP the cluster it is assigned to and whether it has a DNS record | `GetIPs`, `ReserveIPs`, `UpdateIP`, `ReleaseIPs`, `GetClusterInfo` | external; `ReserveIPs` always takes new addresses, `ReleaseIPs` names an address and no cluster |
| readiness probe, `controller/readiness.go` | none | `probeReadyz` | latched by the reconciler in `status.clusterReady` and in the label `cluster-ready` |
| owned metadata, `controller/owned_metadata.go` | a record on each Secret of the keys the operator wrote last | `applyOwned`, `recordOwned` | a key no longer wanted goes away, a key of somebody else stays |
| `ClusterbookLoadBalancer` reconciler | finalizer, status, an annotation with the Service's previous `loadBalancerIP`; a Cilium pool or a Service | `Reconcile`, `finalize`, `patchServiceLBIP`, `restoreServiceLBIP`, `upsertCiliumPool` | the Service gets back the value it had before the operator touched it |
| `ClusterbookAllocation` reconciler | finalizer, status; a ConfigMap and/or keys on the cluster Secret | `Reconcile`, `finalize`, publication on the Secret | its keys go away with it and nobody else's do |
| `Vcluster` reconciler | finalizer, status; an Argo CD Application, the rewritten kubeconfig Secret, a child `ClusterbookCluster` | `Reconcile`, `finalize`, the kubeconfig rewrite, `upsertChildCluster` | the child is registered once the kubeconfig is there, and goes with the parent |
| API types, `api/v1alpha1/` | the CRDs | validation rules | no CR is admitted that the reconciler cannot serve |
| manager, `cmd/main.go` | caches, queues | start, restart | one worker per controller, no leader election |

How they interact: the reconcilers share the clusterbook pool (reservations are
found again by name in the listing), the cluster Secret (rendered by one,
decorated by others) and the API server. `Vcluster` drives `ClusterbookCluster`
through a child CR and a kubeconfig Secret, and that Secret's watch wakes the
child's reconciler.

What is hard here, in the order of how much it matters:

1. *Between two calls anything may happen.* `Reconcile` makes up to ten calls.
   The CR it works from was read at the start, out of a cache; users, the
   garbage collector and other managers move on meanwhile.
2. *Failure half way.* Each call may fail, may succeed without the caller
   learning of it, or may be the last before a crash. Some errors are returned
   and retried, some are only logged: `GetClusterInfo`, the deletion of the
   Secret, the status update.
3. *Stale reads.* `status.ip` is trusted from the cache, `CreateOrUpdate` works
   on a cached Secret, `AlreadyExists` counts as success.
4. *Undoing.* `finalize` undoes what the present spec and status name, not what
   was done.
5. *Eventually.* A rotated kubeconfig must arrive without anybody touching the
   CR; a CR in deletion must go.

`PROJECT.json` lists the hazards one by one, at the line where each bites, with
the properties that would catch it.

## What the modules model

| module | content |
|---|---|
| `Reservation` | abstract: what every controller promises of the clusterbook pool |
| `Registration` | abstract: what the `ClusterbookCluster` controller promises to somebody who emits such a CR |
| `ClusterReconciler` | the `ClusterbookCluster` controller, its managers, the API server and the clusterbook server, with faults |
| `ClusterClaims` | statements of the documents about it that the code does not keep |
| `Controller` | what the other three controllers have in common: worker, caches, API server, the way from the finalizer through the reservation to the status and back, faults, users |
| `LoadBalancerReconciler` | the `ClusterbookLoadBalancer` controller over `Controller` |
| `OwnedMetadata` | `applyOwned` and its record, with keys as data |
| `AllocationReconciler` | the `ClusterbookAllocation` controller over `Controller`, and on the same Secret a `ClusterbookCluster` in enrich mode over `OwnedMetadata` |
| `VclusterReconciler` | the `Vcluster` controller over `Controller`, composed with `Registration` |
| `MCCluster`, `MCLoadBalancer`, `MCAllocation`, `MCVcluster` | the specs that the instances choose from |
| `ReservationProofs` | theorems about the abstract reservation |
| `ClusterReconcilerProofs`, `ClusterReservationProofs`, `ClusterLifecycleProofs` | theorems about the `ClusterbookCluster` controller: types and coherence, addresses, finalizer and Secrets |
| `ControllerProofs` | lemmas that the next three share: the life of a CR and its reservation over `Controller` |
| `LoadBalancerProofs`, `AllocationProofs`, `VclusterProofs` | theorems about the other three controllers |

How they hang together:

```
          Reservation  <--implements--  ClusterReconciler  --implements-->  Registration
               ^                                                                 |
               | implements                                                      | stands in for the
               |                                                                 v other controller
   LoadBalancerReconciler, AllocationReconciler, VclusterReconciler  <-----------+
               \____________________ extend Controller ____________/
```

### State

`ClusterReconciler` (tables by kind and name, one column per manager):

| variable | code |
|---|---|
| `api[kind][c]` | objects in the API server: the CR `"cr"`, the rendered Secret `"argo"`, the Secret of `existingSecretRef` `"foreign"`, the Secret of `kubeconfigSecretRef` `"source"` |
| `view[m]`, `synced[m]` | the informer caches of manager `m`, and whether a cached copy is the current version |
| `queue[m]` | the work queue |
| `pc[m]`, `key[m]`, `obj[m]`, `loc[m]` | where the worker is in `Reconcile`/`finalize`, its request, its copy of the CR, its local variables |
| `fresh[m]` | the worker's copy still carries the current `resourceVersion` |
| `holder`, `dns` | assignments and DNS records at the clusterbook server |
| `births`, `edits`, `faults` | what the bounds count; `births[c]` is also the uid of the CR |

`Controller` has the same variables for one manager. Its objects are found by
name in one table: the CRs (`Names`), other objects read through the cache
(`Cached`: Services; the cluster Secret and the ConfigMaps; the child and the
kubeconfig Secret) and objects an unstructured or a remote client reads from
the API server itself (`Live`: Cilium pools; Applications and the kubeconfig on
the host). `fresh` is the set of objects of which the worker has the current
version, because the load balancer holds two at a time. `AllocationReconciler`
adds `reg` and `due`, the other controller's CR and whether it is queued;
`VclusterReconciler` adds `ext`, the server URL of every revision of the
kubeconfig Secret, and `argo`, the revision that ArgoCD's cluster Secret shows.

### Steps

Each call that `Reconcile` or `finalize` makes to the API server or to
clusterbook is one action, so every other process may step in between:

```
ClusterbookCluster
  Start - AddFinalizer - EnsureReservation [- Reserve] - CheckDrift [- UpdateIP] - GetClusterInfo
    render   LoadKubeconfig (and the probe) - UpsertArgoSecret - UpdateStatus
    enrich   EnrichExistingSecret - UpdateStatus
  finalize   DeleteArgoSecret | StripEnrichedMetadata - ReleaseIP - RemoveFinalizer

ClusterbookLoadBalancer
  Start - AddFinalizer - EnsureReservation [- ReserveIPs] - GetClusterInfo
    pool     UpsertCiliumPool - UpdateStatus
    service  CaptureService - PatchService - UpdateStatus
  finalize   RestoreService | DeletePool - ReleaseIP - RemoveFinalizer

ClusterbookAllocation
  Start - AddFinalizer - EnsureReservation [- ReserveIPs] - CheckDrift [- UpdateIP] - GetClusterInfo
    [- UpsertConfigMapSink] [- EnrichClusterSecret] - UpdateStatus
  finalize   DeleteConfigMap [- StripClusterSecret] - ReleaseIP - RemoveFinalizer

Vcluster
  Start - AddFinalizer - EnsureReservation [- ReserveIPs - GetClusterInfo] - UpsertApplication
    - ReadUpstream - WriteExternal [- UpsertChild] - UpdateStatus
  finalize   DeleteChildCluster - DeleteApplication - ReleaseIP - RemoveFinalizer
```

A cached read and the write that depends on it are one step. This loses
nothing: the write carries the `resourceVersion` of the read, so a change that
falls between the two is the same as a read of a copy already out of date,
which `synced` and `fresh` allow at any time. The exception is
`patchServiceLBIP`: there the update of the CR falls between the read of the
Service and its update, so `CaptureService` and `PatchService` are two steps
and the worker carries the version it read.

Around the controllers:

* `Deliver` brings one informer up to date and queues what the watches of
  `SetupWithManager` queue. A load balancer is woken by its CR alone, an
  allocation also by its ConfigMap, a Vcluster by its child and its kubeconfig
  Secret, a `ClusterbookCluster` by every Secret it refers to. In
  `ClusterReconciler`, `Resync` queues everything.
* `FailedCall`, `LostReply` (the server acted, the answer is gone), the errors
  that the code drops (`IgnoredError`, `PoolStays`, `ConfigMapStays`) and
  `Crash` are the faults.
* Users create, edit and delete CRs, rotate kubeconfigs, delete and change what
  the controllers published and what they point at; the garbage collector
  deletes what is owned by a CR that is gone, by uid.

### The composition of Vcluster and ClusterbookCluster

The two whole models together are out of TLC's reach. `Registration` cuts
between them at what they share: the child CR, the revisions of the kubeconfig
Secret, and ArgoCD's cluster Secret.

* Safety: `ClusterReconciler` implements `Registration` (run `cluster_render`,
  for one manager): a rendered Secret is written only with a finalizer in place,
  from a revision there has been, and never goes back to an older one.
  `VclusterReconciler` takes every step that `Registration` allows the other
  controller, and what it does itself, with users and the garbage collector, is
  what `Registration` allows the user of a child (`UsesRegistration`, run
  `vcluster`): a child with a finalizer is only marked for deletion, revisions
  only grow. Both halves are also proved (`RefinesRegistration`,
  `RegistersByContract`).
* Progress: `VclusterReconciler` assumes of the other controller that a kept
  child is rendered from the latest revision and that a deleted one goes and
  takes the Secret with it. These are `RenderFollows` and `DeletionCompletes`
  of `ClusterReconciler` (runs `cluster_follow`, `cluster_drift`), which hold
  under fairness of that controller alone.

### Owner references

`SetControllerReference` refuses an object whose controller is of another group,
kind or name. It does not compare uids: a CR that is created again adopts what
the CR before it owned, and `CreateOrUpdate` sends the new owner reference as an
update, which conflicts on a stale copy like any other. The garbage collector
goes by uid, so what is adopted in time stays and what is not goes. The upserts
of Secrets, pools, ConfigMaps, Applications and children are modelled so. One of
them, `upsertArgoSecret`, sends an update whatever it finds, because it fills
`StringData`, which no Secret that is read back has. Pools and Applications are
read from the API server itself; that one of them changes between that read and
the update is a failed call.

### Abstractions

* `resourceVersion` is two flags. A write clears them for everybody who holds
  an older version; a write that changes nothing keeps the version, as the API
  server does. The theorem `CachesCoherent` shows for `ClusterReconciler` that
  the flags mean what they stand for; `Controller` works the same way.
* A kubeconfig is its revision number and so is its hash; 0 is a Secret that is
  missing or does not parse. In `VclusterReconciler` a revision is known by its
  server URL, which `rewriteKubeconfigServer` puts in; the rest of the
  kubeconfig stays the same while the vcluster is installed.
* Labels and annotations are the facts they publish: address, range, what
  `GetClusterInfo` said, readiness. In `ClusterReconciler`, with one CR to a
  Secret, `applyOwned` replaces the facts published before. In
  `AllocationReconciler` keys are data: a pair of an owner and a fact, labels
  and annotations in one map, the ownership record a set of keys. A key of
  `spec.annotations` is the only kind without the clusterbook prefix.
* A Service is its `loadBalancerIP`; a pool is its address and whether it shows
  a FQDN; an Application is the address and whether the FQDN is among the SANs.
* A CR is named by its reservation key (`spec.clusterName`, `spec.name`), and
  there is one network pool.
* A reserved range is a set of addresses. That it is contiguous is the server's
  business.
* `UpdateIP` only moves the DNS flag, as the fake server of
  `controller/suite_test.go` does; the flag of a free address stays off.
* A provider config that cannot be loaded returns an error before anything has
  changed: the name goes back into the queue and the state is the one before
  `Start`.
* `Mangles` chooses the server of `ClusterReconciler`: whether its listing
  reports a reservation with DNS under the name `DNS`, which
  `ensureReservation` is written to survive. `Controller` has the server that
  does not.
* A release that the server refuses is a `FailedCall`; there are only
  `MaxFaults` of those, so the server accepts it in the end.

### Fairness

All `FairSpec`s assume that a worker makes its next call (`WF` of `Reconcile`),
that a queued name is taken again and again (`SF` of `Start`: the queue of
controller-runtime is first in, first out, and a worker that is busy with other
names only disables the step for a while), that watches deliver (`WF` of
`Deliver`) and, where it matters, that the garbage collector runs. Nothing is
assumed of users, of faults or of the resync: what holds only because every
object is queued again after ten hours would not be found to hold.

Two assumptions more: in `AllocationReconciler` the other controller, which is
one step there, is strongly fair, because a conflict on the Secret leaves it
queued with backoff and the cache catches up between the finitely many writes
of others; in `VclusterReconciler` ArgoCD installs what an Application asks for
(`WF` of `Install`), and the other controller makes the progress said above.
ArgoCD uninstalls nothing: it does so only for an Application with its
finalizer, which `upsertApplication` does not set.

## The runs

`tlc -config <run>.cfg <module>`, the module being `MCCluster`,
`MCLoadBalancer`, `MCAllocation` or `MCVcluster`. Deadlock is not checked: once
users have stopped and the queues are empty the system has nothing left to do.

| run | instance (distinct states) | shows |
|---|---|---|
| `cluster_reservation` | two CRs, three addresses, a spec with a reserved range of one, one edit, one fault (1.3 M) | `TypeOK`; `PublishedIsHeld`: an address in a status or on a Secret is assigned to that cluster; `Exclusive`: no two clusters in service share an address, ranges included; `ReservesOnlyOnce`: who holds an address is given no other; `ImplementsReservation` |
| `cluster_render` | two kubeconfig revisions, one edit or lost Secret, one fault (2.2 M) | `StatusLatches`: a reconcile that worked from an older copy takes back neither readiness nor the IP; `RenderNeverRegresses`: the rendered Secret never goes back to an older kubeconfig; `ReleasedBeforeGone`: the CR is not gone before the address in its status is given back; `ImplementsRegistration` |
| `cluster_enrich` | two lives of a CR that flips between reserving and registration-only, two changes by others, one fault (175 k) | `EnrichReversed`: once the CR is gone the foreign Secret carries nothing of it; `StatusLatches`, whose IP only the registration-only path may clear; `ImplementsReservation` with release on delete |
| `cluster_follow` | two revisions, one fault, fairness (67 k) | `RenderFollows`: a rebuilt cluster's kubeconfig reaches the rendered Secret (issue #109) |
| `cluster_drift` | one edit, one fault, a mangled listing, fairness (144 k) | `DNSFollows`: the DNS state ends up as the spec says; `DeletionCompletes`: a deleted CR goes |
| `loadbalancer` | a Service and a pool, two lives, one edit, one fault, fairness (169 k) | `TypeOK`; `CapturesOriginal`: the value kept for the restore is never the operator's own; `ServicePinned`: a Service that a CR names gets its address, also when it comes after the CR; `DeletionCompletes`, also without the Service; `ImplementsReservation` |
| `allocation` | both sinks, a `ClusterbookCluster` on the same Secret, one edit, one fault, fairness (466 k) | `TypeOK`; `AllocationReversed`: its keys go with it; `LabelledIsHeld`: an address on the Secret is assigned to the allocation that shows it; `ConfigMapFollows`, `DNSFollows`; `RegistrationHeals`: the other's keys come back; `ImplementsReservation` |
| `vcluster` | two lives, one edit, loss or fault, fairness (463 k) | `TypeOK`; `ArgoCDFollows`: ArgoCD ends up with the URL of the current kubeconfig Secret and a certificate that covers it; `TornDown`: a deleted Vcluster goes with its child, its kubeconfig Secret, its Application and the cluster Secret ArgoCD has of it; `ImplementsReservation`; `UsesRegistration`: children and kubeconfigs are treated as the other controller may expect |

### Reservation

Four controllers carry four copies of `ensureReservation` and of the release in
`finalize`. `Reservation` says once what they are for: a name that holds
addresses is not given more, a resource in service comes to show only an
address it holds, and no address is taken from a resource in service. Under
the mapping "shown is `status.ip` of a CR that is not being deleted" every
controller is checked to implement it, and proved to. That is so for CRs with
different keys, and with release on delete only where one CR has the pool to
itself: with two CRs `finalize` breaks it, see `claim_rerelease`.

### Bounds

* Two clusters and three addresses make a pool that can run dry: one cluster
  with a range takes two, so two of them compete for the last address. The
  other controllers have one CR and one address, which others may hold, so that
  the pool may be exhausted from the start.
* One fault may be any failed call, lost reply, dropped error or crash, at any
  step.
* One manager suffices for stale copies: its own writes make its caches stale
  until they are delivered. Several managers are in the theorems.
* Two revisions are the least with an older one; one edit switches the spec in
  the middle of a reconcile, two let the owner of a foreign Secret delete it
  and create it again.
* Two lives show what an earlier CR of the same name leaves behind: a pool, an
  Application, a kubeconfig Secret or a child with the owner reference of
  another uid, which the next upsert takes over, and a cache that still shows
  them.
* `vcluster` has four revisions of the kubeconfig Secret and one disturbance,
  be it an edit, a loss, a fault or a second life. With an edit and a fault
  `ArgoCDFollows` would fail in its last conjunct, which is why that one asks
  for no fault; see below.
* `PublishedIsHeld` and `Exclusive` are checked where no CR asks for release on
  delete. `EnrichReversed` is checked for one manager and for specs that stay
  in enrich mode, `AllocationReversed` for sinks that stay in the spec,
  `CapturesOriginal` and `ServicePinned` for the first life of a CR and a
  target that stays. What happens otherwise is said below.

Symmetry is used only in a run without liveness, over clusters and addresses,
which the specification does not tell apart.

Each property has a mutant, an operator marked *Mistake* next to the definition
it stands in for: a status, a finalizer or a Secret written without
`resourceVersion`, a listing matched by anything or nothing, a kubeconfig kept
to the revision in the status, work begun before the finalizer is there, a
conflict ignored while stripping, a watch left out (the code before issue
#109), an error logged and not returned, a missing Service taken for an error,
the Service's value captured every time, no owner reference, a drift check on
new reservations only, a child's finalizer stripped with the child. TLC finds every
one.

## Where the code and its documents disagree

Each run is an instance as small as the disagreement allows and ends in a
counterexample; the text quoted is in `PROJECT.json`.

| run | what is said | what the code does |
|---|---|---|
| `claim_leak` | `releaseOnDelete` releases the IP when the CR is deleted | A deletion during the first reconcile makes the status update conflict, which is only logged. `finalize` finds no `status.ip` and releases nothing. |
| `claim_rerelease` | different CRs get distinct IPs | `finalize` runs again after a conflict and releases an address that was assigned to another CR in between; the next reservation hands it out once more. |
| `claim_restore` | deletion restores the `loadBalancerIP` that the Service had before the operator patched it | A CR that is deleted before its first capture has no annotation. `finalize` reads that as the empty string and clears what the user had set. |
| `claim_coexist` | allocations and a registration coexist on one Secret without overwriting each other | The finalizer of an allocation strips every key with the clusterbook prefix, whoever owns it, and the ownership record. |

Others were met while modelling and have no run of their own:

* *Reserved range.* If the first reconcile fails after `Reserve`, the next one
  finds the IP in the listing and returns without a range
  (`reconciler.go:710`); the range stays assigned and unknown, where
  `docs/usage.md:177` says that it is recorded.
* *Mangled listing.* A reconcile whose cache does not show the status yet falls
  to the listing, which reports a reservation with DNS as `DNS`, and reserves
  again, where `docs/install.md:120` says that repeated reconciles return the
  stored value.
* *Replicas.* `docs/configuration.md:155` advises leader election for more than
  one replica, and line 166 deploys two; `cmd/main.go:34` has none and no flag
  for it. Two managers both find the listing empty and both reserve, where the
  comment at `reconciler.go:681` says that the listing recovers a reservation
  "before risking a duplicate Reserve call". `ReservesOnlyOnce` fails with two
  managers and one CR.
* *Uninstalling a vcluster.* The comment at `vcluster_reconciler.go:231` says
  that deleting the Application "lets ArgoCD cascade-delete the vcluster Helm
  release". ArgoCD cascades for its finalizer, which `upsertApplication` does
  not set and a test expects to be absent (`vcluster_reconciler_test.go:417`).
  The Application goes at once and the vcluster runs on, with `releaseOnDelete`
  on an address that may be given to somebody else. `TornDown` therefore speaks
  of the objects on the management cluster only.
* *Ready label.* `types.go:212` says that it is never removed. After a lost
  status update the next probe may fail, and the upsert takes the label off.
* *Hash.* `types.go:190` says that `kubeconfigHash` is that of the rendered
  kubeconfig. A create that meets an existing Secret is taken for success, and
  the hash is of a kubeconfig that was not written.
* *Validation.* Rule 4 (`types.go:11`) is meant to guarantee
  `preserveKubeconfigServer` wherever nothing is reserved (`types.go:28`), but
  asks for it only without `networkKey`. With `skipReservation` and
  `networkKey` the rendered server is `https://:6443`.
* *Switch of mode.* `finalize` goes by the spec at deletion. After a switch from
  `existingSecretRef` to `kubeconfigSecretRef` the metadata stays on the
  foreign Secret, where `docs/usage.md:264` says that it is removed; a sink
  taken out of an allocation leaves its keys, a changed `serviceRef` leaves the
  first Service pinned and gives the second the value of the first.
* *Best effort.* `docs/index.md:55` calls the release on delete best effort, and
  so does the comment at `vcluster_reconciler.go:234`. Its error is returned
  before the finalizer is removed, so a server that keeps refusing keeps the CR.
* *A load balancer's second life.* A CR created again while the cache still
  shows the Service as the first one pinned it captures the operator's own
  address; a `finalize` whose cache shows the Service before the pin skips the
  restore.
* *A Vcluster's server URL.* When `GetClusterInfo` fails the URL falls back to
  the service name. The change of the Secret wakes the controller, which then
  repairs it; if the Secret held the fallback already, nothing does.
* *A Vcluster that stops registering.* `argoCD.register: false` leaves the child
  and the condition `ArgoCDRegistered`; the garbage collector takes the child
  when the Vcluster goes (`TornDown`).

## The proofs

`tlapm <module>.tla` checks a module of proofs. The constants are arbitrary:
any managers, names, addresses, specs and bounds that satisfy the assumptions
stated in the modules, which TLC evaluates in every run. They say that

* specs pass the CRD's validation (`SpecAssumption`, the `ValidSpecs` of the
  other modules) and bounds are numbers;
* the empty value is no name, address or object, and objects of different kinds
  are different objects (`NoneAssumption`, `ObjectAssumption`,
  `ControllerAssumption`, `LoadBalancerAssumption`, `AllocationAssumption`,
  `VclusterAssumption`).

Some theorems have hypotheses. Each is the line where the code stops keeping
what the theorem says, and the run or the entry above that shows it is named:

| hypothesis | because otherwise |
|---|---|
| `SingleManager` | nothing elects a leader: two managers both find the listing empty and both reserve (*Replicas*), and each renders from its own cache |
| `Mangles = FALSE` | a listing that reports `DNS` for the name hides the reservation (*Mangled listing*) |
| `NoRelease`, no spec asks for release on delete, or `OneName`, there is one CR | `finalize` may release an address for the second time when another CR has it (`claim_rerelease`) |
| `EnrichOnly`, `KeepsSinks` | `finalize` undoes what the spec at deletion names (*Switch of mode*) |
| `OneName` in `KeepsOriginal` | two CRs with one Service: the second finds the address of the first there |

### The abstract reservation: `ReservationProofs`

| theorem | statement | argument |
|---|---|---|
| `ShownHeld` | `Reservation!Spec => []ShownIsHeld` | Inductive together with the domains of the two functions: `Take` gives only free addresses, `GiveBack` asks that nothing is shown. |
| `ShownDistinct` | under `Reservation` no two resources in service show one address | An address has one holder, so it follows from `ShownHeld`. |

With the refinements below this is what all four controllers promise of
`status.ip`.

### The ClusterbookCluster controller

`ClusterReconcilerProofs`:

| theorem | statement | argument |
|---|---|---|
| `TypeCorrect` | `Spec => []TypeOK` | `TypeOK` is inductive. It says more than types: a busy worker has a name and a CR, and a worker at the drift check carries an address. One lemma for the steps that write locals, one for those that write objects, one each for faults, watches and users. |
| `ReservedOnce` | `Spec => ReservesOnlyOnce`, given one manager and a listing that is not mangled | The invariant `NothingHeld`: a worker about to reserve still finds nothing assigned to its name. It is needed because the listing is read one step before the reservation. |
| `CachesCoherent` | `Spec => []Coherent` | A cached copy marked current equals the object, and so does a worker's copy of the CR marked fresh. Inductive with `TypeOK`; the lemma `WriteCoherent` is shared by all writers. |
| `StatusIsLatched` | `Spec => StatusLatches`, for any number of managers | From `Coherent` the status update starts from the present object. What is missing is that the locals agree with that object, `LocalsFollow`: once past the probe they keep the readiness of the copy, once past the reservation they carry its IP, and on the registration-only path none. |

`ClusterReservationProofs`, on addresses, where no spec asks for release:

| theorem | statement | argument |
|---|---|---|
| `PublishedHeld` | `Spec => []PublishedIsHeld`, any number of managers, mangled listing or not | `AllBacked`: every copy of an address, in the API server, in a cache, in a worker's copy of the CR or its locals, ranges included, is assigned to its cluster. The property itself is not inductive, since what is published was copied from a cache and from locals some steps before. Without release the server only assigns what is free, so an assignment stands (`PoolGrows`). |
| `AddressesExclusive` | `Spec => []Exclusive` | An address has one holder, so it follows from `AllBacked`. |
| `RefinesReservation` | `Spec => ImplementsReservation`, one manager, a listing that is not mangled | Step by step from `AllBacked` and `NothingHeld`: `Reserve` and a `LostReply` to it are `Take`, a status update is `Show`, all else changes neither or hides. |

`ClusterLifecycleProofs`, on the finalizer and the Secrets, for one manager:

| theorem | statement | argument |
|---|---|---|
| `ReleasedFirst` | `Spec => ReleasedBeforeGone` | `Discipline`: a copy with the finalizer is of a CR that is there, a CR without it has recorded nothing, and no cache is ahead of a worker that finalizes. With `ReleaseDone`, what the copy says is to be released is no longer held by its name when the finalizer goes, and with `Coherent`, that copy is the CR. |
| `RendersForward` | `Spec => RenderNeverRegresses` | `RevisionsOrdered`: rendered revision, revision in the worker's hand, revision in its cache and revision in the source, in this order. A cache goes forward only, because its manager is the only one that renders. |
| `EnrichmentReversed` | `Spec => []EnrichReversed`, if all specs enrich | `EnrichTracked`: metadata is on a foreign Secret only while its CR has the finalizer and the cache knows the Secret, and it is off before the release. That the cache knows it is what makes the strip of a Secret that "is not there" harmless. |
| `RefinesRegistration` | `Spec => ImplementsRegistration` | From `Coherent`, `Discipline` and `RevisionsOrdered`: adopting, rendering, removing and retiring are steps of `Registration`, a user's create, edit, delete and rotation are those of its user. |

### The other three controllers

Their shared code has shared proofs. `ControllerProofs` names the *moves* that
a step of any such controller makes as far as CRs, worker and pool are
concerned (it rests, goes on, adds the finalizer, annotates, publishes, lets
go, calls clusterbook, catches up, restarts, is overtaken by a user), and shows
for moves once and for all that two invariants are kept:

* `Life`: a cached or a worker's copy is of the present life of its name or of
  an earlier one, a copy with the finalizer and not in deletion is of a CR that
  still is there, a CR with the finalizer is known to the cache, a worker marked
  fresh has the present version, and the worker stands where its copy's
  finalizer and deletion send it. Without this a worker in `ensure` could
  reserve for a CR that is gone.
* `Backed`: an address in any copy is assigned to its CR or, where that CR is
  being deleted and has the pool to itself, has been given back; the address in
  the worker's hand is held, and is the one its copy shows, if any; a worker
  about to reserve holds nothing.

`MoveRefines` shows that a move under these invariants is a step of
`Reservation`. Each controller then proves that each of its steps is a move.

| theorem | statement | argument |
|---|---|---|
| `LoadBalancerTypes`, `AllocationTypes`, `VclusterTypes` | `Spec => []TypeOK` | `Typed` is inductive: `Life` for the CRs of that kind, with the types of what the controller publishes. Allocations and Vclusters add that the worker carries an address where one is needed. |
| `LoadBalancerReserves`, `AllocationReserves`, `VclusterReserves` | `Spec => ImplementsReservation`, if `OneName` or `NoRelease` | `Typed` and `Backed`, with `MoveRefines`. |
| `KeepsOriginal` | `Spec => []CapturesOriginal`, if `OneName`, also where a `serviceRef` changes | `Captured`: until the CR has its annotation no Service, nor any cached copy of one, carries an address of the pool; in the same life an annotation that a copy shows is not lost again; and who is about to patch has it. The annotation is written before the patch, in another call, so the property alone does not survive a crash between them. |
| `StripsOnDelete` | `Spec => []AllocationReversed`, if `KeepsSinks`, any number of allocations | `Marked`: keys of an allocation are on the Secret only while that allocation is there with its finalizer and the sink in its spec, the cache knows the Secret, and they are off once the worker has passed the strip. The other controller writes the whole Secret from its own copy; that it cannot bring a key back follows from the copy's being the present one. |
| `LabelsHeld` | `Spec => []LabelledIsHeld`, if `NoRelease`, or `OneName` and `KeepsSinks` | `Labelled`, the same for every allocation: written from a held address (`Backed`), and off before the release (`Marked`). |
| `RegistersByContract` | `Spec => UsesRegistration`, any number of Vclusters | From the types alone, step by step: creating a child, deleting it through its finalizer, losing it and collecting it are `Create`, `Delete` and `Drop`, a new kubeconfig is `Rotate`, all else leaves children and revisions as they are. |

The inductive invariants were checked by TLC before they were proved, with the
hypotheses above and, for allocations and load balancers, with two names or
two Services.

### Only model-checked

* The liveness properties `RenderFollows`, `DeletionCompletes`, `DNSFollows`,
  `ServicePinned`, `ConfigMapFollows`, `RegistrationHeals`, `ArgoCDFollows` and
  `TornDown`: liveness under fairness is out of the prover's reach.
* `ImplementsReservation` of `ClusterReconciler` with release on delete, which
  the run `cluster_enrich` checks for one CR that flips between reserving and
  registration-only.

## What is not modelled

* JSON, TLS and HTTP in `pkg/client`, the kubeconfig parser, the text of the
  server URL, chart values and selectors, the reconstruction of a client
  configuration from ArgoCD's Secret: conversions that no property here is
  about.
* Conditions of a status: they follow from the fields that are modelled.
* What ArgoCD and Cilium do with an Application, a cluster Secret or a pool,
  but for the kubeconfig that a vcluster leaves on its host.
* `zz_generated.deepcopy.go` and scheme registration: generated.
* KCL manifests, shell scripts and examples: static configuration.
* Several pools, and two CRs with one reservation key.

## The plan

All components with logic of their own are modelled, and every invariant and
safety property of a run is proved for all constants, under the hypotheses
said. What is left:

1. `RefinesReservation` for one CR with release on delete, along the line of
   `Backed`, which would cover the instance of `cluster_enrich`;
2. `ReservesOnlyOnce` and `Exclusive` for one CR with release, from the same
   invariant;
3. weaker hypotheses where the code allows them: `LabelsHeld` and
   `KeepsOriginal` for several CRs that share nothing but the pool.
