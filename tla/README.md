# Verification of ham-resource-discoverer

`ham-resource-discoverer` is an operator that runs in every managed cluster. It
turns resources that already exist there into `ManifestWork`s on the hub
(*discovery*), and mirrors the cluster's `Deployer`s into one `DeployerSet` on
the hub. This directory holds TLA+ models of it, the TLC configurations that
check them on small instances, and proofs that TLAPS checks for every value of
the constants.

Paths below are relative to `src/`.

## 1. The system

### Components

| Component | Code | State it keeps | Operations |
|---|---|---|---|
| ManifestWork reconciler and discovery routine | `pkg/controller/manifestwork` | informer and its listener, nothing else: all state is on the two API servers | `SyncManifestWork`, `locateManifestWorkForObject`, `findRootResource`, `updateManifestWorkAndObject`, `syncManifestWork`, the informer's three callbacks |
| Object patch | `pkg/utils/utils.go` `PatchManagedClusterObject` | none | get, check of the hosting annotation, update |
| Application reconciler | `pkg/controller/application` | informer and its listener | `SyncCreateApplication`, `SyncUpdateApplication`, `SyncRemoveApplication`, `syncApplication` |
| Deployer reconciler | `pkg/controller/deployer` | controller-runtime cache and workqueue | `Reconcile`, `reconcileDeployerSet` |
| Explorer | `pkg/utils/explorer.go` | the two dynamic clients and `GVKGVRMap`, built once per process | `InitExplorer`, `buildGVKGVRMap` |
| Start-up and leader election | `cmd/operator/manager.go`, `cmd/manager`, `pkg/controller/*.go` | the ConfigMap of the leader-for-life lock | `RunManager`, `AddToManager`, the `Add` of each controller, `addMetrics` |
| Group/version helpers | `pkg/utils/utils.go` | none | `StripVersion`, `StripGroup` |
| Informer life cycle | `Start`, `Stop` of both reconcilers | stop channel, informer factory | start, stop |
| Deployer annotation helpers | `pkg/utils/utils.go` | none | `IsInClusterDeployer`, `SetInClusterDeployer`, `SetRemoteDeployer`; no caller |
| API types, registration, version | `pkg/apis`, `version` | none | declarations |

### How they interact

* The two listeners are goroutines of one process. Both end in
  `updateManifestWorkAndObject`: the Application listener calls
  `SyncManifestWork` for each component it lists, the ManifestWork listener
  calls `syncManifestWork` for each work that asks for discovery. They share no
  memory but the read-only `GVKGVRMap`. They meet on the API servers.
* The discovery routine writes to *two* servers: it patches the resource on
  the managed cluster with hosting annotations that name the work, and it
  creates or updates the work on the hub. There is no transaction.
* What the routine writes on the hub comes back as a notification of the
  ManifestWork informer: creating a work with `discovery-enabled` is the way the
  Application listener asks the ManifestWork listener to complete it.
* The deployer controller shares nothing with the other two.
* `RunManager` waits for the lock, then adds the controllers in the order of
  their files (application, deployer, manifestwork). The two informers on
  dynamic clients are at work as soon as they are added, while the rest of the
  start-up may still fail and end the process. `InitExplorer` is called by both,
  and the second call must find the explorer of the first.

### What is hard

Two listeners, users of two clusters and other deployable controllers write the
same objects between any two calls of a handler; writes conflict and are
retried with locals that were read before; a call can fail, or take effect and
lose its reply; the process can crash between the two writes, or panic on a nil
object; watches break and a relist skips versions; the kinds are read once and
kinds are installed later; errors are logged and not retried; pods are rolled
out, restarted and deleted while one holds the lock. `PROJECT.json`
lists each such hazard at its line, with the properties that would catch it.

### What makes each component correct

* Discovery: a work is completed only after its resource was claimed
  (`CompletedWasClaimed`), and then hosts it (`CompletedIsHost`) and still wraps
  it (`CompletionKeepsObject`); one work per source (`UniqueSource`), made for
  the root of the owner references (`SourceIsRoot`); nobody takes a resource
  over (`OwnershipKept`); the controller deletes a work whose resource exists only
  when that resource, or the work, is newer than what it looked at
  (`OnlyOrphansDeleted`); a request is settled or given up in the end
  (`DiscoveryCompletes`, `ComponentsGetWorks`), and every handler that starts
  comes back (`HandlersReturn`). When both listeners are at rest nothing is left
  undone: no request is open that the handlers could have settled
  (`RequestsSettled`) and no component is without a work (`ComponentsCovered`). All of the hosting
  together implements `HostingContract` (`RefinesContract`).
* Applications: what is handed over was asked for by one real version
  (`HandedWasAskedFor`), and all that the specs ask for is handed over in the
  end (`SpecsAreFollowed`; `DiscoveryFollows`, the same for every kind of
  change, does not hold) and whenever the listener is at rest
  (`FollowedAtRest`).
* Deployers: the set never goes back in time (`NeverOlder`), implements
  `DeployerMirror`, its default belongs to its list (`DefaultIsPublished`), it
  shows the Deployers once all their events are handled (`ShownAtRest`), and the
  resync makes up for everything else (`MirrorConverges`).
* Start-up: one process acts at a time (`OneActs`), its map of kinds is complete
  and can be looked up by what manifests say (`KindsAreFound`), is not rewritten
  under a running listener (`ExplorerIsFixed`), and some manager ends up running
  (`StartsUp`).

## 2. The modules

| Module | Models |
|---|---|
| `ManifestWorkSync` | both listeners inside the discovery routine, the hub, the managed cluster, users, faults |
| `HostingContract` | what both clusters may assume about hosting (abstract); `ManifestWorkSync` instantiates it as `Contract` |
| `ApplicationSync` | which resources are handed to that routine, for which version of which application |
| `DeployerSetSync` | the deployer controller |
| `DeployerMirror` | what the hub may assume of the `DeployerSet` (abstract) |
| `OperatorStartup` | processes of the operator: election, start-up, explorer, listeners |
| `GroupVersions` | keys of `GVKGVRMap` and of its lookups, as functions on the parts of an apiVersion |
| `MC…` | instances of the four for TLC |
| `…Proofs` | theorems about them |

`ApplicationSync` ends where `ManifestWorkSync` begins: `HandOver(o)` of the
first is `TakeItem` of the second, and the second keeps the event that starts a
sync as a counter (`appEvents`). `OperatorStartup` ends where both begin: its
listeners are theirs, `OneActs` is why each has a single process, `KindsAreFound`
and `ExplorerIsFixed` are why each takes `known` for a set of kinds that is
filled once by `Start`.

Some definitions are preceded by "Faulty variant". They are not part of
`Next`; each is a plausible bug in the definition after it and is listed under
"mutants" in `PROJECT.json` with the property that detects it.

### ManifestWorkSync and the code

| State | Code |
|---|---|
| `objs[o]` `[live, host, rv]` | a resource on the managed cluster; `host` abstracts the hosting-deployable and hosted-by annotations |
| `works[w]` `[live, src, wraps, disc, rv]` | a ManifestWork; `src` the source-object annotation, `wraps` the first manifest (`Unreadable` when it lacks a kind, version or name, `Empty` when there is none), `disc` the discovery annotation |
| `known`, `served` | `GVKGVRMap`, and what API discovery would list now. A resource of a kind outside `served` is of a version that discovery does not prefer: such a resource exists from the start or not at all, `createObj` makes resources of served kinds |
| `mwq`, `seen` | notifications not yet delivered by the ManifestWork informer; the `old` object of its update callback |
| `appEvents`, `todo`, `items` | the Application listener: pending events, kinds to list, components listed |
| `th[t]` | locals of the routine, see `Locals`; `pc` names the next API call |
| `history`, `left` | history: which handlers' patches took effect or found the resource gone, and which ran out of attempts; what is left of each bound |

Every step is one API call together with the local computation up to the
next. `rv` grows with every write of a key, deletions included, so equality of
`rv` stands for equality of UID and resourceVersion.

| Action | Code |
|---|---|
| `Start` | `InitExplorer`, `Start` of the two reconcilers, first lists |
| `BeginSync`, `ListKind`, `ListKindFails`, `TakeItem`, `EndSync` | `syncApplication` and the loop that calls `SyncManifestWork` |
| `LocateWork` | `locateManifestWorkForObject` |
| `ClimbOwner`, `FindRoot`, `OwnerKindUnknown`, `OwnerLookupFails` | `findRootResource` and `locateObject…` for an owner reference |
| `CreateWork` | the branch of `updateManifestWorkAndObject` without a UID |
| `GetWork`, `FetchObj`, `ClaimObj`, `ClaimRefused`, `UpdateWork`, `UpdateRefused`, `AnnotationsMissing` | one attempt inside `retry.RetryOnConflict`, with `PatchManagedClusterObject` in the middle; `Conflict` is what follows a conflict: another attempt (`Retry`), or the end of them (`GiveUp`) |
| `Deliver`, `Relist` | the informer's callbacks and filters |
| `GetWrapped`, `ManifestUnreadable`, `ManifestMissing` | `locateObjectForManifestWork`: the resource, no object and no error, or a panic |
| `Cleanup` | the deletion of an orphan in `syncManifestWork` |
| `CallFails`, `ReplyLost`, `Crash` | failures between and during calls |
| `UserWritesObj`, `UserWritesWork`, `InstallKind`, `ApplicationChanged` | the environment |

Three details decide most properties. `HostedElsewhere` is evaluated on `cur`,
the copy read before the owners were climbed, while `ClaimObj` writes the
version read by `FetchObj`. `Unchanged` is the comparison after which the
update of the work is skipped; a retry after a refused update never takes that
exit, because `prepareTemplate` has already stripped `cur` (`prep`). And a lookup of a kind
outside `GVKGVRMap` returns no object and no error.

### ApplicationSync and the code

`Deliver` is the three callbacks of the informer with their filters
(`Relevant`); `sync` the locals of the `syncApplication` under way, which uses
the *notified* version throughout; `ListKind` one dynamic list per component
kind that `GVKGVRMap` knows; `HandOver` the call of `SyncManifestWork`; `Start`
includes the early return when the Application CRD is not installed
(`watching`). `enabled` is the discovery annotation, `scoped` the annotation
that makes the lists cluster-wide. `past` and `handed` are history.

Two contents of an application end the process whenever it gets to list them
(`Listable`, `ListKindPanics`): a spec without a selector, whose labels are read
through a nil pointer, and a kind without namespaces that is listed in one,
which fails and leaves a nil list whose items are read before the error. The
next process lists the same application and panics again, so that no other
application gets further until a user edits or deletes it. A list that fails for
any other reason panics in the same place (`ListKindFails`), once.
`ManifestWorkSync`, which has one application, takes it to be one that can be
listed.

### OperatorStartup, GroupVersions and the code

| State | Code |
|---|---|
| `pods`, `lock` | the Deployment's pods; the owner reference of the lock's ConfigMap |
| `served`, `broken` | what API discovery lists; group/versions that do not answer |
| `pc[p]` | how far `RunManager` has come in the process of pod `p` |
| `explorer[p]` | the package-wide explorer, `Unset` or its map together with what was served then |
| `on[p]` | the listeners at work |

| Action | Code |
|---|---|
| `Become` | `leader.Become`, which a restarted container passes because the lock is its own |
| `AddApplication`, `AddDeployer`, `AddManifestWork` | the three `Add` functions, `InitExplorer` and `Start` included |
| `InitExplorerFails` | an incomplete discovery, which ends the process |
| `AddMetrics`, `StartManager` | `addMetrics`, `mgr.Start` |
| `Fail` | every other error of `RunManager`, and crashes |
| `Boot`, `Terminate`, `RemovePod` | the kubelet |
| `CreatePod`, `DeletePod`, `ForceDelete`, `CollectLock`, `ChangeApi` | the Deployment, its users, the garbage collector, API groups |

An apiVersion is the sequence of its parts between slashes. `MapKey` is what the
API library makes of a discovered list, `LookupKey` what `StripVersion` and
`StripGroup` make of a manifest; they agree on conventional names only
(`Conventional`), and the instance has one that is not: `v2ray/v1`.

### HostingContract

A resource gets one host and keeps it while it exists (`Claim`, `Vanish`); a
work is completed for a resource only when it hosts it or the resource is gone
(`Complete`, `Withdraw`). The refinement mapping reads `present` and `host` off
the managed cluster and `done` off the hub: two servers without a transaction,
of which the contract speaks as if there were one.

### DeployerSetSync and the code

`hist` is every state the Deployers have been in; the informer's cache (`cver`),
the list a reconciliation works from (`lver`) and the published set (`hub.ver`)
are indices of it, so that "older" can be said. `ListDeployers`, `GetSet` and
`WriteSet`/`WriteRefused` are `reconcileDeployerSet`. `fresh` is whether the set
read is still the current version. `Observe`, `Relist` and `Resync` are the
controller-runtime cache. One thing is assumed of the API server: the first list
of a process shows the current state (`Start`). client-go asks for that list at
resourceVersion 0, which a server whose own watch cache lags may answer with an
older state; `NeverOlder` and `RefinesMirror` would then fail for as long as the
watch takes to catch up (the variant `StartStale`), while `MirrorConverges`
speaks of the end and `ShownAtRest` of a cache that has caught up.

## 3. What TLC checks

`CHECK_DEADLOCK FALSE` everywhere: with bounded environments the system comes
to rest, and a handler with nothing to do is not an error.

### Passing runs

| Run | Instance | Shows |
|---|---|---|
| `MCOwners` | r1 owns r2, which owns the component r3; r2 is of a kind that is not listed at first, one fault, one crash, 2 user operations, three attempts, fair (149k) | `TypeOK`; `SourceIsRoot`: works are made for the root owner, also when kinds are installed late and the process panics and restarts; `HandlersReturn`: climbing and retrying end |
| `MCSafety` | one resource, two works, both listeners, users who create and delete both, break works and clear annotations, another controller that hosts (1.7M) | `CompletedWasClaimed`, `UniqueSource`, `OnlyOrphansDeleted` |
| `MCHosting` | the ManifestWork listener alone, two works edited to wrap each other's resources or disabled, 4 user operations (2.0M) | `CompletedIsHost`, `RefinesContract` |
| `MCComponents` | an application with two components of two kinds, synced twice, both listeners, a user with 2 operations, two attempts, fair (352k) | `RequestsSettled`, `ComponentsCovered`, `CompletionKeepsObject`, `RefinesContract`, `ComponentsGetWorks`, `DiscoveryCompletes` |
| `MCApps` | two applications, one of which may exist at the start, created with any annotation, and with specs of one kind, of three kinds one of them without namespaces, and without a selector; three components, all user operations, one of them late, a fault and a crash, fair (1.6M) | `TypeOK`, `HandedWasAskedFor`, `FollowedAtRest`, `SpecsAreFollowed` |
| `MCStartup` | three pods, four resources of three groups, two changes of the API, a fault, a forced deletion, fair (464k) | `TypeOK`, `OneActs`, `KindsAreFound`, `ExplorerIsFixed`, `StartsUp` |
| `MCMirror` | two Deployers, two changes, hub writes, a fault, a crash, fair (230k) | `NeverOlder`, `DefaultIsPublished`, `ShownAtRest`, `RefinesMirror`, `MirrorConverges` |

### Why the bounds are enough to be of use

* Three resources in a row make `findRootResource` climb twice, so that a second
  climb can start from the wrong one. Otherwise two works for one resource are the least that can compete for it; two
  resources the least that a work can be redirected between, or that one can
  own the other; two kinds the least that one can be listed after the other or
  be unknown. A third adds no relation the code looks at.
* Three pods are a rollout that is overtaken by another, or a pod that is
  replaced while a deleted one still runs: one that acts, one that waits, one
  that is gone and has left its lock.
* `RetrySteps` is 2 in `MCSafety`, `MCHosting` and `MCComponents`, where the code
  has the five of `retry.DefaultRetry`: one attempt that conflicts and one that
  succeeds or gives up, the two exits of `Conflict`. In `MCComponents` a user has
  as many operations as a handler has attempts, so that a handler can be made to
  give up; `DiscoveryCompletes` and `RequestsSettled` say what follows, and that it
  takes a user. `RequestsAreSettled` (section 4) says it for any number of attempts
  and operations. `MCOwners` has three attempts and two operations, where no
  handler gives up.
* One fault and one crash each: every call is followed by a fault in some
  behaviour. Runs of two are not checked; the proofs below have no bound.
* The passing runs leave out certain operations where the property is about
  their absence. `MCHosting` has `AppObjs = {}` since with both listeners
  and works that users make one work takes a resource over from another
  (`MCTakeover`), and does not clear hosting annotations or recreate resources,
  which `CompletedIsHost` excludes. `MCComponents` does not edit completed works and
  has no crash (`MCCrash`), `MirrorConverges` looks only at what happens while
  Deployers remain, and `SpecsAreFollowed` only at behaviours in which no late
  operation (`LateOps`: deletions, annotations, new resources and kinds) takes
  place, and in which the applications that users leave in the end can be listed
  (`Syncable`); `HandedWasAskedFor` is checked with all of them. `OneActs` says nothing
  of pods deleted by force, whose container runs on without its lock.
* Symmetry on works is used only where no liveness property
  is checked; no definition names a particular one.

### Fairness

`FairSpec` of each module, used by `MCOwners` and the runs marked fair, is weak
fairness of
* `Start`: the kubelet restarts the container whenever the process ends
  (`deploy/operator.yaml` sets up a Deployment);
* each listener, as one disjunction of its steps: client-go runs one goroutine
  per listener, which takes the next notification when the callback returns,
  and every API call returns;
* in `DeployerSetSync` also `Observe` (a watch delivers), `Worker` (the
  controller's one worker goroutine) and `Resync` (the manager's `SyncPeriod`,
  10 hours by default, fires for ever);
* in `OperatorStartup` each process's `RunManager` (straight-line code, and
  `leader.Become` polls for ever), the `Kubelet` of each pod and the garbage
  collector's `CollectLock`. No API group is obliged to recover: `StartsUp` has
  that as its premise.

Users, faults, crashes and relists are never obliged to happen. The Application
and ManifestWork informers also resync, but hand the same version over twice
and the filters drop it, so no fairness is drawn from that.

### Findings

Each of these runs checks one property that a comment, a log message or a test
states, and TLC finds it violated; `PROJECT.json` quotes the lines.

| Run | Violated | What happens |
|---|---|---|
| `MCTakeover` | `OwnershipKept` | the owner is checked on a copy read earlier; both listeners claim one resource for two works and the second replaces the annotation of the first |
| `MCUnknownKind` | `OnlyOrphansDeleted` | a kind is installed after the start, a resource of it is created and a work that wraps it, and the work is deleted as orphaned though the resource exists |
| `MCDuplicates` | `UniqueSource` | an owned component is looked up by its own key but its work is made under the key of its root: each sync makes another |
| `MCCrash` | `DiscoveryCompletes` | after a crash between patch and update the resource looks unchanged and the update is skipped for good |
| `MCAppsEnable` | `DiscoveryFollows` | an application is created without the discovery annotation; the update that adds it leaves the spec alone and is dropped |

More were met while modelling and are part of the models without a run of their
own, because nothing in the repository states otherwise:

* an owner of a kind outside `GVKGVRMap` is a nil object without an error, which
  `findRootResource` dereferences (`OwnerKindUnknown`);
* a work with an empty list of manifests, or with an apiVersion of one part that
  does not begin like a version, makes the process panic, and again after every
  restart, until a user removes the work (`ManifestMissing`). `MCSafety` shows
  that the crash loop does no harm beyond that;
* a work whose manifest cannot be read is deleted as orphaned
  (`ManifestUnreadable`);
* an application without `spec.selector`, or one that names a cluster-scoped kind
  and is not itself scoped cluster-wide, makes the process panic, and again after
  every restart, so that no other application is synced until a user changes it
  (`ListKindPanics`); the comment at `application_controller.go:227` expects a kind
  without matching resources to leave the other kinds alone;
* a resource or a work that is created or rewritten between the lookup and the
  deletion of an orphan is lost to it: the deletion names the work only
  (`CleanupEffect`; `OnlyOrphansDeleted` allows exactly that);
* a `DeployerSet` that does not exist is created even when there are no
  Deployers, after which nothing removes it until a Deployer comes and goes
  (`GetSet`);
* an application recreated with the same spec while the watch is broken is not
  synced (`Relist` of `ApplicationSync`).

## 4. What is proved

All theorems are checked by TLAPS for every value of the constants that
satisfies the module's `ConstantsAssumption` (types of the constants, finitely
many works or applications, `None` and `Foreign` apart from the names; TLC
evaluates it on each run). Where a theorem needs more, it is a hypothesis of
the theorem.

| Theorem | Hypotheses | Inductive invariant and argument |
|---|---|---|
| `ManifestWorkSyncProofs!TypeCorrect` | none | `TypeOK`, inductive thanks to `HandlerOK`, which says which locals have been read at each point; one lemma per listener, shared step and user action |
| `ManifestWorkSafetyProofs!CompletedClaims` | none | `CompletedWasClaimed` is not inductive: `UpdateWasClaimed` adds that a handler at "update" has already patched for the work it updates. `HistoryGrows` says history is never lost, `HubWriters` which steps write works |
| `ManifestWorkSafetyProofs!DeletesOnlyOrphans` | `InitKinds = Kinds` | `AllKnown` (the explorer knows every kind), `QueueTrue` (a notification says what its work has been, and nothing newer than what it is) and `LookedInto` (a handler on its way to a cleanup looks into the version the informer last showed, and the resource it names was missing when it was read: it is missing still, or has been written since). `OnlyCleanupDeletes`: no other step of the controller deletes a work |
| `ManifestWorkSafetyProofs!NoDuplicateWorks` | no owner references | `NoneMadeYet`: while the application listener is about to create, no live work has that source. Only that listener makes works with a source, one at a time |
| `ManifestWorkSafetyProofs!NoTakeover` | `AppObjs = {}`, no `foreignHost` | `AppRests` (the application listener never leaves its list) and `HostUnclaimed` (a version fetched and not since written is hosted by nobody or by the same work) |
| `ManifestWorkHostingProofs!SourcesAreRoots` | `InitObjs = Objs`, no `deleteObj` | `RootsOnly` (until a call fails, the application listener creates for roots only), `AllLive` (owners that count as missing are missing), `FaultCount` |
| `ManifestWorkHostingProofs!CompletedHosts` | `AppObjs = {}`, no `createObj`, `clearHost`, `foreignHost` | `ClaimsHold` (what history says was claimed is still hosted by its claimant, what was found gone stays gone) with `CompletedWasClaimed` and the two invariants of `NoTakeover` |
| `ManifestWorkHostingProofs!ImplementsContract` | the same | `HubStepsMap` maps the steps that leave the resources alone, `ClusterStepsMap` those that write one: a claim meets a resource nobody else hosts (`HostUnclaimed`), an update meets what was patched (`UpdateWasClaimed`, `ClaimsHold`) |
| `ManifestWorkCompletionProofs!CompletionKeeps` | no owner references, `InitObjs = Objs`, `InitKinds = Kinds`, no `deleteObj`, `deleteWork`, `editWork`, `breakWork` | `WorksStand` (a work made for a resource wraps it), `QueueStands` (notifications still say what their work wraps) and `HandlersStand` (so does each handler, from its first call to its last) |
| `ManifestWorkDiscoveryProofs!BothKeepOwners` | `OnlyDiscovered` | `Discovered`: every work was made for the component it wraps (`Made`, with `WorksStand` and the two that follow from it), no component has two (`NoneMadeYet`, `UniqueSource`), and a resource is hosted by such a work or by nobody (`OwnHosts`). So whoever claims a resource, with whatever stale copy, claims it for the one work there is (`BothClaimFree`) |
| `ManifestWorkDiscoveryProofs!BothCompletedHost`, `BothImplementContract` | `OnlyDiscovered`, no `createObj`, `clearHost` | `Discovered` and `ClaimsHold`. The steps of both listeners are mapped by the lemmas of `ImplementsContract`, which ask only for claims that meet a free resource |
| `ManifestWorkDiscoveryProofs!ComponentsHaveWorks` | `OnlyAnnotated` | `Pursuit`: until a call fails, each component has a work or a host, or the application listener still has an event, a kind, an item or a step left that leads to it. Crashes and panics are allowed: the first list after a restart is an event |
| `ManifestWorkDiscoveryProofs!RequestsAreSettled` | `HostsLast` | `UnderWay`: an open request has a notification that will be acted upon (`Heard`); once that is delivered, the listener is on its way to claim the resource or it is claimed (`Tried`); and once it is claimed, a handler is at work that will mark the request completed (`Finished`). What each handler has used up is `Paid`: its attempts, and the one a stale read is going to cost, are at most the operations that users have spent. So a handler that gives up proves that users got in its way once per attempt, and the request it leaves is one of those the property names (`Overrun`). `HandlersRead` and `SeenStands` say that the copies at hand are of works that exist and of hosts that still hold; `CalmSteps` says which steps can be taken while no call fails |
| `ApplicationSyncProofs!TypeCorrect` | none | `TypeOK` |
| `ApplicationSyncProofs!HandsOverWhatWasAsked` | none | `AskedInv`: every notification is a version in `past`, and the version being synced was relevant and selects each listed item |
| `ApplicationSyncProofs!FollowsSpecs` | none | `FollowInv`: the latest version of each application has been delivered or is the last of its notifications (`Upcoming`), and whatever the delivered version asks for was handed over or is what the sync under way has still to list or to hand over (`LookedFor`). A version that the filter drops asks for what the one before it asked for |
| `DeployerSetSyncProofs!TypeCorrect`, `NeverGoesBack` | none | `TypeOK /\ NeverOlder`: published ≤ listed ≤ cached, in `hist` |
| `DeployerSetSyncProofs!ImplementsMirror` | none | every step maps to a step of `DeployerMirror` or a stutter, by `NeverOlder` |
| `DeployerSetSyncProofs!DefaultMatchesList` | none | `PickedDefault`: the default picked by the worker belongs to the list it still holds |
| `DeployerSetSyncProofs!EventsSuffice` | none | `InHand`: when the set does not show what the cache holds, a key is in the queue or the worker holds the list that will be published (`Pending`), and the write it is about to make will not be refused (`Ready`) |
| `OperatorStartupProofs!TypeCorrect` | none | `TypeOK` |
| `OperatorStartupProofs!ListedKindsAreFound` | none | `Ready` (listeners run only where the explorer was filled, and filled means complete), with `KeysAgree`: on conventional apiVersions `StripVersion` and `StripGroup` make the keys of the map |
| `OperatorStartupProofs!MapIsNotRewritten` | none | `Ready` |
| `OperatorStartupProofs!AtMostOneActs` | none | `Elected`: until a pod is deleted by force, a process past the election owns the lock, and its pod is not gone |

`OnlyRequests`: no owner references, no `deleteObj`, `deleteWork`, `editWork`,
`breakWork`. `OnlyAnnotated`: also no `clearHost`. `OnlyDiscovered`: `OnlyRequests`
and no `requestWork`, `foreignHost`. `HostsLast`: `OnlyDiscovered` and no
`clearHost`. The theorems of
`ManifestWorkDiscoveryProofs` also have `InitObjs = Objs` and `InitKinds = Kinds`.

The hypotheses of `DeletesOnlyOrphans`, `NoDuplicateWorks` and `NoTakeover` are
the exact situations whose absence `MCUnknownKind`, `MCDuplicates` and
`MCTakeover` turn into violations. Those of `CompletedHosts`,
`ImplementsContract` and `CompletionKeeps` name what the statement is about: an
annotation that a user clears is not kept by anyone, and a work that a user edits
while it is handled is overwritten (hazard at `manifestwork_utils.go:142`).

`NoTakeover` and `BothKeepOwners` are the two sides of `MCTakeover`. With both
listeners at work a resource is taken over only where two works wrap it; as long
as works come from the application listener alone there are no two, and
`BothImplementContract` gives the contract that `ImplementsContract` gives for the
ManifestWork listener by itself, whose users may make works.

### Where the proofs and the liveness properties meet

A liveness property says that the work is done in the end; the theorems on
states at rest say that it is done whenever no listener has a step left. They need
no fairness, hold for all values of the constants, and are the part of each
liveness property that the code decides:

| Liveness, by TLC | At rest, proved | Allowed in between |
|---|---|---|
| `DiscoveryCompletes` | `RequestsSettled` | conflicts, relists, users who touch or withdraw, and by touching once per attempt make a handler give up; one failed call or crash may leave a request open (`MCCrash`) |
| `ComponentsGetWorks` | `ComponentsCovered` | the same, requests of users, other hosts, crashes and panics; a failed call is only logged |
| `SpecsAreFollowed` | `FollowedAtRest` | edits, relists, faults, crashes, the crash loop of an application that cannot be listed |
| `MirrorConverges` | `ShownAtRest` | skipped versions, crashes; failed calls and writes of others wait for the resync |

### Only model-checked

`DiscoveryCompletes`, `ComponentsGetWorks`, `HandlersReturn`,
`SpecsAreFollowed`, `MirrorConverges` and `StartsUp` are liveness properties
under fairness, which the installed provers cannot do; they stay with TLC. Every
safety property that a passing run checks is also proved, the ones at rest
included. `SetToSeqs` in the two `Start` actions comes from the community modules
and is expanded as a set of functions in the proofs.

## 5. What is not modelled

* Contents of resources: labels, specs and status are abstracted to the version
  `rv`; of a work's manifests the first is modelled, as the code reads no other.
* `findRootResource` follows the first owner reference. The models have acyclic
  owners: along a cycle the recursion has no end and the process runs out of
  stack, which `HandlersReturn` therefore does not claim. Owner references that
  users change while a handler climbs are not modelled either.
* Parsing of the text of an apiVersion: `GroupVersions` starts from its parts.
* `Stop` and a second `Start` of an informer: only tests do that, and what comes
  of it is decided inside client-go's factory. Hence "partly" in `PROJECT.json`.
* The Service and ServiceMonitor that `addMetrics` creates: nothing in the
  program reads them, and every error is only logged.
* `IsInClusterDeployer`, `SetInClusterDeployer` and `SetRemoteDeployer` have no
  caller; API types, generated deep copies, registration and version have no
  behaviour.
* Two processes at once on the two clusters, after a pod was deleted by force:
  `OneActs` excludes it, and the other modules assume `OneActs`.

## 6. What could come next

1. A composition of `ApplicationSync` and `ManifestWorkSync`, from the edit of
   an application to the completed work. Their product is beyond a run of
   minutes at bounds where the interesting cases happen; an abstract
   `ManifestWorkSync` with its handlers as single steps would come first.
2. `findRootResource` on an arbitrary owner graph against a reference definition
   of the root, with several owner references. Each call is a step of
   `ClimbOwner` today, and `SourcesAreRoots` holds for chains of any length.
3. `BothImplementContract` with works that users make too, once the check of
   the hosting annotation looks at the version that is written (`MCTakeover`),
   and `RequestsAreSettled` with them: the request that loses the resource is
   then one that a handler leaves, and has to be told apart.
4. `ComponentsHaveWorks` with owner references, along `SourcesAreRoots`: the
   work to look for is that of the root.
