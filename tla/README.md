# Verification of the CSI external-provisioner

TLA+ models of the external-provisioner (`src/`), the TLC runs that check them
on small instances and the TLAPS proofs of their main properties.
`PROJECT.json` lists components, runs, mutants, the map from definitions to
source lines, findings, hazards and theorems.

Paths below: `lib/` stands for
`src/vendor/sigs.k8s.io/sig-storage-lib-external-provisioner/v13/controller/`,
the library whose controller calls the provisioner's own code in `src/pkg/`.

## 1. Inventory

### The parts and their state

| part | code | state | operations |
|---|---|---|---|
| claim worker | `lib/controller.go` | `claimQueue`, `claimsInProgress`, `slowSet`, claim informer | event handlers, `syncClaim`, `provisionClaimOperation`, `rescheduleProvisioning` |
| `csiProvisioner.Provision` | `pkg/controller/controller.go` | `pvcNodeStore`; the driver's volume | `prepareProvision`, `CreateVolume`, `checkError`, `cleanupVolume` |
| unsaved PVs | `lib/volume_store.go` | `volumes`, `queue` | `StoreVolume`, `processNextWorkItem`, `doSaveVolume` |
| volume worker and `csiProvisioner.Delete` | `lib/controller.go`, `pkg/controller/controller.go` | `volumeQueue`, PV finalizer | `syncVolume`, `deleteVolumeOperation`, `Delete`, `canDeleteVolume` |
| clone protection | `pkg/controller/clone_controller.go` | own claim queue, finalizer on the source PVC | `setCloneFinalizer`, `syncClaim` |
| snapshot source protection | `pkg/controller/snapshot_finalizer_controller.go`, `controller.go` | finalizer on the VolumeSnapshot | set and remove during `Provision`, periodic sweep |
| topology | `pkg/controller/topology.go`, `cache.go` | `pvcNodeStore` | requirements from CSINodes, node labels, allowed topologies |
| distributed provisioning | `controller.go`, `ratelimiter.go` | selected-node annotation as owner, back-off per claim | `checkNode`, `checkCapacity`, `becomeOwner` |
| capacity | `pkg/capacity/capacity.go`, `provision.go` | work items, `CSIStorageCapacity` objects, queue | handlers of classes, segments and capacities, `syncCapacity` |
| node topology | `pkg/capacity/topology/` | segments | `sync`, callbacks |
| data sources, secrets, parameters | `controller.go`, `util.go` | none | pure checks |
| owner references | `pkg/owner/` | none | walk at start |
| start-up | `cmd/csi-provisioner/` | flags, leader election | wiring |

The claim worker calls `Provision`, `Provision` calls the driver, and the PV is
handed to the store of unsaved PVs.  The PV controller of Kubernetes binds it
and, when the claim is deleted, releases it; the volume worker then deletes the
volume through `Delete`, and the PV.  Claim and volume worker only meet in
the API server, in the driver and in the informers' caches.

### What is hard

* `CreateVolume` may go on in the driver after the call has timed out.  The
  claim may be deleted, changed, rescheduled or declared invalid meanwhile.
* Every decision is taken on informer caches that are behind the API server.
* Everything the provisioner remembers is in memory and lost in a restart.
* A PV can be written only after the volume exists, and the write can fail.
* The two workers may be busy with the same volume.

### What correctness means

1. No volume is lost: storage that exists or may still come to exist is known
   to somebody who will finish or delete it (`NoLeak`).
2. A PV always refers to a volume the claim can use (`PVBacked`), and the
   volume of a living claim is not deleted (`LivingClaimKeepsVolume`).
3. The answers `Finished` and `Reschedule` are given only when the driver is
   idle (`FinishedIsFinal`, `RescheduleOnlyWhenIdle`).
4. Claims are provisioned, deleted claims leave nothing (`EventuallyBound`,
   `DeletedClaimIsResolved`, `EventuallyCleaned`).
5. What a volume is made from stays until it is made, and not longer
   (`SourceStays`, `FinalizerNotLeftBehind`, `SourceReleased`).
6. One node creates the volume of a claim (`OneVolume`, `OwnerKept`), and one
   that may do so does (`EventuallyProvisioned`).
7. The driver is asked for a topology that the claim's pod can use, and for the
   same one in every retry (`SelectedFirst`, `VolumeUsable`, `RetrySame`).
8. Deletion: a volume is deleted when its PV says so and no longer in use, by
   its own node, and not left behind (`RetainKept`, `AttachedNotDeleted`,
   `NothingOrphaned`, `EventuallyDeleted`).
9. The published capacities become those of the cluster (`ItemsComplete`,
   `EventuallyConverged`, `EventuallyExact`).

## 2. Plan

Every component with state has its module, and every safety property of the runs
has a proof.  What is left, most useful first:

1. An abstract specification of who is responsible for a volume (nobody, the
   provisioner, the cluster, nobody) and the refinement of `ProvisionController`.
2. Data sources and ReferenceGrants as operators.

## 3. The modules

### ProvisionController

One claim is one UID.  The work queue hands a key to one worker at a time, so
`pc[c]` and `work[c]` (the claim object the worker was given) describe it.

| action | code |
|---|---|
| `DeliverClaim`, `ResyncClaim`, `DeliverVolume` | the informers' handlers |
| `SyncClaim` | `processNextClaimWorkItem`, `syncClaimHandler`, `syncClaim` up to `shouldProvision` |
| `ProvisionClaimOperation` | the check that the PV is not in the cache |
| `PrepareFails`, `PrepareRejects`, `PrepareReschedules`, `CallCreateVolume` | the outcomes of `prepareProvision`: NoChange, Finished, Reschedule, success |
| `CreateVolumeFails` | an error of `CreateVolume`, classified by `checkError` |
| `CleanupVolume`, `TranslateFails`, `CreateVolumeSucceeds` | what follows a successful `CreateVolume` |
| `Reschedule`, `UpdateStore`, `RescheduleFails` | `rescheduleProvisioning`: the update of the claim, then the write into the informer's cache, or an error |
| `StoreVolume`, `SaveQueuedVolume` | the store of unsaved PVs |
| `SlowRetryDue` | the end of the delay after an infeasible error |
| `Restart` | a new process: memory is lost, informers list again |

`EndSync` is the end of every attempt: the entry in `claimsInProgress` and the
requeueing, which depend on the `ProvisioningState` and on the error.
`CreateClaim`, `DeleteClaim`, `TouchClaim`, `SelectNode`, `NodeGone`,
`ConfigChange`, `Bind`, `DriverCreates` and `DriverFails` are the environment.
Of the driver the model assumes what `checkError` assumes: `CreateVolume` is
idempotent, and a final status code is given only when the volume does not
exist and is not being created.

The data are reduced to what the properties tell apart.  A claim object is one
of six versions; its configuration is valid or not; a volume is good or bad
(too small, or without the content asked for); a PV is in one of its phases.
The watch channel keeps every version that is still to be delivered.

### VolumeLifecycle

Extends `ProvisionController` by the volume worker.  A PV that is deleted stays
"terminating" while it has `finalizerPV`, then "finalized" until other
controllers let it go.  `DeleteVolume` and `DeleteVolumeFails` are the outcomes
of `csiProvisioner.Delete`, `DeletePV`, `RemoveFinalizer` and their failures the
rest of `deleteVolumeOperation`.  An attached volume is one of the reasons
`DeleteVolumeFails` stands for.  `ResyncVolume` is the periodic resync.  `restarted` is
a history variable.

### The proof modules

The theorems about a module `M` are in `MProofs`, which extends it;
`VolumeLifecycleProofs` also extends `ProvisionControllerProofs` and uses its lemmas.
`SourceProtectionProofs` is about both protocols that protect a source: it extends
`SnapshotProtection` and has the other as `Clone == INSTANCE CloneProtection`, with
the constants in common.  `CapacityControllerProofs` has the proofs about the topology
informer as well, through `NT == INSTANCE NodeTopology`, with variables of its own and
any set of label values.  `AccessibilityRequirementsProofs` extends `TopologyProofs`,
which is about the operators of `Topology`.  Section 6 says what they show.

### SnapshotProtection

Claims that are restored from one VolumeSnapshot, one worker each, and the
sweep.  `getSnapshotSource`, `setSnapshotFinalizer` (a read and `UpdateFinalizer`),
`CreateVolume` and its ends, `removeSnapshotFinalizer` (a read and
`UpdateRemoved`) and `SavePV` are the steps of `Provision`;
`ListSnapshots`, `buildPendingSnapshotIndex` and `SweepRemoves` those of
`sweepOrphanedFinalizers`.  There are no sweeps unless `sweeping`: the preflight of `Run` was
allowed to list snapshots, and `--snapshot-orphan-sweep-interval` is not 0.  Reads of the API server and of caches are separate
steps from the updates, which are refused for an old version.  Claims in
`RefOnly` name the snapshot in `dataSourceRef` only.

### CloneProtection

The same for clones of a claim: `getPVCSource`, `setCloneFinalizer` from the cache,
and the controller with its queue: `enqueueClaimUpdate`, `syncClaimHandler`,
`syncClaim` (the list of pending clones) and `RemoveFinalizer` (the update).
Clones in `RefOnly` are in another namespace.

### NodeOwnership

One claim, provisioners on `Nodes`.  `log` is the sequence of versions of the
claim, of which only the selected node matters; `cache[n]` is the version that a
node's informer has.  `checkNode`, `Wait`, `checkCapacity` and `becomeOwner` are the
race for a claim with immediate binding; otherwise the scheduler selects
(`immediate`, chosen at the start).  Nodes in `Fits` have room.  The delays of `ratelimiter.go` are arbitrary: a node may be
first or last.  What follows a `CreateVolume` is as in `ProvisionController`, cut down
to success, exhaustion, timeout and a reschedule that fails.  `DeliverPV` brings the PV
into a node's caches; a node that has not seen it may go on.

### VolumeDeletion

One PV and the volume workers of `Nodes` (one of them is enough for a central
deployment).  `syncVolume` and `handleProtectionFinalizer` decide on the cached
PV; the patch of the finalizer applies to whatever version there is.  `Delete`,
`canDeleteVolume` and `DeleteVolume` are the parts of `csiProvisioner.Delete`;
`DeletePV` and `RemoveFinalizer` the rest of `deleteVolumeOperation`.  Users change
the policy and delete claim and PV.  Secrets are left out: `handleSecretsForDeletion`
goes on without one that cannot be read or whose class is gone.  The driver answers OK for a volume that it does not know, as CSI demands.
Attachments are seen through a cache of their own, which may be behind.
`retained` (the policy is Retain since before the release), `wavered` (it has been
Retain) and `caughtUp` (at the release the informers knew all attachments) are
history variables.

### TopologyInformer and NodeTopology

`TopologyInformer` is what `topology.Informer` promises: a set of segments, each
with an address and labels, which changes, and a callback that brings the
client up to date afterwards.  `NodeTopology` is `nodeTopology.sync` node by
node, with the cache of Nodes and CSINodes changing between two nodes and the
callback after the unlock.  The capacity controller adds its callback before the
informer starts, so that there is one from the beginning.  `ImplementsInformer` is the refinement: `known`
and `told` are mapped to the segments' addresses and contents.

### CapacityController

`items` and `ptr` are the map `capacities`; `obj` are the CSIStorageCapacity
objects in the API server, `dirty` those with an event that is still to come.
Segments come from a `TopologyInformer`, which lets the list be ahead of the
callback.  The handlers `onTopologyChanges`, `onSCAddOrUpdate` and `onSCDelete`
are two steps each: they list the other side without the lock (`ListClasses`,
`ListSegments`), then apply.  `prepare` is a thread of its own and goes
through the objects it listed one by one (`Prepare`).  `StartSync`,
`GetCapacity`, `CreateObject` and `UpdateObject` are `syncCapacity`;
`WrappedProvision` and `WrappedDelete` the refreshes by `provision.go`.  A UID is
used again when nothing refers to it any more, so that a few are enough.
`ClassResync` is an event of a class without a change: a resync, an update, or the
first event of a class that `prepare` has listed.  `overlapped` is a history variable:
a change met a handler, or `prepare`, at work on lists from before it.

### Topology and AccessibilityRequirements

`Topology` has the pure functions of `topology.go`: terms as sets of key-value
pairs, `compare`, `subset`, `flatten`, the key sets and their aggregation, the
offset of a claim's name, the node affinity.  Keys and values are numbers, so
that they have an order.  `sort` and `SortTerms` give each element the place after
those that come before it; `ForEach` is a loop over a slice.  Names are their parts
and perhaps an index; integers have `W` bits.  `AccessibilityRequirements` is one claim in a
cluster whose Nodes and CSINodes change: an action for each way
`GenerateAccessibilityRequirements` returns, the entry of `pvcNodeStore` that it
leaves, and the ends of `CreateVolume`, of which a final one deletes the entry.

`MCProvisionController`, `MCVolumeLifecycle`, `MCCapacityController` and
`MCAccessibilityRequirements` are what TLC runs; the other modules are run as
they are.

## 4. The runs

One run for each module, two where a module is asked two different questions.
Safety and liveness are checked together.  All runs pass but `lifecycle_overlap`, which
refutes a comment (see Finding below).

| run | environment | shows |
|---|---|---|
| `provision_stable` | nodes disappear | `NoLeak`, `RescheduleOnlyWhenIdle`, `FinishedIsFinal`, `NoOperationOnOldClaim`, `EventuallyBound`, `DeletedClaimIsResolved` |
| `provision_faults` | all faults, custom PV names | `TypeOK`, `InProgressIsQueued`, `PVBacked` |
| `lifecycle` | restarts | `LifecycleTypeOK`, `LivingClaimKeepsVolume`, `EventuallyCleaned` |
| `lifecycle_overlap` | no faults | violation of `FinalizedHasNoVolume` |
| `deletion` | two nodes; policy to Retain and back, PV deleted by users, attachments, errors, a restart | `NothingOrphaned`, `RetainKept`, `AttachedNotDeleted`, `EventuallyDeleted` |
| `snapshot` | two claims, deletion, timeouts, permissions that are missing, a restart | `SourceStays`, `FinalizerNotLeftBehind` |
| `clone` | two clones, one elsewhere; deletion, timeouts, a restart | `SourceStays`, `SourceReleased` |
| `ownership` | two nodes, one without room; both binding modes, deletion, errors, foreign updates, a restart | `OneVolume`, `OwnerKept`, `EventuallyProvisioned` |
| `capacity` | objects of an earlier process; segments, classes, capacities and objects change, also during `prepare`; errors | `TypeOK`, `ItemsComplete`, `EventuallyConverged` |
| `topology` | Nodes and CSINodes change | `TypeOK`, `ImplementsInformer`, `EventuallyExact` |
| `access_delayed` | selected nodes, strict or not, allowed topologies; labels and registrations come and go, nodes are removed, later failures | `TypeOK`, `SelectedFirst`, `VolumeUsable`, `RetrySame`, `EventuallyReady` |
| `access_immediate` | nodes with one or two keys, allowed topologies, names | `EachNodeOnce`, `OnlyAllowed`, `RoundRobin` |

In `provision_*` and `lifecycle*` resyncs, deletion of a claim, timeouts and failed
calls always happen; updates by others, changes of configuration, lost nodes and custom PV
names are in `provision_faults`, and `LivingClaimKeepsVolume` is proved for them.  Each property has a mutant in `PROJECT.json`, a plausible bug of
the code under which its run fails.
The `TypeOK` of `VolumeDeletion`, `SnapshotProtection`, `CloneProtection` and
`NodeOwnership` only say what the variables hold and are not among the runs.

### What the properties depend on

Some properties say less than a comment of the code does.  In each case TLC
finds a violation when the condition is left out; the condition is in the
property, or, for `provision_stable`, in the environment of the run.

* `RescheduleOnlyWhenIdle`: no restart.  `lib/volume.go` says that Reschedule
  "must only be returned when it is certain that provisioning does not continue in
  the background".  The entry in `pvcNodeStore` that guarantees this during
  retries is lost in a restart: with "crash" in `Env` the node is looked up anew,
  is gone, and the claim is rescheduled while the first call still runs.
* `NoOperationOnOldClaim`: no updates by others.  `lib/controller.go` saves the
  rescheduled claim in the informer's cache "to avoid operations on old claim".  With
  "touch" an update of somebody else that is older and still on its way replaces it.
  For the same reason `OneVolume` and `OwnerKept` of `NodeOwnership` exclude such
  updates: `README.md` says that an instance "only creates volumes if that node is
  the one it runs on", but the annotation comes from that cache.
* `FinishedIsFinal`: no change of configuration.  `lib/volume.go` says that Finished
  means that provisioning "for sure does not continue in background".
  `prepareProvision` says Finished when it finds the configuration invalid, and it
  may have been valid when an earlier attempt called `CreateVolume`.
* `EventuallyBound`, `EventuallyProvisioned`: no cache stays behind the API server for
  good (`LeftBehind`, `Stale`).  `rescheduleProvisioning` updates the claim and then writes
  the result into the informer's cache, without a lock.  If the scheduler selects a
  node in between and the event is delivered first, the cache gets the older version back.
  No event follows, and a resync repeats what the cache has: the claim waits until
  somebody updates it.  `EventuallyBound` also excludes nodes that disappear for ever.
* `EventuallyCleaned`: no restart, and no attempt to provision goes on once the PV is
  released.  A restart loses `claimsInProgress`; an attempt on stale caches makes the
  volume again (see Finding below).
* `FinalizerNotLeftBehind`: the sweep runs.
* `SourceStays` of snapshots: no other claim is done with the snapshot, or has
  ended so that the sweep takes the finalizer for an orphan.  `controller.go` calls the
  finalizer one that tracks "in-progress provisioning operations", but it does not
  count them: the first of two claims that is done removes it.  It is removed
  before the PV is saved, so that after a crash in between a started provisioning
  is "rejected".
* `SourceStays` of clones: living clones in the namespace of the source.
  `clone_controller.go` removes the finalizer "when cloning is finished", but only
  looks for pending claims there, where neither clones elsewhere nor deleted ones are.
* `NothingOrphaned`: the policy has never been Retain.  `finalizerPV` is
  there "so we know to clean them up"; its removal, decided when the policy was
  Retain, may be applied when it is Delete again.
* `AttachedNotDeleted`: the attachment was in the caches when the claim was deleted.
  `canDeleteVolume` is to "verify if volume is attached", in that cache.
* `EventuallyConverged`: no change met a handler, or `prepare`, at work on older lists
  (`overlapped`).  `capacity.go` promises "one entry for each object that is supposed to
  exist" and that obsolete objects are deleted when they are processed.  A segment that
  is removed after the class handler has listed it, or a class that is deleted after
  `onTopologyChanges` has listed it, leaves an item (`syncCapacity` checks the class only).
  A class event handled between a change of the segments and its callback, such as a
  resync, makes the item of a new segment while that of the old one with the same labels is
  there: both get the same object, and when it is deleted `onCDelete` clears one
  of the two pointers.  `prepare` stores objects that are gone.  `README.md` also says that
  objects are created when the capacity "is non-zero"; they always are, as in
  `CreateObject`.
* `SelectedFirst`, `VolumeUsable`: labels that were read have not changed.
  `EventuallyReady`: moreover the driver was not unregistered, and the class has no
  allowed topologies.  `topology.go` says that a retry "should eventually succeed"
  after the driver has re-registered, but the terms aggregated meanwhile are
  kept.  `controller.go` says that a node that "can't be found" leads to a
  reschedule, but not with keys in the entry (`LabelsMissing`).  `cache.go` says that
  the entry is deleted on "a final error", but only one of `CreateVolume` does so.
* `RoundRobin`: hash and index do not wrap.  `topology.go`: "we round-robin across
  zones".
* `ImplementsInformer` is about contents, not about the list:
  `topology/topology.go` says that segments are "unique" and that a late callback
  "gets called immediately"; `List` repeats a segment for every node in it, and
  `AddCallback` calls nothing.  The capacity controller relies on neither.

### Finding

`shouldDelete` (`lib/controller.go:1296`) says of a PV that is being deleted without
`finalizerPV`: "The finalizer was removed, i.e. the volume has been already deleted."
`lifecycle_overlap` shows a PV of this kind whose volume exists, without any
fault.  The claim is deleted, which the cache does not show yet.  A resync enqueues it once
more while it is being provisioned, and a second attempt finds neither the deletion nor
the PV in the caches.  Meanwhile the PV is released and `DeleteVolume` is called; the
second attempt creates the volume again, and its PV "exists already", which
`doSaveVolume` counts as success.  Then the volume worker deletes the PV and
its finalizer.  The volume is nobody's.  `FinalizedHasNoVolume` looks at claims for
which no attempt is going on any more, so this is not a passing state.

### Bounds

`ProvisionController` and `VolumeLifecycle`: one claim.  Claims do not share anything but the process: the actions of
one leave the variables of the others alone (the frame lemmas of the proofs),
and only `Restart` concerns several.  The theorems hold for any set of claims.
`MaxWatch` = 2 bounds the undelivered events after which users and the scheduler
wait; two are enough for an older event to arrive after a direct write to the
cache.  The controller's own writes are not bounded by it.

`SnapshotProtection`, `CloneProtection`: two claims are the least that can disturb
each other, one of them in `RefOnly`; caches hold one old version, since only "old
or not" decides about an update.  `NodeOwnership`: `MaxVersions` = 5 bounds the
writes of the claim; that is enough for selection, rescheduling, a second selection
and an update or deletion.  With all versions used a write waits, so that the bound
hides behaviours but adds none.  `VolumeDeletion`: `MaxChanges` = 3 bounds what users
do and calls that fail, together, so that a change of policy and back meets an attachment
or a failure in one behaviour.  `CapacityController`: two segments
with equal labels, that is one that is removed and found again; one class; two
objects, one more than should exist; two changes and any number of class events without
change.  After an overlap, of which `EventuallyConverged` says nothing, the constraint
`Followed` goes on only until the handlers are done, which is what `ItemsComplete` needs,
and without workers, which do not touch what it is about.  It also has class events that
only add to the queue handled while no worker is busy.
`NodeTopology`: two nodes with equal or different values, or no keys at all; two
changes, so that one can fall between the two nodes of a sync.
`AccessibilityRequirements`: two nodes, two zones, nodes that get the label of their
zone late; two changes of the cluster among any number of attempts in `access_delayed`,
one in `access_immediate`, which has key sets of one and two keys and `W` = 4 with
names whose hash is near the end of the range and names for which it is not.

Deadlock is not checked: when the claim is gone and everything is cleaned up, or
the bounded changes are used up, the system has nothing to do.

## 5. Fairness

Weak fairness for steps that are taken once they are due: informers deliver
(`DeliverClaim`, `DeliverVolume`), workers run their queues (`wait.Until` in
`Run`), delays end, the scheduler and the PV controller do their work.  Strong
fairness for what may fail at each attempt but is attempted again without limit,
since csi-provisioner sets both failure thresholds to 0: API calls, secrets and
`CreateVolume` succeed at last, and so does the update of `Reschedule`.  Configuration is
left alone in `provision_stable` and `lifecycle`: nothing is promised to a claim whose
configuration keeps changing.

The other modules have weak fairness of the same kind: informers deliver,
workers take what is queued and finish what they began, the driver ends its
calls.  Where faults are bounded by a constant weak fairness is enough.  In
`NodeOwnership` errors are not bounded: strong fairness says that of calls that are
repeated again and again one succeeds, or shows that there is no room.  Beyond that
`SnapshotProtection` needs the sweep's timer, `CapacityController` the poll timer of `Run`, `NodeOwnership` resyncs and the scheduler, `VolumeDeletion`
that pods end (`Detach`) and that other controllers let a PV without finalizers go,
`AccessibilityRequirements` that the claim is retried and the scheduler chooses
again.  Users, Nodes and CSINodes are under no fairness.

## 6. What is proved

Every safety property that a passing run checks.  The theorems are about the specification
without its fairness and hold for all constants that satisfy the module's `ASSUME`:
any set of claims, nodes, labels, segments, classes or objects, any bound on
changes, crashes and undelivered events.

| module | theorem | property | environment |
|---|---|---|---|
| `ProvisionController` | `TypeCorrect` | `TypeOK` | any |
| | `InProgressNotForgotten` | `InProgressIsQueued` | any |
| | `PVsAreBacked` | `PVBacked` | any |
| | `NothingLeaks` | `NoLeak` | `StableEnv` |
| | `RescheduleWhenIdle` | `RescheduleOnlyWhenIdle` | `StableEnv` |
| | `OldClaimsUnused` | `NoOperationOnOldClaim` | `StableEnv` |
| | `FinishedMeansFinal` | `FinishedIsFinal` | `StableEnv` |
| `VolumeLifecycle` | `LifecycleTypeCorrect` | `LifecycleTypeOK` | any |
| | `LivingClaimIsSafe` | `LivingClaimKeepsVolume` | any |
| `VolumeDeletion` | `NoOrphan` | `NothingOrphaned` | any |
| | `RetainIsKept` | `RetainKept` | any |
| | `AttachedIsKept` | `AttachedNotDeleted` | any |
| `SnapshotProtection` | `SourceIsKept` | `SourceStays` | any |
| `CloneProtection` | `CloneSourceIsKept` | `SourceStays` | any |
| `NodeOwnership` | `AtMostOneVolume` | `OneVolume` | any |
| | `OwnerIsKept` | `OwnerKept` | any |
| `CapacityController` | `TypeCorrect` | `TypeOK` | any |
| | `ItemsAreComplete` | `ItemsComplete` | any |
| `NodeTopology` | `InformerTypeCorrect` | `TypeOK` | any |
| | `SafelyImplementsInformer` | safety part of `ImplementsInformer` | any |
| `AccessibilityRequirements` | `TypeCorrect` | `TypeOK` | any |
| | `RetriesAskTheSame` | `RetrySame` | any |
| | `SelectedNodeFirst` | `SelectedFirst` | any |
| | `ProvisionedVolumeUsable` | `VolumeUsable` | any |
| | `NodesAggregatedOnce` | `EachNodeOnce` | any |
| | `AllowedTopologiesOnly` | `OnlyAllowed` | any |
| | `ReplicasSpread` | `RoundRobin` | any |
| `Topology` | `SubsetCorrect` | `subset` is inclusion | |
| | `FlattenDistributes` | `flatten` makes every choice of values | |

The other modules also have a `TypeCorrect`, about a `TypeOK` that is not among the
runs, and all have a theorem that their inductive invariant holds.  `StableEnv` excludes
the faults "touch", "config" and "crash", under which the property fails, as section 4
explains and as TLC confirms.  Every inductive invariant below was an invariant of
the module's run before it was proved; for `ProvisionController` and
`VolumeLifecycle` of runs with and without custom PV names.

### ProvisionController

`NoLeak` is not inductive.  It holds because an attempt never ends in a way that
forgets the claim while storage is `Allocated`, and this depends on what the
worker has in hand.  `LeakInv` adds, for each claim:

* `Ordered`: the cached claim, the undelivered events and the API server's
  claim follow each other as a claim's versions may;
* `Current`: what a worker has in hand, and what `claimsInProgress` remembers, is
  as new as the cache unless the claim is bound or gone;
* `HasPV`: a bound claim, or a PV in the cache, means that the PV is there;
* `Driver`: storage is allocated for valid claims only;
* `Secured(c)` implies a good volume: a PV is saved or about to be;
* `Tracked`: storage that is not yet secured belongs to the running call or to a
  claim in progress, its topology is still in `pvcNodeStore`, and the worker is
  not rescheduling.

The proof is per claim (`ClaimInv`): a step of one claim leaves the others'
variables alone (`Same`, `FrameEnvironment`, `FrameWorker`, `SameInv`) and
keeps its own invariant (`InvEnvironment`, `InvWorker`).  The action properties
follow from `LeakInv` at the one action that could break each of them.

### VolumeLifecycle

`LivingClaimIsSafe` rests on `KeptInv`: until the claim is gone its PV is bound
exactly if the claim is, no cache shows another phase, and the volume worker has
nothing to do with it.  It needs nothing about the claim worker but that PVs are
`Backed`, hence no restriction of the environment.

### VolumeDeletion

One invariant for each property.  `RetainInv`: when the policy was Retain at the
release, every cache that shows the release shows Retain, and no worker is past
`shouldDelete`.  `AttachInv`: no attachment is made after the release, so a cache
that had one then has it until it is gone.  `FinalizerInv`: only the PV's own node gets to
`DeleteVolume`, past it the volume is gone, and nothing else takes the
finalizer from a PV whose policy has always been Delete.  `BoundInv`: before the
release no cache is ahead and no worker is deleting.

### SnapshotProtection and CloneProtection

Both proofs reduce the safety of the source to: who relies on the finalizer finds
it there (`FinalizerInv`, `SourceInv`).  For snapshots the danger is the sweep, and
`ListedInv` says that while no claim is done, a snapshot with finalizer has a
claim in the cache that is pending, so that the sweep does not take it
for an orphan; `DoneInv` says that only a claim with a volume removes it.  For
clones the danger is `syncClaim`: when it is about to remove the finalizer no clone
it can see is being worked on, nor will be, because the cache shows
the deletion of the source and `getPVCSource` refuses it (`Quiet`).  `SourceInv` says
nothing of which copies are the latest version: the safety of the source does not
rest on the API server's refusal of updates of old ones.

### NodeOwnership

`OneVolume` and `OwnerKept` hold as long as nobody else updates the claim
(`Touched`).  `OwnerInv`: a node that has, may get or works towards a volume is the
one that the version `Decided` (the last before the deletion) names, and it has
been sent that version.  `SelfInv` makes this inductive: a version that
names a node and that it has not been sent is the deciding one, and so is the one in
its cache if it names the node; a version that it is about to store there after a
reschedule names none.  So an old copy never tells a node that it is
selected; at most that another one is.

### CapacityController

`Init` is a process that starts with any segments, classes and left-over objects;
`MCCapacityController` starts from some of these.  `CoverInv` says of each segment
and class of the informers that there is an item, or the callback (or
`prepare`) has yet to add the segment and knows of the class then
(`ByTopology`), or the class handler has yet to add the class and knows of
the segment then (`ByClass`).  Two facts keep removals from breaking it: a segment
that is removed never comes back at the same address (`RemovedInv`), and a class
that is there although its deletion has yet to be handled was added again, which
is handled later (`DeleteInv`).  `PointerInv`, the interesting part of
`TypeOK`, holds because labels and class of an object are only written when
nothing refers to it.

### NodeTopology

`Books` relates the list, what the client has been told and the variables of
`sync` at each of its points: between syncs the client knows the list, during a
sync the new list is what was kept and added, and before the callback the client
lacks exactly the difference.  The refinement maps storing the list to a change
of the interface, the callback to its callback, and every other step to a stutter.

### Topology

The proofs are about terms of any size, so they need induction over data.  The
provers cannot use the library's induction rules, which have an operator as a
parameter, but its theorem that `<` on the naturals is well-founded is about sets:
`LeastNatural`, `Induction` and `UpTo` follow from it, for sets of numbers.
`FoldExists` then says that a loop over a slice of any length has a result, which is
what the `CHOOSE` in the community modules' fold needs, and gives the states of the
loop as a function of the number of iterations.

`Ranks` shows that in a strict linear order on a finite set the numbers of elements
before others are 0, 1, 2, ...  With it `SortTerm` and `SortTermsEnumerates` show that
`sort` and `SortTerms` list every element once; that `compare` is such an order is
`CompareOrder`.

`SubsetCorrect` is about the loop of `subset`, which walks two sorted terms side by
side.  Sound (`SubsetSound`): what it has passed is in the other term.  Complete
(`SubsetComplete`): if the first term is included, the segment looked for is never
behind the walk.  Here the second term must have one value for each key, as a
node's labels have; with two the loop would stop at the first difference.

`FlattenDistributes` says which terms `flatten` returns.  The invariant of its loop is
that the terms so far are the choices of values for the expressions so far
(`Picked`).  Since the code takes "no terms so far" for the first expression, this
needs that expressions have values, which the API server requires.

### AccessibilityRequirements

The assumptions: nodes are finitely many, labels are finite sets of pairs, an
expression has at least one and finitely many values, hashes fit into `W` bits,
and `none` is none of the values it is to be told from.

`Entry`: the parts of the entry in `pvcNodeStore` are stored in order, and a claim that
is to be rescheduled has none.  `Asked` is what makes retries ask for the same.
`Determined(r)` says that the entry is `Complete`, that is it has everything the
requirements are made from, and that they are `r`.  What is being prepared and what
has been sent are both determined, so they are equal; nothing but the end of the call
removes from the entry, and a complete entry is not added to (`StoredSame`).  So the
informers are not read at all, which is why their changes do not matter.

`AnswerShape` says what the requirements look like: `requisite` lists the terms once,
`preferred` is a rotation of it, and its first is included in the selected
node's topology.  `Kept`: what the entry says of a node's labels is still true unless
labels change or go.  `Usable`: so the affinity of a provisioned volume holds for the
node.  `FirstRead`: before any change the entry says what the informers say, hence
`NodesAggregatedOnce`.  `Compared`: with strict topology the node's topology has been
compared with the allowed ones.  `ReplicasSpread` needs only that consecutive numbers
have all the remainders.

### Only model-checked

Liveness, that is the properties `Eventually...`, `DeletedClaimIsResolved`,
`FinalizerNotLeftBehind`, `SourceReleased` and the fairness conjunct of
`ImplementsInformer`: out of the prover's reach.

## 7. What is not modelled

* Parameters, templates of secrets' names, data sources and ReferenceGrants: pure
  checks, which appear as outcomes of `prepareProvision`.  Their definitions would
  repeat the code.
* Leader election, flags and start-up (`cmd/`): wiring.  Owner references
  (`pkg/owner`): a walk without state.  Metrics, events, logs.
* Secrets of deletion: `VolumeDeletion` has no property that tells them apart.  A PV
  without the annotations is deleted with the secret that its class names by then.
* Updates of the API server that take effect although the client gets an error, except
  for creating capacity objects.
* The fixed topology of a node deployment (`mock.go`) never changes.
* In `CapacityController`: storage classes that are ignored because they bind
  immediately (they never become items), owner references of the objects,
  retries of deletions that fail (they stay queued).
* In `VolumeDeletion`: PVs of other provisioners and in-tree PVs, which conditions
  without state exclude; the option to run without finalizer; drivers without
  attachments, for which `canDeleteVolume` has nothing to check.
* In `NodeOwnership`: the length of delays; a claim that is replaced by one of the
  same name.
* In `AccessibilityRequirements`: a restart, after which requirements may
  differ from those of a call that is still running; the order of keys within a
  CSINode, which `sync` of the node topology sorts in place.
