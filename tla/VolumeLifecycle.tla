------------------------- MODULE VolumeLifecycle -------------------------
(***************************************************************************)
(* The whole life of a dynamically provisioned volume: provisioning, as in *)
(* ProvisionController, and deletion by the volume worker of the library   *)
(* once the PV has been released.  Both workers may be busy with the same  *)
(* claim's volume: they use different queues.                              *)
(*                                                                         *)
(* PV states beyond "bound": "released"; "terminating", deletionTimestamp  *)
(* is set and finalizerPV is still there; "finalized", finalizerPV has     *)
(* been removed and other finalizers are left.                             *)
(***************************************************************************)
EXTENDS ProvisionController

VARIABLES
    volumeQueue, \* PVs in the volume work queue, by claim
    vpc,         \* where the worker of a PV is
    finalizerPV, \* API server: PVs that have this finalizer
    restarted    \* history: the process has been restarted

lifecycleVars == <<vars, volumeQueue, vpc, finalizerPV, restarted>>

VPCState == {"idle", "delete", "deletepv", "finalizer"}

LifecycleTypeOK ==
    /\ TypeOK
    /\ volumeQueue \in SUBSET Claims
    /\ vpc \in [Claims -> VPCState]
    /\ finalizerPV \in SUBSET Claims
    /\ restarted \in BOOLEAN

LifecycleInit ==
    /\ Init
    /\ volumeQueue = {}
    /\ vpc = [c \in Claims |-> "idle"]
    /\ finalizerPV = {}
    /\ restarted = FALSE

-----------------------------------------------------------------------------
\* A step of ProvisionController.  PVs are created with finalizerPV, and
\* volumeHandler enqueues those the informer adds or updates.
Provision ==
    /\ \E c \in Claims : Environment(c) \/ Worker(c)
    /\ volumeQueue' = volumeQueue \cup
           {c \in Claims : volumes'[c] \notin {volumes[c], "none"}}
    /\ finalizerPV' = finalizerPV \cup
           {c \in Claims : pv[c] = "none" /\ pv'[c] # "none"}
    /\ UNCHANGED <<vpc, restarted>>

\* A new process lists, and so enqueues, all PVs.
RestartAll ==
    /\ Restart
    /\ volumeQueue' = {c \in Claims : pv[c] # "none"}
    /\ vpc' = [c \in Claims |-> "idle"]
    /\ restarted' = TRUE
    /\ UNCHANGED finalizerPV

\* The PV controller notices that the claim is gone.
Release(c) ==
    /\ pv[c] \in {"available", "bound"}
    /\ claim[c] = "gone"
    /\ pv' = [pv EXCEPT ![c] = "released"]
    /\ UNCHANGED <<apiVars, claimsIndexer, memVars, workerVars, pvcNodeStore,
                   csiNode, valid, driverVars, volumes, unsaved, volumeQueue,
                   vpc, finalizerPV, restarted>>

\* Other controllers remove their finalizers and the PV disappears.
Disappear(c) ==
    /\ pv[c] = "finalized"
    /\ pv' = [pv EXCEPT ![c] = "none"]
    /\ UNCHANGED <<apiVars, claimsIndexer, memVars, workerVars, pvcNodeStore,
                   csiNode, valid, driverVars, volumes, unsaved, volumeQueue,
                   vpc, finalizerPV, restarted>>

\* The periodic resync enqueues what the cache has.
ResyncVolume(c) ==
    /\ volumes[c] # "none"
    /\ volumeQueue' = volumeQueue \cup {c}
    /\ UNCHANGED <<vars, vpc, finalizerPV, restarted>>

-----------------------------------------------------------------------------
\* Deletion is due for a released PV with reclaim policy Delete, unless the
\* finalizer shows that it has been done.
shouldDeleteAnyPhase(object) == object \notin {"none", "finalized"}

shouldDelete(object) == object \in {"released", "terminating"}

\* handleProtectionFinalizer has nothing to add to a bound PV: it was created
\* with finalizerPV and only loses it after it has been released.
SyncVolume(c) ==
    /\ c \in volumeQueue
    /\ vpc[c] = "idle"
    /\ volumeQueue' = volumeQueue \ {c}
    /\ vpc' = [vpc EXCEPT ![c] =
                  IF shouldDelete(volumes[c]) THEN "delete" ELSE "idle"]
    /\ UNCHANGED <<vars, finalizerPV, restarted>>

EndVolumeSyncForgets(c, err) ==
    /\ vpc' = [vpc EXCEPT ![c] = "idle"]
    /\ UNCHANGED volumeQueue

\* An error puts the PV back into the queue, there is no failure threshold.
EndVolumeSync(c, err) ==
    /\ vpc' = [vpc EXCEPT ![c] = "idle"]
    /\ volumeQueue' = IF err = "error" THEN volumeQueue \cup {c}
                                       ELSE volumeQueue

\* csiProvisioner.Delete reaches the driver, which is not busy with the volume.
DeleteVolume(c) ==
    /\ vpc[c] = "delete"
    /\ c \notin creating
    /\ vol' = [vol EXCEPT ![c] = "none"]
    /\ vpc' = [vpc EXCEPT ![c] = "deletepv"]
    /\ UNCHANGED <<apiVars, claimsIndexer, memVars, workerVars, pvcNodeStore,
                   csiNode, valid, creating, pvVars, volumeQueue,
                   finalizerPV, restarted>>

\* The volume is still attached, a secret is missing, or DeleteVolume fails;
\* if it timed out the volume may be gone nevertheless.
DeleteVolumeFails(c) ==
    /\ vpc[c] = "delete"
    /\ \/ UNCHANGED vol
       \/ c \notin creating /\ vol' = [vol EXCEPT ![c] = "none"]
    /\ EndVolumeSync(c, "error")
    /\ UNCHANGED <<apiVars, claimsIndexer, memVars, workerVars, pvcNodeStore,
                   csiNode, valid, creating, pvVars, finalizerPV, restarted>>

\* The PV is deleted by name.  It stays while it has finalizers.
DeletePV(c) ==
    /\ vpc[c] = "deletepv"
    /\ pv[c] # "none"
    /\ pv' = [pv EXCEPT ![c] = IF c \in finalizerPV THEN "terminating"
                                                 ELSE "finalized"]
    /\ vpc' = [vpc EXCEPT ![c] = "finalizer"]
    /\ UNCHANGED <<apiVars, claimsIndexer, memVars, workerVars, pvcNodeStore,
                   csiNode, valid, driverVars, volumes, unsaved, volumeQueue,
                   finalizerPV, restarted>>

\* The PV is not found, or the API server cannot be reached.
DeletePVFails(c) ==
    /\ vpc[c] = "deletepv"
    /\ EndVolumeSync(c, "error")
    /\ UNCHANGED <<vars, finalizerPV, restarted>>

\* The cached PV has the finalizer.
HasFinalizer(object) == object \notin {"none", "finalized"}

\* The finalizer is removed by a patch computed from the cached object, which
\* takes effect on whatever PV of that name there is.
RemoveFinalizer(c) ==
    /\ vpc[c] = "finalizer"
    /\ IF HasFinalizer(volumes[c])
       THEN /\ finalizerPV' = finalizerPV \ {c}
            /\ pv' = [pv EXCEPT ![c] =
                         IF @ = "terminating" THEN "finalized" ELSE @]
       ELSE UNCHANGED <<finalizerPV, pv>>
    /\ EndVolumeSync(c, "nil")
    /\ UNCHANGED <<apiVars, claimsIndexer, memVars, workerVars, pvcNodeStore,
                   csiNode, valid, driverVars, volumes, unsaved, restarted>>

RemoveFinalizerFails(c) ==
    /\ vpc[c] = "finalizer"
    /\ HasFinalizer(volumes[c]) /\ pv[c] # "none"
    /\ EndVolumeSync(c, "error")
    /\ UNCHANGED <<vars, finalizerPV, restarted>>

Deletion(c) ==
    \/ Release(c) \/ Disappear(c) \/ ResyncVolume(c) \/ SyncVolume(c)
    \/ DeleteVolume(c) \/ DeleteVolumeFails(c)
    \/ DeletePV(c) \/ DeletePVFails(c)
    \/ RemoveFinalizer(c) \/ RemoveFinalizerFails(c)

LifecycleNext == Provision \/ RestartAll \/ \E c \in Claims : Deletion(c)

LifecycleSpec == LifecycleInit /\ [][LifecycleNext]_lifecycleVars

-----------------------------------------------------------------------------
\* The volume of a living claim is safe from the volume worker: it only acts
\* on PVs it has seen released, and a claim, once bound, keeps its PV and a
\* volume that satisfies it until the claim is deleted.
LivingClaimKeepsVolume ==
    \A c \in Claims :
        /\ claim[c] = "bound" => pv[c] = "bound" /\ vol[c] = "good"
        /\ claim[c] \in Unbound => pv[c] \in {"none", "available"}
        /\ claim[c] \in Unbound /\ pv[c] = "available" => vol[c] = "good"

\* shouldDelete takes a PV without finalizerPV that is being deleted for one
\* whose "volume has been already deleted": with no attempt to provision going
\* on, its volume is gone.
FinalizedHasNoVolume ==
    \A c \in Claims :
        /\ pv[c] = "finalized"
        /\ pc[c] = "idle" /\ claimsInProgress[c] = "none" /\ c \notin unsaved
        => vol[c] = "none"

DeletionFairness(c) ==
    /\ WF_lifecycleVars(Release(c)) /\ WF_lifecycleVars(Disappear(c))
    /\ WF_lifecycleVars(SyncVolume(c))
    /\ WF_lifecycleVars(DeleteVolumeFails(c))
    /\ WF_lifecycleVars(DeletePVFails(c))
    /\ WF_lifecycleVars(RemoveFinalizer(c))
    /\ SF_lifecycleVars(DeleteVolume(c)) /\ SF_lifecycleVars(DeletePV(c))
    /\ SF_lifecycleVars(RemoveFinalizer(c))

LifecycleFairSpec ==
    LifecycleSpec /\ \A c \in Claims : Fairness(c) /\ DeletionFairness(c)

\* An attempt to provision c may still call CreateVolume or save a PV.
Provisioning(c) == pc[c] \in {"prepare", "create", "store"} \/ c \in unsaved

\* Nothing is left of a deleted claim in the end: no PV, no volume, and no
\* CreateVolume that could still produce one.  The process is not restarted,
\* and no attempt made on stale caches goes on once the PV has been released.
EventuallyCleaned ==
    \A c \in Claims :
        /\ []~restarted
        /\ [](pv[c] = "released" => []~Provisioning(c))
        => (claim[c] = "gone" ~> [](pv[c] = "none" /\ ~Allocated(c)))
=============================================================================
