------------------------ MODULE SnapshotProtection ------------------------
(***************************************************************************)
(* Restoring volumes from one VolumeSnapshot.  prepareProvision puts the   *)
(* finalizer snapshotSourceProtectionFinalizer on the snapshot before it   *)
(* calls CreateVolume; a successful Provision removes it, and the          *)
(* SnapshotFinalizerController sweeps snapshots on which it was left.      *)
(*                                                                         *)
(* All of them read the snapshot, decide, and update the copy they read:   *)
(* the API server refuses the update of a copy which is not the latest.    *)
(* Only that matters of a copy, so there is the set "fresh" of readers     *)
(* with the latest version, emptied by each change of the snapshot.        *)
(***************************************************************************)
EXTENDS Naturals

CONSTANTS
    Claims,      \* claims that have the snapshot as data source
    RefOnly,     \* those of them with a DataSourceRef and no DataSource
    Env,         \* faults: "delete", "timeout", "forbidden", "nosweep"
    MaxRestarts  \* bound on crashes of the process

ASSUME SnapshotAssumption ==
    /\ RefOnly \subseteq Claims
    /\ MaxRestarts \in Nat

VARIABLES
    claim,          \* API server: phase of the claim
    claimLister,    \* the claim informer's copy
    snapshot,       \* API server: "live", "deleting" or "gone"
    finalizer,      \* API server: the finalizer is on the snapshot
    snapshotStore,  \* the snapshot informer's copy shows the finalizer
    pc,             \* where the worker of a claim is
    fresh,          \* whose copy of the snapshot is the latest version: the
                    \* informer's ("store"), the sweep's, a worker's
    inProgress,     \* claims with an earlier attempt that is not final
    creating,       \* the driver works on CreateVolume for the claim
    vol,            \* claims with a volume in the storage system
    saved,          \* claims with a PV on the API server
    sweep,          \* where the sweep is
    permitted,      \* the process may update snapshots
    sweeping,       \* it may list them, and the sweep is enabled
    restarts

claimVars == <<claim, claimLister>>
runVars == <<permitted, sweeping, restarts>>
snapVars == <<snapshot, finalizer, fresh>>
driverVars == <<creating, vol>>
workerVars == <<pc, inProgress, saved>>
vars == <<claimVars, snapVars, snapshotStore, driverVars, workerVars, sweep,
          runVars>>

Phase == {"none", "pending", "bound", "gone"}
PCState == {"idle", "set", "update", "create", "call", "remove",
            "removeUpdate", "save"}

TypeOK ==
    /\ claim \in [Claims -> Phase] /\ claimLister \in [Claims -> Phase]
    /\ snapshot \in {"live", "deleting", "gone"}
    /\ finalizer \in BOOLEAN /\ (snapshot = "gone" => ~finalizer)
    /\ snapshotStore \in BOOLEAN
    /\ fresh \subseteq Claims \cup {"store", "sweep"}
    /\ pc \in [Claims -> PCState]
    /\ inProgress \in SUBSET Claims
    /\ creating \in SUBSET Claims /\ vol \in SUBSET Claims
    /\ saved \in SUBSET Claims
    /\ sweep \in {"idle", "listed", "orphan"}
    /\ permitted \in BOOLEAN /\ sweeping \in BOOLEAN
    /\ restarts \in 0 .. MaxRestarts

Init ==
    /\ claim = [c \in Claims |-> "none"] /\ claimLister = claim
    /\ snapshot = "live" /\ finalizer = FALSE
    /\ snapshotStore = FALSE /\ fresh = {"store"}
    /\ pc = [c \in Claims |-> "idle"]
    /\ inProgress = {} /\ creating = {} /\ vol = {} /\ saved = {}
    /\ sweep = "idle"
    /\ permitted \in {TRUE, "forbidden" \notin Env}
    /\ sweeping \in {TRUE, "nosweep" \notin Env}
    /\ restarts = 0

Goto(c, label) == pc' = [pc EXCEPT ![c] = label]

\* The snapshot changes on the API server: all copies become old.
SetSnapshot(state, hasFinalizer) ==
    /\ snapshot' = state /\ finalizer' = hasFinalizer /\ fresh' = {}

-----------------------------------------------------------------------------
(* Users, the API server, other controllers and the watches.               *)

SetClaim(c, from, to) ==
    /\ claim[c] \in from
    /\ claim' = [claim EXCEPT ![c] = to]
    /\ UNCHANGED <<claimLister, snapVars, snapshotStore, driverVars,
                   workerVars, sweep, runVars>>

CreateClaim(c) == SetClaim(c, {"none"}, "pending")

\* A claim that no pod uses disappears at once, also during provisioning.
DeleteClaim(c) == "delete" \in Env /\ SetClaim(c, {"pending", "bound"}, "gone")

\* The PV controller binds claim and PV.
BindClaim(c) == c \in saved /\ SetClaim(c, {"pending"}, "bound")

DeliverClaim(c) ==
    /\ claimLister[c] # claim[c]
    /\ claimLister' = [claimLister EXCEPT ![c] = claim[c]]
    /\ UNCHANGED <<claim, snapVars, snapshotStore, driverVars, workerVars,
                   sweep, runVars>>

DeleteSnapshot ==
    /\ snapshot = "live"
    /\ SetSnapshot("deleting", finalizer)
    /\ UNCHANGED <<claimVars, snapshotStore, driverVars, workerVars, sweep,
                   runVars>>

\* The last finalizer has been removed: there may be others that the
\* external-snapshotter manages.
SnapshotGone ==
    /\ snapshot = "deleting" /\ ~finalizer
    /\ SetSnapshot("gone", FALSE)
    /\ UNCHANGED <<claimVars, snapshotStore, driverVars, workerVars, sweep,
                   runVars>>

DeliverSnapshot ==
    /\ "store" \notin fresh
    /\ fresh' = fresh \cup {"store"}
    /\ snapshotStore' = finalizer
    /\ UNCHANGED <<claimVars, snapshot, finalizer, driverVars, workerVars,
                   sweep, runVars>>

\* CreateVolume ends in the driver after the caller has given up.
DriverEnds(c) ==
    /\ c \in creating /\ pc[c] # "call"
    /\ creating' = creating \ {c}
    /\ vol' \in {vol, vol \cup {c}}
    /\ UNCHANGED <<claimVars, snapVars, snapshotStore, workerVars, sweep,
                   runVars>>

-----------------------------------------------------------------------------
(* The provisioning of one claim.                                          *)

\* getSnapshotSource reads the snapshot from the API server.  It accepts a
\* snapshot that is being deleted only if it has the finalizer, and otherwise
\* fails: the claim is tried again.
getSnapshotSource(c) ==
    /\ pc[c] = "idle"
    /\ c \notin saved
    /\ claimLister[c] = "pending" \/ c \in inProgress
    /\ snapshot = "live" \/ (snapshot = "deleting" /\ finalizer)
    /\ Goto(c, "set")
    /\ UNCHANGED <<claimVars, snapVars, snapshotStore, driverVars, inProgress,
                   saved, sweep, runVars>>

\* setSnapshotFinalizer reads the snapshot once more.
setSnapshotFinalizer(c) ==
    /\ pc[c] = "set"
    /\ \/ /\ snapshot = "gone"
          /\ Goto(c, "idle")
          /\ UNCHANGED fresh
       \/ /\ snapshot # "gone" /\ finalizer
          /\ Goto(c, "create")
          /\ UNCHANGED fresh
       \/ /\ snapshot # "gone" /\ ~finalizer
          /\ Goto(c, "update")
          /\ fresh' = fresh \cup {c}
    /\ UNCHANGED <<claimVars, snapshot, finalizer, snapshotStore, driverVars,
                   inProgress, saved, sweep, runVars>>

\* The API server refuses an old copy, and a new finalizer on a snapshot that
\* is being deleted; without the permission provisioning goes on.
UpdateFinalizer(c) ==
    /\ pc[c] = "update"
    /\ \/ /\ permitted /\ c \in fresh /\ snapshot = "live"
          /\ SetSnapshot(snapshot, TRUE)
          /\ Goto(c, "create")
       \/ /\ permitted /\ ~(c \in fresh /\ snapshot = "live")
          /\ Goto(c, "idle")
          /\ UNCHANGED snapVars
       \/ /\ ~permitted
          /\ Goto(c, "create")
          /\ UNCHANGED snapVars
    /\ UNCHANGED <<claimVars, snapshotStore, driverVars, inProgress,
                   saved, sweep, runVars>>

\* The rest of prepareProvision, which may fail, and the call.
CreateVolume(c) ==
    /\ pc[c] = "create"
    /\ \/ Goto(c, "idle") /\ UNCHANGED creating
       \/ Goto(c, "call") /\ creating' = creating \cup {c}
    /\ UNCHANGED <<claimVars, snapVars, snapshotStore, vol, inProgress, saved,
                   sweep, runVars>>

\* CreateVolume succeeds, or fails with a final error: no volume was created.
CreateVolumeEnds(c) ==
    /\ pc[c] = "call"
    /\ creating' = creating \ {c}
    /\ \/ /\ vol' = vol \cup {c}
          /\ Goto(c, IF c \in RefOnly THEN "save" ELSE "remove")
          /\ UNCHANGED inProgress
       \/ /\ c \notin vol
          /\ Goto(c, "idle")
          /\ inProgress' = inProgress \ {c}
          /\ UNCHANGED vol
    /\ UNCHANGED <<claimVars, snapVars, snapshotStore, saved, sweep, runVars>>

\* CreateVolume times out and is retried later.
CreateVolumeTimesOut(c) ==
    /\ "timeout" \in Env
    /\ pc[c] = "call"
    /\ Goto(c, "idle")
    /\ inProgress' = inProgress \cup {c}
    /\ UNCHANGED <<claimVars, snapVars, snapshotStore, driverVars, saved,
                   sweep, runVars>>

\* After success removeSnapshotFinalizer reads the snapshot.
removeSnapshotFinalizer(c) ==
    /\ pc[c] = "remove"
    /\ IF finalizer
       THEN /\ Goto(c, "removeUpdate")
            /\ fresh' = fresh \cup {c}
       ELSE Goto(c, "save") /\ UNCHANGED fresh
    /\ UNCHANGED <<claimVars, snapshot, finalizer, snapshotStore, driverVars,
                   inProgress, saved, sweep, runVars>>

\* Its update may fail, which does not fail Provision.
UpdateRemoved(c) ==
    /\ pc[c] = "removeUpdate"
    /\ Goto(c, "save")
    /\ \/ /\ c \in fresh
          /\ SetSnapshot(snapshot, FALSE)
       \/ UNCHANGED snapVars
    /\ UNCHANGED <<claimVars, snapshotStore, driverVars, inProgress,
                   saved, sweep, runVars>>

\* The library stores the PV.
SavePV(c) ==
    /\ pc[c] = "save"
    /\ saved' = saved \cup {c}
    /\ inProgress' = inProgress \ {c}
    /\ Goto(c, "idle")
    /\ UNCHANGED <<claimVars, snapVars, snapshotStore, driverVars, sweep,
                   runVars>>

-----------------------------------------------------------------------------
(* SnapshotFinalizerController.                                            *)

\* There is no sweep without the permission to list snapshots.  Those without
\* the finalizer are skipped.
ListSnapshots ==
    /\ sweeping /\ sweep = "idle"
    /\ snapshotStore
    /\ sweep' = "listed"
    /\ fresh' = IF "store" \in fresh THEN fresh \cup {"sweep"} ELSE fresh
    /\ UNCHANGED <<claimVars, snapshot, finalizer, snapshotStore, driverVars,
                   workerVars, runVars>>

PendingUntilDeleted == {c \in Claims : claimLister[c] \in {"pending", "bound"}}

\* Claims whose provisioning is not complete keep the finalizer in place.
\* isSnapshotSourcePVC and snapshotNameFromPVC find the claims of RefOnly too.
pendingSnapshots == {c \in Claims : claimLister[c] = "pending"}

\* The claims are listed after the snapshots.
buildPendingSnapshotIndex ==
    /\ sweep = "listed"
    /\ sweep' = IF pendingSnapshots = {} THEN "orphan" ELSE "idle"
    /\ UNCHANGED <<claimVars, snapVars, snapshotStore, driverVars, workerVars,
                   runVars>>

\* The update is made with the informer's copy; a failed one is left to the
\* next sweep.
SweepRemoves ==
    /\ sweep = "orphan"
    /\ sweep' = "idle"
    /\ \/ /\ "sweep" \in fresh
          /\ SetSnapshot(snapshot, FALSE)
       \/ /\ "sweep" \notin fresh
          /\ UNCHANGED snapVars
    /\ UNCHANGED <<claimVars, snapshotStore, driverVars, workerVars,
                   runVars>>

\* The process crashes; the next one waits until its caches are filled.
Restart ==
    /\ restarts < MaxRestarts
    /\ restarts' = restarts + 1
    /\ claimLister' = claim
    /\ snapshotStore' = finalizer /\ fresh' = {"store"}
    /\ pc' = [c \in Claims |-> "idle"]
    /\ inProgress' = {}
    /\ sweep' = "idle"
    /\ UNCHANGED <<claim, snapshot, finalizer, driverVars, saved, permitted,
                   sweeping>>

-----------------------------------------------------------------------------
Worker(c) ==
    \/ getSnapshotSource(c) \/ setSnapshotFinalizer(c) \/ UpdateFinalizer(c)
    \/ CreateVolume(c) \/ CreateVolumeEnds(c) \/ CreateVolumeTimesOut(c)
    \/ removeSnapshotFinalizer(c) \/ UpdateRemoved(c) \/ SavePV(c)

SweepIndexesFirst ==
    /\ \/ /\ sweeping /\ sweep = "idle" /\ pendingSnapshots = {}
          /\ sweep' = "listed"
          /\ UNCHANGED snapVars
       \/ /\ sweep = "listed"
          /\ sweep' = IF snapshotStore THEN "orphan" ELSE "idle"
          /\ fresh' = IF "store" \in fresh THEN fresh \cup {"sweep"} ELSE fresh
          /\ UNCHANGED <<snapshot, finalizer>>
       \/ /\ sweep = "orphan" /\ sweep' = "idle"
          /\ IF "sweep" \in fresh
             THEN SetSnapshot(snapshot, FALSE)
             ELSE UNCHANGED snapVars
    /\ UNCHANGED <<claimVars, snapshotStore, driverVars, workerVars, runVars>>

\* sweepOrphanedFinalizers.
Sweep == ListSnapshots \/ buildPendingSnapshotIndex \/ SweepRemoves

Environment(c) ==
    \/ CreateClaim(c) \/ DeleteClaim(c) \/ BindClaim(c) \/ DeliverClaim(c)
    \/ DriverEnds(c)

Next ==
    \/ \E c \in Claims : Environment(c) \/ Worker(c)
    \/ DeleteSnapshot \/ SnapshotGone \/ DeliverSnapshot
    \/ Sweep
    \/ Restart

Spec == Init /\ [][Next]_vars

\* Watches deliver, workers and the periodic sweep run.  Nothing is assumed
\* of the outcome of a call, nor of users.
FairSpec ==
    /\ Spec
    /\ \A c \in Claims :
           WF_vars(DeliverClaim(c)) /\ WF_vars(BindClaim(c)) /\ WF_vars(Worker(c))
    /\ WF_vars(DeliverSnapshot)
    /\ WF_vars(Sweep)

-----------------------------------------------------------------------------
(* Properties.                                                             *)

\* The claim needs the snapshot: the driver reads it, or an attempt whose
\* outcome is unknown will be repeated.
Restoring(c) ==
    \/ c \in creating
    \/ c \in inProgress /\ pc[c] \notin {"remove", "removeUpdate", "save"}

\* While claims are being restored the snapshot stays, and a retry gets past
\* getSnapshotSource, whatever a user, the sweep, a crash or a timeout do in
\* between: setSnapshotFinalizer comes before CreateVolume, and the sweep lists
\* claims after snapshots.  It ends with the first claim that is done: a
\* restored one removes the finalizer without asking who else needs it, and
\* with one that is bound or deleted the sweep may find the finalizer orphaned
\* just before another claim finds it in place and does not update it.
SourceStays ==
    \A c \in Claims :
        /\ Restoring(c) /\ permitted
        /\ \A d \in Claims : claim[d] \in {"none", "pending"}
        /\ vol \ RefOnly \subseteq {c}
        => snapshot = "live" \/ finalizer

\* A finalizer that no claim needs any more is removed, by Provision or, if
\* that failed or did not know of it, by the sweep, if there is one.
Orphaned == finalizer /\ \A c \in Claims : claim[c] # "pending" /\ pc[c] = "idle"

FinalizerNotLeftBehind == sweeping /\ Orphaned ~> (~finalizer \/ ~Orphaned)
=============================================================================
