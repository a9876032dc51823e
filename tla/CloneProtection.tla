------------------------- MODULE CloneProtection -------------------------
(***************************************************************************)
(* Cloning one bound claim, the source.  prepareProvision puts the         *)
(* finalizer pvcCloneFinalizer on the source before it calls CreateVolume. *)
(* The CloningProtectionController removes it from a source that is being  *)
(* deleted, once no claim that names the source as DataSource is pending.  *)
(* Both take source and clones from the claim informer's cache, and the    *)
(* API server refuses the update of a copy that is not the latest: "fresh" *)
(* holds those whose copy is.                                              *)
(***************************************************************************)
EXTENDS Naturals

CONSTANTS
    Claims,      \* the clones
    RefOnly,     \* those with a DataSourceRef (of another namespace) only
    Env,         \* "delete": clones get deleted, "timeout": CreateVolume
                 \* times out
    MaxRestarts  \* bound on crashes of the process

ASSUME CloneAssumption ==
    /\ RefOnly \subseteq Claims
    /\ MaxRestarts \in Nat

VARIABLES
    claim, claimLister,            \* phase of a clone: API server, cache
    source, finalizer,             \* the source: state and finalizer
    sourceLister, finalizerLister, \* the cached source
    fresh,                         \* holders of the latest version
    claimQueue,                    \* the source is in the work queue
    sync,                          \* where syncClaim is
    pc, inProgress, creating, saved,
    restarts

cloneVars == <<claim, claimLister>>
sourceVars == <<source, finalizer, fresh>>
cacheVars == <<sourceLister, finalizerLister>>
syncVars == <<claimQueue, sync>>
workerVars == <<pc, inProgress, creating, saved>>
vars == <<cloneVars, sourceVars, cacheVars, syncVars, workerVars, restarts>>

Phase == {"none", "pending", "bound", "gone"}
SourceState == {"bound", "deleting", "gone"}

TypeOK ==
    /\ claim \in [Claims -> Phase] /\ claimLister \in [Claims -> Phase]
    /\ source \in SourceState /\ sourceLister \in SourceState
    /\ finalizer \in BOOLEAN /\ finalizerLister \in BOOLEAN
    /\ source = "gone" => ~finalizer
    /\ fresh \subseteq Claims \cup {"lister", "sync"}
    /\ claimQueue \in BOOLEAN /\ sync \in {"idle", "list", "update"}
    /\ pc \in [Claims -> {"idle", "set", "update", "create", "call", "save"}]
    /\ inProgress \in SUBSET Claims /\ creating \in SUBSET Claims
    /\ saved \in SUBSET Claims
    /\ restarts \in 0 .. MaxRestarts

Init ==
    /\ claim = [c \in Claims |-> "none"] /\ claimLister = claim
    /\ source = "bound" /\ finalizer = FALSE
    /\ sourceLister = source /\ finalizerLister = finalizer
    /\ fresh = {"lister"}
    /\ claimQueue = FALSE /\ sync = "idle"
    /\ pc = [c \in Claims |-> "idle"]
    /\ inProgress = {} /\ creating = {} /\ saved = {}
    /\ restarts = 0

Goto(c, label) == pc' = [pc EXCEPT ![c] = label]

SetSource(state, hasFinalizer) ==
    /\ source' = state /\ finalizer' = hasFinalizer /\ fresh' = {}

-----------------------------------------------------------------------------
(* Users, the API server, the PV controller, the watch and the driver.     *)

SetClaim(c, from, to) ==
    /\ claim[c] \in from
    /\ claim' = [claim EXCEPT ![c] = to]
    /\ UNCHANGED <<claimLister, sourceVars, cacheVars, syncVars, workerVars,
                   restarts>>

CreateClaim(c) == SetClaim(c, {"none"}, "pending")

DeleteClaim(c) == "delete" \in Env /\ SetClaim(c, {"pending", "bound"}, "gone")

BindClaim(c) == c \in saved /\ SetClaim(c, {"pending"}, "bound")

DeliverClaim(c) ==
    /\ claimLister[c] # claim[c]
    /\ claimLister' = [claimLister EXCEPT ![c] = claim[c]]
    /\ UNCHANGED <<claim, sourceVars, cacheVars, syncVars, workerVars,
                   restarts>>

DeleteSource ==
    /\ source = "bound"
    /\ SetSource("deleting", finalizer)
    /\ UNCHANGED <<cloneVars, cacheVars, syncVars, workerVars, restarts>>

SourceGone ==
    /\ source = "deleting" /\ ~finalizer
    /\ SetSource("gone", FALSE)
    /\ UNCHANGED <<cloneVars, cacheVars, syncVars, workerVars, restarts>>

\* The handler enqueues a source with a deletionTimestamp; there is no
\* handler for its disappearance.
enqueueClaimUpdate(state) == claimQueue' = (claimQueue \/ state = "deleting")

DeliverSource ==
    /\ "lister" \notin fresh
    /\ sourceLister' = source /\ finalizerLister' = finalizer
    /\ fresh' = fresh \cup {"lister"}
    /\ enqueueClaimUpdate(source)
    /\ UNCHANGED <<cloneVars, source, finalizer, sync, workerVars, restarts>>

\* CreateVolume ends in the driver after the caller has given up.
DriverEnds(c) ==
    /\ c \in creating /\ pc[c] # "call"
    /\ creating' = creating \ {c}
    /\ UNCHANGED <<cloneVars, sourceVars, cacheVars, syncVars, pc, inProgress,
                   saved, restarts>>

-----------------------------------------------------------------------------
(* The provisioning of one clone.                                          *)

\* getPVCSource takes the source from the cache and refuses one that is being
\* deleted.
getPVCSource(c) ==
    /\ pc[c] = "idle" /\ c \notin saved
    /\ claimLister[c] = "pending" \/ c \in inProgress
    /\ sourceLister = "bound"
    /\ Goto(c, "set")
    /\ UNCHANGED <<cloneVars, sourceVars, cacheVars, syncVars, inProgress,
                   creating, saved, restarts>>

\* setCloneFinalizer believes a cached source that shows the finalizer.
setCloneFinalizer(c) ==
    /\ pc[c] = "set"
    /\ Goto(c, CASE sourceLister = "gone" -> "idle"
                 [] sourceLister # "gone" /\ finalizerLister -> "create"
                 [] OTHER -> "update")
    /\ fresh' = IF "lister" \in fresh THEN fresh \cup {c} ELSE fresh
    /\ UNCHANGED <<cloneVars, source, finalizer, cacheVars, syncVars,
                   inProgress, creating, saved, restarts>>

\* An old copy is refused, and a new finalizer on a source that is being
\* deleted.
UpdateFinalizer(c) ==
    /\ pc[c] = "update"
    /\ IF c \in fresh /\ source = "bound"
       THEN SetSource(source, TRUE) /\ Goto(c, "create")
       ELSE UNCHANGED sourceVars /\ Goto(c, "idle")
    /\ UNCHANGED <<cloneVars, cacheVars, syncVars, inProgress, creating, saved,
                   restarts>>

\* The rest of prepareProvision may fail.
CreateVolume(c) ==
    /\ pc[c] = "create"
    /\ \/ Goto(c, "idle") /\ UNCHANGED creating
       \/ Goto(c, "call") /\ creating' = creating \cup {c}
    /\ UNCHANGED <<cloneVars, sourceVars, cacheVars, syncVars, inProgress,
                   saved, restarts>>

\* The call succeeds, fails with a final error, or times out.
CreateVolumeEnds(c) ==
    /\ pc[c] = "call"
    /\ \/ /\ Goto(c, "save")
          /\ creating' = creating \ {c}
          /\ UNCHANGED inProgress
       \/ /\ Goto(c, "idle")
          /\ creating' = creating \ {c}
          /\ inProgress' = inProgress \ {c}
       \/ /\ "timeout" \in Env
          /\ Goto(c, "idle")
          /\ inProgress' = inProgress \cup {c}
          /\ UNCHANGED creating
    /\ UNCHANGED <<cloneVars, sourceVars, cacheVars, syncVars, saved, restarts>>

SavePV(c) ==
    /\ pc[c] = "save"
    /\ saved' = saved \cup {c}
    /\ inProgress' = inProgress \ {c}
    /\ Goto(c, "idle")
    /\ UNCHANGED <<cloneVars, sourceVars, cacheVars, syncVars, creating,
                   restarts>>

-----------------------------------------------------------------------------
(* CloningProtectionController.                                            *)

\* The cached source; nothing is done if it is gone or has no finalizer.
syncClaimHandler ==
    /\ sync = "idle" /\ claimQueue
    /\ claimQueue' = FALSE
    /\ sync' = IF sourceLister # "gone" /\ finalizerLister THEN "list" ELSE "idle"
    /\ fresh' = IF "lister" \in fresh THEN fresh \cup {"sync"} ELSE fresh
    /\ UNCHANGED <<cloneVars, source, finalizer, cacheVars, workerVars,
                   restarts>>

\* The pending claims of the namespace whose DataSource is the source.
cloning == {c \in Claims \ RefOnly : claimLister[c] = "pending"}

SyncWithoutList ==
    /\ sync = "list"
    /\ sync' = "update"
    /\ UNCHANGED <<cloneVars, sourceVars, cacheVars, claimQueue, workerVars,
                   restarts>>

SyncForgets ==
    /\ sync = "list"
    /\ sync' = IF cloning = {} THEN "update" ELSE "idle"
    /\ UNCHANGED <<cloneVars, sourceVars, cacheVars, claimQueue, workerVars,
                   restarts>>

\* An error puts the source back into the queue.
syncClaim ==
    /\ sync = "list"
    /\ IF cloning = {}
       THEN sync' = "update" /\ UNCHANGED claimQueue
       ELSE sync' = "idle" /\ claimQueue' = TRUE
    /\ UNCHANGED <<cloneVars, sourceVars, cacheVars, workerVars, restarts>>

\* "Not found" is no error.
RemoveFinalizer ==
    /\ sync = "update"
    /\ sync' = "idle"
    /\ IF "sync" \in fresh
       THEN SetSource(source, FALSE) /\ UNCHANGED claimQueue
       ELSE UNCHANGED sourceVars /\ claimQueue' = (claimQueue \/ source # "gone")
    /\ UNCHANGED <<cloneVars, cacheVars, workerVars, restarts>>

\* A new process lists the claims: the source is enqueued if it is deleted.
Restart ==
    /\ restarts < MaxRestarts
    /\ restarts' = restarts + 1
    /\ claimLister' = claim
    /\ sourceLister' = source /\ finalizerLister' = finalizer
    /\ fresh' = {"lister"}
    /\ claimQueue' = (source = "deleting") /\ sync' = "idle"
    /\ pc' = [c \in Claims |-> "idle"] /\ inProgress' = {}
    /\ UNCHANGED <<claim, source, finalizer, creating, saved>>

-----------------------------------------------------------------------------
Worker(c) ==
    \/ getPVCSource(c) \/ setCloneFinalizer(c) \/ UpdateFinalizer(c)
    \/ CreateVolume(c) \/ CreateVolumeEnds(c) \/ SavePV(c)

Controller == syncClaimHandler \/ syncClaim \/ RemoveFinalizer

Environment(c) ==
    \/ CreateClaim(c) \/ DeleteClaim(c) \/ BindClaim(c) \/ DeliverClaim(c)
    \/ DriverEnds(c)

Next ==
    \/ \E c \in Claims : Environment(c) \/ Worker(c)
    \/ DeleteSource \/ SourceGone \/ DeliverSource
    \/ Controller
    \/ Restart

Spec == Init /\ [][Next]_vars

\* Watches deliver, workers run, and the work queue ends its delays.
FairSpec ==
    /\ Spec
    /\ \A c \in Claims : WF_vars(DeliverClaim(c)) /\ WF_vars(BindClaim(c))
                         /\ WF_vars(Worker(c))
    /\ WF_vars(DeliverSource)
    /\ WF_vars(Controller)

-----------------------------------------------------------------------------
(* Properties.                                                             *)

\* The driver reads the source, or the outcome of an earlier call is unknown.
Cloning(c) == c \in creating \/ (c \in inProgress /\ pc[c] # "save")

\* The source stays while it is being cloned, although clones and source are
\* checked in an old cache and a clone may skip the update because the cache
\* shows a finalizer: the finalizer is only removed after the cache shows the
\* deletion, and no claim that the cache does not show gets past getPVCSource.
\* What other clones do makes no difference.  syncClaim does not look for
\* clones in other namespaces and no longer sees deleted ones, so it does not
\* hold of those, although the driver may still read the source.
SourceStays ==
    \A c \in Claims \ RefOnly :
        Cloning(c) /\ claim[c] # "gone" => source # "gone"

\* A deleted source that no pending claim clones loses the finalizer, however
\* often the update of an old copy was refused.
SourceReleased ==
    (source = "deleting" /\ \A c \in Claims : claim[c] \in {"bound", "gone"})
        ~> ~finalizer
=============================================================================
