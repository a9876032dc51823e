------------------------ MODULE ProvisionController ------------------------
(***************************************************************************)
(* Dynamic provisioning of one volume per PersistentVolumeClaim: the claim *)
(* worker of the ProvisionController library, csiProvisioner.Provision,    *)
(* which it calls, the queue that saves PersistentVolumes, and what they   *)
(* work on: the API server, the claim and volume informers, and a CSI      *)
(* driver whose CreateVolume may go on after the call has timed out.       *)
(*                                                                         *)
(* A claim stands for one PVC object, that is, for one UID.  The work      *)
(* queue never hands out a key that is being processed, so every claim has *)
(* at most one worker and pc[c] is the point that worker has reached.      *)
(***************************************************************************)
EXTENDS Naturals, Sequences

CONSTANTS
    Claims,           \* the PVC objects, by UID
    SupportsTopology, \* the driver has VOLUME_ACCESSIBILITY_CONSTRAINTS
    DefaultName,      \* PVs are named as volumeNameHook assumes: the flags
                      \* volume-name-prefix, -uuid-length have their defaults
    Env,              \* which of EnvFaults happen
    MaxWatch          \* bound: undelivered watch events after which users wait

(***************************************************************************)
(* What the environment may do beyond ordinary use.                        *)
(*   touch     an update of the claim that concerns somebody else          *)
(*   nodegone  the CSINode of the selected node disappears                 *)
(*   config    an object provisioning depends on (StorageClass,            *)
(*             VolumeAttributesClass, ReferenceGrant) becomes valid or not *)
(*   crash     the process dies and a new one starts                       *)
(***************************************************************************)
EnvFaults == {"touch", "nodegone", "config", "crash"}

ASSUME ConstantsAssumption ==
    /\ SupportsTopology \in BOOLEAN
    /\ DefaultName \in BOOLEAN
    /\ Env \subseteq EnvFaults
    /\ MaxWatch \in Nat \ {0}

VARIABLES
    claim,            \* API server: the PVC
    watch,            \* claim versions the informer has not been told of yet
    claimsIndexer,    \* the claim informer's cache
    claimQueue,       \* keys in the claim work queue
    claimsInProgress, \* the library's map UID -> PVC, "none" if absent
    slowSet,          \* claims whose retries are delayed as infeasible
    pc,               \* where the worker of a claim is
    work,             \* the claim object that worker has in hand
    pvcNodeStore,     \* claims with cached topology of the selected node
    csiNode,          \* claims whose selected node has a CSINode object
    valid,            \* claims whose configuration objects are valid
    creating,         \* CSI driver: a CreateVolume is being executed
    vol,              \* CSI driver: the volume
    pv,               \* API server: the PersistentVolume
    volumes,          \* the volume informer's cache
    unsaved           \* queueStore: PVs still to be written to the API server

apiVars    == <<claim, watch>>
memVars    == <<claimQueue, claimsInProgress, slowSet>>
workerVars == <<pc, work>>
driverVars == <<creating, vol>>
pvVars     == <<pv, volumes, unsaved>>
vars == <<apiVars, claimsIndexer, memVars, workerVars, pvcNodeStore, csiNode,
          valid, driverVars, pvVars>>

-----------------------------------------------------------------------------
(***************************************************************************)
(* Claim versions.  "immediate": unbound, of a class that binds            *)
(* immediately; "unscheduled" and "scheduled": unbound, of a class that    *)
(* waits for the first consumer, without and with the selected-node        *)
(* annotation; "bound": spec.volumeName is set.                            *)
(***************************************************************************)
Unbound    == {"immediate", "unscheduled", "scheduled"}
Live       == Unbound \cup {"bound"}
ClaimState == Live \cup {"none", "gone"}

PVState  == {"none", "available", "bound", "released", "terminating",
             "finalized"}
VolState == {"none", "good", "bad"}
PCState  == {"idle", "operation", "prepare", "create", "reschedule",
             "updatestore", "store"}

(* gRPC status codes of CreateVolume, and "NotGRPC" for other errors.      *)
TransientCodes == {"NotGRPC", "Canceled", "DeadlineExceeded", "Unavailable",
                   "Aborted"}
FinalCodes     == {"ResourceExhausted", "InvalidArgument", "Internal"}

TypeOK ==
    /\ claim \in [Claims -> ClaimState]
    /\ watch \in [Claims -> Seq(Live \cup {"gone"})]
    /\ claimsIndexer \in [Claims -> ClaimState]
    /\ claimQueue \in SUBSET Claims
    /\ claimsInProgress \in [Claims -> ClaimState]
    /\ slowSet \in SUBSET Claims
    /\ pc \in [Claims -> PCState]
    /\ work \in [Claims -> ClaimState]
    /\ pvcNodeStore \in SUBSET Claims
    /\ csiNode \in SUBSET Claims
    /\ valid \in SUBSET Claims
    /\ creating \in SUBSET Claims
    /\ vol \in [Claims -> VolState]
    /\ pv \in [Claims -> PVState]
    /\ volumes \in [Claims -> PVState]
    /\ unsaved \in SUBSET Claims

Init ==
    /\ claim = [c \in Claims |-> "none"]
    /\ watch = [c \in Claims |-> <<>>]
    /\ claimsIndexer = [c \in Claims |-> "none"]
    /\ claimQueue = {}
    /\ claimsInProgress = [c \in Claims |-> "none"]
    /\ slowSet = {}
    /\ pc = [c \in Claims |-> "idle"]
    /\ work = [c \in Claims |-> "none"]
    /\ pvcNodeStore = {}
    /\ csiNode = {}
    /\ valid \in SUBSET Claims
    /\ creating = {}
    /\ vol = [c \in Claims |-> "none"]
    /\ pv = [c \in Claims |-> "none"]
    /\ volumes = [c \in Claims |-> "none"]
    /\ unsaved = {}

-----------------------------------------------------------------------------
(***************************************************************************)
(* Users, the scheduler, nodes and the PV controller of kube-controller-   *)
(* manager.                                                                *)
(***************************************************************************)

\* A write of claim c to the API server, announced to the informer.
Write(c, version) ==
    /\ claim' = [claim EXCEPT ![c] = version]
    /\ watch' = [watch EXCEPT ![c] = Append(@, version)]

CreateClaim(c) ==
    /\ claim[c] = "none"
    /\ \E version \in {"immediate", "unscheduled"} : Write(c, version)
    /\ UNCHANGED <<claimsIndexer, memVars, workerVars, pvcNodeStore, csiNode,
                   valid, driverVars, pvVars>>

DeleteClaim(c) ==
    /\ claim[c] \in Live
    /\ Write(c, "gone")
    /\ UNCHANGED <<claimsIndexer, memVars, workerVars, pvcNodeStore, csiNode,
                   valid, driverVars, pvVars>>

\* Somebody else updates the claim: a label, a finalizer, a condition.
TouchClaim(c) ==
    /\ "touch" \in Env
    /\ claim[c] \in Live
    /\ Len(watch[c]) < MaxWatch
    /\ Write(c, claim[c])
    /\ UNCHANGED <<claimsIndexer, memVars, workerVars, pvcNodeStore, csiNode,
                   valid, driverVars, pvVars>>

\* The scheduler annotates the claim with a node on which the driver runs.
SelectNode(c) ==
    /\ claim[c] = "unscheduled"
    /\ Len(watch[c]) < MaxWatch
    /\ Write(c, "scheduled")
    /\ csiNode' = csiNode \cup {c}
    /\ UNCHANGED <<claimsIndexer, memVars, workerVars, pvcNodeStore, valid,
                   driverVars, pvVars>>

NodeGone(c) ==
    /\ "nodegone" \in Env
    /\ c \in csiNode
    /\ csiNode' = csiNode \ {c}
    /\ UNCHANGED <<apiVars, claimsIndexer, memVars, workerVars, pvcNodeStore,
                   valid, driverVars, pvVars>>

ConfigChange(c) ==
    /\ "config" \in Env
    /\ valid' = IF c \in valid THEN valid \ {c} ELSE valid \cup {c}
    /\ UNCHANGED <<apiVars, claimsIndexer, memVars, workerVars, pvcNodeStore,
                   csiNode, driverVars, pvVars>>

\* The PV carries a claimRef with the claim's UID, which makes it bind to
\* that claim and to no other.
Bind(c) ==
    /\ pv[c] = "available"
    /\ claim[c] \in Unbound
    /\ Write(c, "bound")
    /\ pv' = [pv EXCEPT ![c] = "bound"]
    /\ UNCHANGED <<claimsIndexer, memVars, workerVars, pvcNodeStore, csiNode,
                   valid, driverVars, volumes, unsaved>>

-----------------------------------------------------------------------------
(***************************************************************************)
(* Informers.                                                              *)
(***************************************************************************)

\* claimHandler: an add or an update enqueues the claim, a delete does not.
DeliverClaim(c) ==
    /\ watch[c] # <<>>
    /\ watch' = [watch EXCEPT ![c] = Tail(@)]
    /\ claimsIndexer' = [claimsIndexer EXCEPT ![c] = Head(watch[c])]
    /\ claimQueue' = IF Head(watch[c]) \in Live THEN claimQueue \cup {c}
                                                ELSE claimQueue
    /\ UNCHANGED <<claim, claimsInProgress, slowSet, workerVars, pvcNodeStore,
                   csiNode, valid, driverVars, pvVars>>

\* The periodic resync enqueues what the cache has.
ResyncClaim(c) ==
    /\ claimsIndexer[c] \in Live
    /\ claimQueue' = claimQueue \cup {c}
    /\ UNCHANGED <<apiVars, claimsIndexer, claimsInProgress, slowSet,
                   workerVars, pvcNodeStore, csiNode, valid, driverVars,
                   pvVars>>

DeliverVolume(c) ==
    /\ volumes[c] # pv[c]
    /\ volumes' = [volumes EXCEPT ![c] = pv[c]]
    /\ UNCHANGED <<apiVars, claimsIndexer, memVars, workerVars, pvcNodeStore,
                   csiNode, valid, driverVars, pv, unsaved>>

-----------------------------------------------------------------------------
(***************************************************************************)
(* The claim worker.                                                       *)
(***************************************************************************)

\* What becomes of the claim's entry in claimsInProgress after an attempt.
\* state is the ProvisioningState, err one of "nil", "stop"
\* (errStopProvision) and "error".
InProgressForgetsOnNoChange(c, state, err) ==
    IF err = "error" /\ state = "Background" THEN work[c] ELSE "none"
InProgressKeepsUID(c, state, err) ==
    IF err # "error" \/ state = "Finished" THEN "none" ELSE c

InProgressAfter(c, state, err) ==
    CASE err # "error" \/ state = "Finished" -> "none"
      [] err = "error" /\ state = "Background" -> work[c]
      [] OTHER -> claimsInProgress[c]

\* What becomes of the work queue: an error requeues the claim.  There is no
\* failure threshold, csi-provisioner sets both to 0.
RequeueUnlessInBackground(c, state, err) ==
    IF err = "error" /\ state # "Background" THEN claimQueue \cup {c}
                                             ELSE claimQueue
RequeueOnFinalError(c, state, err) ==
    IF err = "error" /\ state = "Finished" THEN claimQueue \cup {c}
                                           ELSE claimQueue

QueueAfter(c, state, err) ==
    IF err = "error" THEN claimQueue \cup {c} ELSE claimQueue

EndSync(c, state, err) ==
    /\ pc' = [pc EXCEPT ![c] = "idle"]
    /\ work' = [work EXCEPT ![c] = "none"]
    /\ claimsInProgress' =
            [claimsInProgress EXCEPT ![c] = InProgressAfter(c, state, err)]
    /\ claimQueue' = QueueAfter(c, state, err)

\* The claim a key stands for: the cached object or, once that is gone, the
\* one remembered in claimsInProgress.
CachedClaimObject(c) ==
    IF claimsIndexer[c] \in Live THEN claimsIndexer[c] ELSE "none"

ClaimObject(c) ==
    IF claimsIndexer[c] \in Live THEN claimsIndexer[c] ELSE claimsInProgress[c]

shouldProvision(object) == object \in {"immediate", "scheduled"}

\* A claim in slowSet is answered with an error and stays queued, as is one
\* whose StorageClass cannot be read.
SyncClaim(c) ==
    /\ c \in claimQueue
    /\ pc[c] = "idle"
    /\ ClaimObject(c) \in Live => c \notin slowSet
    /\ claimQueue' = claimQueue \ {c}
    /\ IF shouldProvision(ClaimObject(c))
       THEN /\ pc' = [pc EXCEPT ![c] = "operation"]
            /\ work' = [work EXCEPT ![c] = ClaimObject(c)]
            /\ UNCHANGED claimsInProgress
       ELSE /\ claimsInProgress' = [claimsInProgress EXCEPT ![c] = "none"]
            /\ UNCHANGED workerVars
    /\ UNCHANGED <<apiVars, claimsIndexer, slowSet, pvcNodeStore, csiNode,
                   valid, driverVars, pvVars>>

\* provisionClaimOperation up to the call of Provision: nothing is left to
\* do if the PV is in the cache under the name volumeNameHook gives it.
ProvisionClaimOperation(c) ==
    /\ pc[c] = "operation"
    /\ IF DefaultName /\ volumes[c] # "none"
       THEN EndSync(c, "Finished", "stop")
       ELSE /\ pc' = [pc EXCEPT ![c] = "prepare"]
            /\ UNCHANGED <<work, claimQueue, claimsInProgress>>
    /\ UNCHANGED <<apiVars, claimsIndexer, slowSet, pvcNodeStore, csiNode,
                   valid, driverVars, pvVars>>

\* Topology is looked up for claims with a selected node.
NeedsNode(c) == SupportsTopology /\ work[c] = "scheduled"

\* GenerateAccessibilityRequirements caches the keys of the selected node
\* under the claim's UID and asks for the CSINode only without such an entry.
NodeKnown(c) == c \in pvcNodeStore \/ c \in csiNode

CacheNode(c) == pvcNodeStore' = IF NeedsNode(c) THEN pvcNodeStore \cup {c}
                                                ELSE pvcNodeStore

\* A step of prepareProvision fails in a way that says nothing about an
\* earlier CreateVolume: a secret, a finalizer, an API call.  The topology
\* may have been looked up by then.
PrepareFails(c) ==
    /\ pc[c] = "prepare"
    /\ \/ UNCHANGED pvcNodeStore
       \/ NodeKnown(c) /\ CacheNode(c)
    /\ EndSync(c, "NoChange", "error")
    /\ UNCHANGED <<apiVars, claimsIndexer, slowSet, csiNode, valid,
                   driverVars, pvVars>>

\* The configuration is found invalid, before Provision or in it: "Finished",
\* whatever an earlier attempt has started.  Some of the checks make the
\* library ignore the claim (errStopProvision, IgnoredError).
PrepareRejects(c) ==
    /\ pc[c] = "prepare"
    /\ c \notin valid
    /\ \/ UNCHANGED pvcNodeStore
       \/ NodeKnown(c) /\ CacheNode(c)
    /\ \E err \in {"stop", "error"} : EndSync(c, "Finished", err)
    /\ UNCHANGED <<apiVars, claimsIndexer, slowSet, csiNode, valid,
                   driverVars, pvVars>>

\* The CSINode of the selected node is not found: "Reschedule".
PrepareReschedules(c) ==
    /\ pc[c] = "prepare"
    /\ NeedsNode(c) /\ ~NodeKnown(c)
    /\ pc' = [pc EXCEPT ![c] = "reschedule"]
    /\ UNCHANGED <<apiVars, claimsIndexer, memVars, work, pvcNodeStore,
                   csiNode, valid, driverVars, pvVars>>

\* prepareProvision succeeds and CreateVolume is called.
CallCreateVolume(c) ==
    /\ pc[c] = "prepare"
    /\ c \in valid
    /\ NeedsNode(c) => NodeKnown(c)
    /\ CacheNode(c)
    /\ pc' = [pc EXCEPT ![c] = "create"]
    /\ creating' = IF vol[c] = "none" THEN creating \cup {c} ELSE creating
    /\ UNCHANGED <<apiVars, claimsIndexer, memVars, work, csiNode, valid, vol,
                   pvVars>>

-----------------------------------------------------------------------------
(***************************************************************************)
(* The CSI driver.  CreateVolume is idempotent, a call for an existing     *)
(* volume succeeds, and a final status code is only given when nothing     *)
(* exists and nothing is being created.  "bad" is a volume smaller than    *)
(* requested or without the requested content.                             *)
(***************************************************************************)
DriverCreates(c) ==
    /\ c \in creating
    /\ creating' = creating \ {c}
    /\ \E v \in {"good", "bad"} : vol' = [vol EXCEPT ![c] = v]
    /\ UNCHANGED <<apiVars, claimsIndexer, memVars, workerVars, pvcNodeStore,
                   csiNode, valid, pvVars>>

DriverFails(c) ==
    /\ c \in creating
    /\ creating' = creating \ {c}
    /\ UNCHANGED <<apiVars, claimsIndexer, memVars, workerVars, pvcNodeStore,
                   csiNode, valid, vol, pvVars>>

\* Storage for c exists or may come to exist.
Allocated(c) == c \in creating \/ vol[c] # "none"

-----------------------------------------------------------------------------
(***************************************************************************)
(* The rest of Provision, and what the library does with its result.       *)
(***************************************************************************)
checkErrorTimeoutFinal(code, mayReschedule) ==
    CASE code = "ResourceExhausted" ->
            IF mayReschedule THEN "Reschedule" ELSE "Finished"
      [] code \in TransientCodes \ {"DeadlineExceeded"} -> "Background"
      [] OTHER -> "Finished"

checkError(code, mayReschedule) ==
    CASE code = "ResourceExhausted" ->
            IF mayReschedule THEN "Reschedule" ELSE "Finished"
      [] code \in TransientCodes -> "Background"
      [] OTHER -> "Finished"

\* The topology of the selected node is forgotten with a final error only.
ForgetNodeAlways(c, state) == pvcNodeStore' = pvcNodeStore \ {c}

ForgetNode(c, state) ==
    pvcNodeStore' = IF state = "Background" THEN pvcNodeStore
                                            ELSE pvcNodeStore \ {c}

isInfeasibleError(code) == code = "InvalidArgument"

CreateVolumeFails(c) ==
    /\ pc[c] = "create"
    /\ \E code \in TransientCodes \cup FinalCodes :
        LET state == checkError(code, NeedsNode(c)) IN
        /\ code \in FinalCodes => ~Allocated(c)
        /\ ForgetNode(c, state)
        /\ slowSet' = IF isInfeasibleError(code) THEN slowSet \cup {c}
                                                 ELSE slowSet
        /\ IF state = "Reschedule"
           THEN /\ pc' = [pc EXCEPT ![c] = "reschedule"]
                /\ UNCHANGED <<work, claimQueue, claimsInProgress>>
           ELSE EndSync(c, state, "error")
    /\ UNCHANGED <<apiVars, claimsIndexer, csiNode, valid, driverVars, pvVars>>

\* The volume satisfies the request: enough capacity, the content source.
AcceptsAny(c) == vol[c] # "none"

Accepts(c) == vol[c] = "good"

\* The response is checked; the PV is built and its topology forgotten.
CreateVolumeSucceeds(c) ==
    /\ pc[c] = "create"
    /\ c \notin creating /\ Accepts(c)
    /\ pc' = [pc EXCEPT ![c] = "store"]
    /\ pvcNodeStore' = pvcNodeStore \ {c}
    /\ UNCHANGED <<apiVars, claimsIndexer, memVars, work, csiNode, valid,
                   driverVars, pvVars>>

\* cleanupVolume deletes a volume that does not satisfy the request, if it
\* can.  Either way the claim is retried.
CleanupVolume(c) ==
    /\ pc[c] = "create"
    /\ c \notin creating /\ vol[c] # "none" /\ ~Accepts(c)
    /\ \E v \in {"none", "bad"} : vol' = [vol EXCEPT ![c] = v]
    /\ EndSync(c, "Background", "error")
    /\ UNCHANGED <<apiVars, claimsIndexer, slowSet, pvcNodeStore, csiNode,
                   valid, creating, pvVars>>

\* The PV of a migrated claim cannot be translated back.  Delete is called
\* with the nil PV the failed translation returned and fails.
TranslateFails(c) ==
    /\ pc[c] = "create"
    /\ c \notin creating /\ Accepts(c)
    /\ EndSync(c, "Background", "error")
    /\ UNCHANGED <<apiVars, claimsIndexer, slowSet, pvcNodeStore, csiNode,
                   valid, driverVars, pvVars>>

\* rescheduleProvisioning removes the selected-node annotation from the
\* object it reads from the API server.
Unselected(version) == IF version = "bound" THEN "bound" ELSE "unscheduled"

Reschedule(c) ==
    /\ pc[c] = "reschedule"
    /\ \/ /\ claim[c] \in {"scheduled", "bound"}
          /\ Write(c, Unselected(claim[c]))
          /\ pc' = [pc EXCEPT ![c] = "updatestore"]
          /\ work' = [work EXCEPT ![c] = Unselected(claim[c])]
          /\ UNCHANGED <<claimQueue, claimsInProgress>>
       \/ /\ claim[c] \notin {"scheduled", "bound", "gone"}
          /\ EndSync(c, "Finished", "stop")
          /\ UNCHANGED apiVars
    /\ UNCHANGED <<claimsIndexer, slowSet, pvcNodeStore, csiNode, valid,
                   driverVars, pvVars>>

UpdateStoreNever(c) ==
    /\ pc[c] = "updatestore"
    /\ EndSync(c, "Finished", "stop")
    /\ UNCHANGED <<apiVars, claimsIndexer, slowSet, pvcNodeStore, csiNode,
                   valid, driverVars, pvVars>>

\* Then it writes the result into the informer's cache.  No lock is held from
\* the one write to the other: the cache may have a newer version by now.
UpdateStore(c) ==
    /\ pc[c] = "updatestore"
    /\ claimsIndexer' = [claimsIndexer EXCEPT ![c] = work[c]]
    /\ EndSync(c, "Finished", "stop")
    /\ UNCHANGED <<apiVars, slowSet, pvcNodeStore, csiNode, valid, driverVars,
                   pvVars>>

\* The claim is gone, or the API server cannot be reached.
RescheduleFails(c) ==
    /\ pc[c] = "reschedule"
    /\ EndSync(c, "Finished", "error")
    /\ UNCHANGED <<apiVars, claimsIndexer, slowSet, pvcNodeStore, csiNode,
                   valid, driverVars, pvVars>>

\* doSaveVolume counts AlreadyExists as success.
doSaveVolume(c) ==
    pv' = [pv EXCEPT ![c] = IF @ = "none" THEN "available" ELSE @]

\* StoreVolume leaves a PV it cannot save to the queue's own workers.
StoreVolume(c) ==
    /\ pc[c] = "store"
    /\ \/ doSaveVolume(c) /\ UNCHANGED unsaved
       \/ unsaved' = unsaved \cup {c} /\ UNCHANGED pv
    /\ EndSync(c, "Finished", "nil")
    /\ UNCHANGED <<apiVars, claimsIndexer, slowSet, pvcNodeStore, csiNode,
                   valid, driverVars, volumes>>

SaveQueuedVolume(c) ==
    /\ c \in unsaved
    /\ doSaveVolume(c)
    /\ unsaved' = unsaved \ {c}
    /\ UNCHANGED <<apiVars, claimsIndexer, memVars, workerVars, pvcNodeStore,
                   csiNode, valid, driverVars, volumes>>

SlowRetryDue(c) ==
    /\ c \in slowSet
    /\ slowSet' = slowSet \ {c}
    /\ UNCHANGED <<apiVars, claimsIndexer, claimQueue, claimsInProgress,
                   workerVars, pvcNodeStore, csiNode, valid, driverVars,
                   pvVars>>

\* Everything in memory is lost; the informers list again and enqueue every
\* claim there is.  A CreateVolume in the driver goes on.
Restart ==
    /\ "crash" \in Env
    /\ watch' = [c \in Claims |-> <<>>]
    /\ claimsIndexer' = claim
    /\ claimQueue' = {c \in Claims : claim[c] \in Live}
    /\ claimsInProgress' = [c \in Claims |-> "none"]
    /\ slowSet' = {}
    /\ pc' = [c \in Claims |-> "idle"]
    /\ work' = [c \in Claims |-> "none"]
    /\ pvcNodeStore' = {}
    /\ volumes' = pv
    /\ unsaved' = {}
    /\ UNCHANGED <<claim, csiNode, valid, driverVars, pv>>

-----------------------------------------------------------------------------
Environment(c) ==
    \/ CreateClaim(c) \/ DeleteClaim(c) \/ TouchClaim(c) \/ SelectNode(c)
    \/ NodeGone(c) \/ ConfigChange(c) \/ Bind(c)
    \/ DeliverClaim(c) \/ ResyncClaim(c) \/ DeliverVolume(c)
    \/ DriverCreates(c) \/ DriverFails(c)

Worker(c) ==
    \/ SyncClaim(c) \/ ProvisionClaimOperation(c)
    \/ PrepareFails(c) \/ PrepareRejects(c) \/ PrepareReschedules(c)
    \/ CallCreateVolume(c) \/ CreateVolumeFails(c) \/ CreateVolumeSucceeds(c)
    \/ CleanupVolume(c) \/ TranslateFails(c)
    \/ Reschedule(c) \/ RescheduleFails(c) \/ UpdateStore(c)
    \/ StoreVolume(c) \/ SaveQueuedVolume(c) \/ SlowRetryDue(c)

Next == (\E c \in Claims : Environment(c) \/ Worker(c)) \/ Restart

Spec == Init /\ [][Next]_vars

-----------------------------------------------------------------------------
(***************************************************************************)
(* Safety.                                                                 *)
(***************************************************************************)

\* Storage that exists, or that the driver may still be creating, is always
\* accounted for: by the call that waits for it, by claimsInProgress, by a PV
\* waiting to be saved or by a PV.  The claim may be deleted at any point.
\* Needs an environment without "touch", "config" and "crash".
NoLeak ==
    \A c \in Claims : Allocated(c) =>
        \/ claimsInProgress[c] # "none"
        \/ pc[c] \in {"create", "store"}
        \/ c \in unsaved
        \/ pv[c] # "none"

\* The DeleteFunc of claimHandler does nothing because a deleted claim that
\* still matters "is either in claimsInProgress and in the queue": a claim in
\* progress is queued or has a worker, so it cannot be forgotten.
InProgressIsQueued ==
    \A c \in Claims :
        claimsInProgress[c] # "none" => c \in claimQueue \/ pc[c] # "idle"

\* A PV, saved or about to be, refers to an existing volume that has the size
\* and the content the claim asked for, across retries, cleanups, restarts.
PVBacked ==
    \A c \in Claims :
        (pv[c] # "none" \/ c \in unsaved \/ pc[c] = "store") => vol[c] = "good"

\* "Reschedule" is only acted on when the driver is not creating a volume for
\* the claim: the node it was told to use is never taken back meanwhile.
\* Needs an environment without "crash": the entry of pvcNodeStore that keeps
\* a lost node from being noticed during a retry does not survive it.
RescheduleOnlyWhenIdle ==
    [][\A c \in Claims :
        claim[c] = "scheduled" /\ claim'[c] = "unscheduled" => c \notin creating
      ]_vars

\* "Finished" means that provisioning for sure does not continue: a claim is
\* taken out of claimsInProgress only when the driver is not creating a
\* volume for it.  Needs an environment without "config" and "crash".
FinishedIsFinal ==
    [][\A c \in Claims :
        claimsInProgress[c] # "none" /\ claimsInProgress'[c] = "none"
            => c \notin creating]_vars

\* rescheduleProvisioning writes its result to the informer's cache so that
\* no later attempt works on the old claim: CreateVolume is never called for
\* a node that was selected once and has been given up since.
\* Needs an environment without "touch".
NoOperationOnOldClaim ==
    [][\A c \in Claims :
        pc[c] = "prepare" /\ pc'[c] = "create" /\ work[c] = "scheduled"
            => claim[c] # "unscheduled"]_vars

-----------------------------------------------------------------------------
(***************************************************************************)
(* Liveness.  Workers, informers, the scheduler and the PV controller keep *)
(* running; what can fail at each attempt (an API call, CreateVolume)      *)
(* succeeds at last if it is attempted again and again.                    *)
(***************************************************************************)
Fairness(c) ==
    /\ WF_vars(DeliverClaim(c)) /\ WF_vars(DeliverVolume(c))
    /\ WF_vars(SelectNode(c)) /\ WF_vars(Bind(c))
    /\ WF_vars(SyncClaim(c)) /\ WF_vars(ProvisionClaimOperation(c))
    /\ WF_vars(PrepareFails(c) \/ CallCreateVolume(c))
    /\ WF_vars(CreateVolumeFails(c))
    /\ WF_vars(Reschedule(c) \/ RescheduleFails(c)) /\ WF_vars(UpdateStore(c))
    /\ WF_vars(StoreVolume(c)) /\ WF_vars(SaveQueuedVolume(c))
    /\ WF_vars(SlowRetryDue(c))
    /\ SF_vars(CallCreateVolume(c)) /\ SF_vars(Reschedule(c))
    /\ SF_vars(CreateVolumeSucceeds(c))
    /\ SF_vars(DriverCreates(c) /\ vol'[c] = "good")
    /\ SF_vars(CleanupVolume(c) /\ vol'[c] = "none")

FairSpec == Spec /\ \A c \in Claims : Fairness(c)

\* A valid claim that is not deleted is bound in the end, whatever number of
\* attempts time out, fail, are rescheduled or leave an unusable volume, unless
\* the nodes selected for it are lost again and again, or the cache is left
\* behind for good: UpdateStore puts a version back that a later one, the last,
\* has replaced, and a resync repeats what the cache has.
LeftBehind(c) == watch[c] = <<>> /\ claimsIndexer[c] # claim[c]

EventuallyBound ==
    \A c \in Claims :
        /\ <>[](claim[c] = "scheduled" => c \in csiNode)
        /\ []<>~LeftBehind(c)
        => (claim[c] \in Unbound /\ c \in valid
                 ~> claim[c] \in {"bound", "gone"})

\* A claim that is deleted while the driver works for it is not forgotten: the
\* volume ends up with a PV, through which Kubernetes deletes it, or nothing
\* is left of it.
DeletedClaimIsResolved ==
    \A c \in Claims :
        claim[c] = "gone" ~> (pv[c] # "none" \/ ~Allocated(c))
=============================================================================
