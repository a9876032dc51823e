-------------------------- MODULE VolumeDeletion --------------------------
(***************************************************************************)
(* The end of one volume: the volume workers of the provisioners that run  *)
(* on Nodes (one of them in a central deployment) against users who change *)
(* the reclaim policy, delete the claim or the PV, and pods that use the   *)
(* volume.  VolumeLifecycle has the interplay with provisioning; here are  *)
(* the policy, the node affinity and the attachments that decide whether   *)
(* to delete.  The secrets that DeleteVolume is called with are left out:  *)
(* one that cannot be read, or whose class is gone, stops nothing.         *)
(***************************************************************************)
EXTENDS Naturals

CONSTANTS
    Nodes,
    Home,         \* the node that the PV's node affinity admits
    Env,          \* "retain", "back" (changes of the policy), "userDelete",
                  \* "attach", "errors"
    MaxChanges,   \* bound on what users change and on calls that fail
    MaxRestarts   \* bound on crashes

ASSUME DeletionAssumption ==
    /\ Home \in Nodes
    /\ MaxChanges \in Nat /\ MaxRestarts \in Nat

VARIABLES
    pv,           \* API server: the PV
    cache,        \* informer of each node: the PV
    va, vaCache,  \* VolumeAttachment, in the API server and the informers
    vol,          \* the volume exists
    queue, pc,    \* volume workers
    retained,     \* history: the policy is Retain since before the release
    wavered,      \* history: the policy has been Retain
    caughtUp,     \* history: at the release the informers knew all attachments
    changes, restarts

history == <<retained, wavered, caughtUp>>
pvVars == <<pv, history>>
workerVars == <<queue, pc>>
vars == <<pvVars, cache, va, vaCache, vol, workerVars, changes, restarts>>

PV == [exists : BOOLEAN, phase : {"bound", "released"}, policy : {"Delete", "Retain"},
       deleting : BOOLEAN, finalizer : BOOLEAN]

TypeOK ==
    /\ pv \in PV /\ cache \in [Nodes -> PV]
    /\ va \in BOOLEAN /\ vaCache \in [Nodes -> BOOLEAN]
    /\ queue \subseteq Nodes
    /\ pc \in [Nodes -> {"idle", "add", "remove", "delete", "check", "call",
                         "deletepv", "finalizer"}]
    /\ {vol, retained, wavered, caughtUp} \subseteq BOOLEAN
    /\ \A n \in Nodes : cache[n].phase = "released" => pv.phase = "released"

\* The library creates PVs with finalizerPV.
Init ==
    /\ pv = [exists |-> TRUE, phase |-> "bound", policy |-> "Delete",
             deleting |-> FALSE, finalizer |-> TRUE]
    /\ cache = [n \in Nodes |-> pv]
    /\ va = FALSE /\ vaCache = [n \in Nodes |-> FALSE]
    /\ vol = TRUE /\ queue = Nodes
    /\ retained = FALSE /\ wavered = FALSE /\ caughtUp = TRUE
    /\ pc = [n \in Nodes |-> "idle"]
    /\ changes = 0 /\ restarts = 0

Goto(n, label) == pc' = [pc EXCEPT ![n] = label]

Change(what) == what \in Env /\ changes < MaxChanges /\ changes' = changes + 1

-----------------------------------------------------------------------------
(* Users, other controllers, and the informers.                            *)

ChangePolicy ==
    /\ pv.exists
    /\ IF pv.policy = "Delete" THEN Change("retain") ELSE Change("back")
    /\ pv' = [pv EXCEPT !.policy = IF @ = "Delete" THEN "Retain" ELSE "Delete"]
    /\ retained' = FALSE /\ wavered' = TRUE
    /\ UNCHANGED <<caughtUp, cache, va, vaCache, vol, workerVars, restarts>>

\* The claim is deleted.
Release ==
    /\ pv.phase = "bound"
    /\ pv' = [pv EXCEPT !.phase = "released"]
    /\ retained' = (pv.policy = "Retain")
    /\ caughtUp' = \A n \in Nodes : vaCache[n] = va
    /\ UNCHANGED <<wavered, cache, va, vaCache, vol, workerVars, changes, restarts>>

UserDeletesPV ==
    /\ pv.exists /\ ~pv.deleting /\ Change("userDelete")
    /\ pv' = [pv EXCEPT !.deleting = TRUE]
    /\ UNCHANGED <<history, cache, va, vaCache, vol, workerVars, restarts>>

\* Kubernetes keeps a PV while it is bound; then only finalizerPV is left.
Disappear ==
    /\ pv.exists /\ pv.deleting /\ ~pv.finalizer /\ pv.phase = "released"
    /\ pv' = [pv EXCEPT !.exists = FALSE]
    /\ UNCHANGED <<history, cache, va, vaCache, vol, workerVars, changes,
                   restarts>>

\* Pods exist, and are attached, while the claim does.
Attach ==
    /\ ~va /\ pv.phase = "bound" /\ Change("attach")
    /\ va' = TRUE
    /\ UNCHANGED <<pvVars, cache, vaCache, vol, workerVars, restarts>>

Detach ==
    /\ va /\ va' = FALSE
    /\ UNCHANGED <<pvVars, cache, vaCache, vol, workerVars, changes, restarts>>

\* A PV that is gone is not enqueued.
Deliver(n) ==
    /\ cache[n] # pv
    /\ cache' = [cache EXCEPT ![n] = pv]
    /\ queue' = IF pv.exists THEN queue \cup {n} ELSE queue
    /\ UNCHANGED <<pvVars, va, vaCache, vol, pc, changes, restarts>>

\* The periodic resync enqueues what the cache has.
Resync(n) ==
    /\ cache[n].exists /\ n \notin queue
    /\ queue' = queue \cup {n}
    /\ UNCHANGED <<pvVars, cache, va, vaCache, vol, pc, changes,
                   restarts>>

DeliverAttachment(n) ==
    /\ vaCache[n] # va
    /\ vaCache' = [vaCache EXCEPT ![n] = va]
    /\ UNCHANGED <<pvVars, cache, va, vol, workerVars, changes, restarts>>

-----------------------------------------------------------------------------
(* syncVolume.                                                             *)

Continue(n, label) == Goto(n, label) /\ UNCHANGED queue

EndSync(n, err) ==
    /\ Goto(n, "idle")
    /\ queue' = IF err THEN queue \cup {n} ELSE queue

NeedsFinalizer(o) ==
    o.policy = "Delete" /\ ~o.deleting /\ o.phase = "bound" /\ ~o.finalizer

MustNotHaveFinalizer(o) == o.policy = "Retain" /\ o.finalizer

shouldDeleteAnyPolicy(o) ==
    (o.deleting => o.finalizer) /\ o.phase = "released"

shouldDelete(o) ==
    (o.deleting => o.finalizer) /\ o.phase = "released" /\ o.policy = "Delete"

syncVolume(n) ==
    LET o == cache[n] IN
    /\ n \in queue /\ pc[n] = "idle"
    /\ queue' = queue \ {n}
    /\ Goto(n, CASE ~o.exists -> "idle"
                 [] o.exists /\ NeedsFinalizer(o) -> "add"
                 [] o.exists /\ MustNotHaveFinalizer(o) -> "remove"
                 [] OTHER -> IF shouldDelete(o) THEN "delete" ELSE "idle")
    /\ UNCHANGED <<pvVars, cache, va, vaCache, vol, changes, restarts>>

\* The patch applies to whatever version there is, and its result is used from
\* then on.  No finalizer can be added to an object that is being deleted.
handleProtectionFinalizer(n) ==
    LET new == [pv EXCEPT !.finalizer = (pc[n] = "add")]
        refused == ~pv.exists \/ (pc[n] = "add" /\ pv.deleting)
    IN  /\ pc[n] \in {"add", "remove"}
        /\ \/ /\ ~refused
              /\ pv' = new
              /\ Continue(n, IF shouldDelete(new) THEN "delete" ELSE "idle")
              /\ UNCHANGED changes
           \/ /\ refused
              /\ EndSync(n, TRUE)
              /\ UNCHANGED <<pv, changes>>
           \/ /\ Change("errors")
              /\ EndSync(n, TRUE)
              /\ UNCHANGED pv
        /\ UNCHANGED <<history, cache, va, vaCache, vol, restarts>>

-----------------------------------------------------------------------------
(* csiProvisioner.Delete.                                                  *)

DeleteAnywhere(n) ==
    /\ pc[n] = "delete" /\ Goto(n, "check")
    /\ UNCHANGED <<pvVars, cache, va, vaCache, vol, queue, changes, restarts>>

\* The volume of another node is ignored.
Delete(n) ==
    /\ pc[n] = "delete"
    /\ \/ /\ n # Home
          /\ EndSync(n, FALSE)
          /\ UNCHANGED changes
       \/ /\ n = Home
          /\ Continue(n, "check")
          /\ UNCHANGED changes
       \/ /\ Change("errors")
          /\ EndSync(n, TRUE)
    /\ UNCHANGED <<pvVars, cache, va, vaCache, vol, restarts>>

AttachedIgnored(n) ==
    /\ pc[n] = "check"
    /\ IF vaCache[n] THEN EndSync(n, FALSE) ELSE Continue(n, "call")
    /\ UNCHANGED <<pvVars, cache, va, vaCache, vol, changes, restarts>>

AttachmentsNotChecked(n) ==
    /\ pc[n] = "check" /\ Continue(n, "call")
    /\ UNCHANGED <<pvVars, cache, va, vaCache, vol, changes, restarts>>

\* A volume that is attached is tried again later.
canDeleteVolume(n) ==
    /\ pc[n] = "check"
    /\ IF vaCache[n] THEN EndSync(n, TRUE) ELSE Continue(n, "call")
    /\ UNCHANGED <<pvVars, cache, va, vaCache, vol, changes, restarts>>

\* A driver answers OK for a volume that it does not have.
DeleteVolume(n) ==
    /\ pc[n] = "call"
    /\ \/ /\ vol' = (vol /\ n # Home)
          /\ Continue(n, "deletepv")
          /\ UNCHANGED changes
       \/ /\ Change("errors")
          /\ vol' \in {vol, vol /\ n # Home}
          /\ EndSync(n, TRUE)
    /\ UNCHANGED <<pvVars, cache, va, vaCache, restarts>>

-----------------------------------------------------------------------------
(* The rest of deleteVolumeOperation.                                      *)

DeletePV(n) ==
    /\ pc[n] = "deletepv"
    /\ \/ /\ pv.exists
          /\ pv' = [pv EXCEPT !.deleting = TRUE]
          /\ Continue(n, "finalizer")
          /\ UNCHANGED changes
       \/ /\ ~pv.exists
          /\ EndSync(n, TRUE)
          /\ UNCHANGED <<pv, changes>>
       \/ /\ Change("errors")
          /\ EndSync(n, TRUE)
          /\ UNCHANGED pv
    /\ UNCHANGED <<history, cache, va, vaCache, vol, restarts>>

\* The finalizer is removed if the cached PV has it.
RemoveFinalizer(n) ==
    LET remove == cache[n].exists /\ cache[n].finalizer IN
    /\ pc[n] = "finalizer"
    /\ \/ /\ pv' = IF remove THEN [pv EXCEPT !.finalizer = FALSE] ELSE pv
          /\ EndSync(n, FALSE)
          /\ UNCHANGED changes
       \/ /\ remove /\ Change("errors")
          /\ EndSync(n, TRUE)
          /\ UNCHANGED pv
    /\ UNCHANGED <<history, cache, va, vaCache, vol, restarts>>

\* A new process fills its caches and so enqueues the PV.
Restart(n) ==
    /\ restarts < MaxRestarts /\ restarts' = restarts + 1
    /\ cache' = [cache EXCEPT ![n] = pv]
    /\ vaCache' = [vaCache EXCEPT ![n] = va]
    /\ queue' = IF pv.exists THEN queue \cup {n} ELSE queue \ {n}
    /\ Goto(n, "idle")
    /\ UNCHANGED <<pvVars, va, vol, changes>>

Worker(n) ==
    \/ syncVolume(n) \/ handleProtectionFinalizer(n) \/ Delete(n)
    \/ canDeleteVolume(n) \/ DeleteVolume(n) \/ DeletePV(n) \/ RemoveFinalizer(n)

Informer(n) == Deliver(n) \/ Resync(n) \/ DeliverAttachment(n)

Users ==
    \/ ChangePolicy \/ Release \/ UserDeletesPV \/ Attach

Next ==
    \/ Users \/ Detach \/ Disappear
    \/ \E n \in Nodes : Worker(n) \/ Informer(n) \/ Restart(n)

Spec == Init /\ [][Next]_vars

\* Informers deliver, workers go on, pods end, and PVs without finalizers go.
FairSpec ==
    /\ Spec
    /\ WF_vars(Detach) /\ WF_vars(Disappear)
    /\ \A n \in Nodes : WF_vars(Worker(n)) /\ WF_vars(Deliver(n))
                        /\ WF_vars(DeliverAttachment(n))

-----------------------------------------------------------------------------
(* Properties.                                                             *)

\* finalizerPV is there "so we know to clean them up": a PV with policy Delete
\* is gone only when its volume is, whoever deleted the PV and when, and on
\* whichever node its deletion was looked at.  A policy that was Retain for a
\* while spoils it: handleProtectionFinalizer may remove the finalizer, by a
\* patch that any version accepts, after the policy is Delete again.
NothingOrphaned ==
    ~pv.exists /\ pv.policy = "Delete" /\ ~wavered => ~vol

\* A volume whose policy was changed to Retain before its claim was deleted stays,
\* although every decision is made on a cached PV.
RetainKept == retained => vol

\* canDeleteVolume is to "verify if volume is attached to a node before proceeding
\* with deletion".  It looks into a cache, so it can only promise that for
\* attachments that were in the caches when the claim was deleted.
AttachedNotDeleted == va /\ caughtUp => vol

\* A released volume whose policy remains Delete does not stay for ever: the PV
\* disappears, whatever fails and however long the volume was attached, and the
\* volume with it, except in the case that NothingOrphaned excludes too.
EventuallyDeleted ==
    <>[](pv.phase = "released" /\ pv.policy = "Delete") =>
        <>(~pv.exists /\ (vol => wavered))
=============================================================================
