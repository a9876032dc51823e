-------------------------- MODULE NodeOwnership --------------------------
(***************************************************************************)
(* Distributed provisioning: one provisioner with a local driver on every  *)
(* node, and one claim.  A node provisions the claim if the selected-node  *)
(* annotation names it.  With immediate binding the nodes choose among     *)
(* themselves: each tries to write its own name (becomeOwner).             *)
(*                                                                         *)
(* "log" holds all versions of the claim, each given by its selected node. *)
(* A node's informer has seen a prefix of it; its cache holds one of the   *)
(* versions.  The two differ after rescheduleProvisioning, which stores    *)
(* the version it wrote in the cache: versions still to be delivered may   *)
(* then be older than the one they replace, or the one that is replaced is *)
(* newer.                                                                  *)
(***************************************************************************)
EXTENDS Naturals, Sequences, FiniteSets

CONSTANTS
    Nodes,
    none, gone,        \* no node is selected; the claim has been deleted
    ImmediateBinding,  \* values of NodeDeployment.ImmediateBinding with a class
                       \* that binds immediately; else the scheduler selects
    Fits,              \* nodes whose free capacity is at times sufficient
    Env,               \* "touch": others update the claim; "delete": it is
                       \* deleted; "errors": calls fail
    MaxVersions,       \* bound on the updates of the claim
    MaxRestarts        \* bound on crashes

ASSUME OwnershipAssumption ==
    /\ none \notin Nodes /\ gone \notin Nodes \cup {none}
    /\ ImmediateBinding \subseteq BOOLEAN
    /\ Fits \subseteq Nodes
    /\ MaxVersions \in Nat \ {0} /\ MaxRestarts \in Nat

VARIABLES
    log,       \* API server: the versions of the claim
    seen,      \* number of versions the node's informer has been sent
    cache,     \* the version in the node's cache
    queued,    \* nodes with the claim in the work queue
    pc,        \* where the node's worker is
    copy,      \* the version becomeOwner is about to update, or that
               \* rescheduleProvisioning is about to store in the cache
    inProgress,\* claimsInProgress: nodes that will repeat CreateVolume
    unknown,   \* nodes whose last CreateVolume may still create a volume
    vol,       \* nodes with a volume for the claim
    pv,        \* the node whose volume the PV stands for
    pvSeen,    \* nodes whose caches have the PV, or the claim bound to it
    immediate, \* the nodes choose among themselves
    restarts

claimVars == <<log, seen, cache>>
runVars == <<immediate, restarts>>
volVars == <<inProgress, unknown, vol, pv>>
vars == <<claimVars, queued, pc, copy, volVars, pvSeen, runVars>>

Last == Len(log)
Selected == log[Last]
Cached(n) == log[cache[n]]

\* A claim that is gone is still worked on by a node that remembers it.
Object(n) == IF Cached(n) = gone /\ n \in inProgress THEN n ELSE Cached(n)

TypeOK ==
    /\ log \in Seq(Nodes \cup {none, gone}) /\ Last \in 1 .. MaxVersions
    /\ seen \in [Nodes -> 0 .. Last] /\ cache \in [Nodes -> 1 .. Last]
    /\ queued \in SUBSET Nodes
    /\ pc \in [Nodes -> {"idle", "wait", "capacity", "update", "provision",
                         "create", "reschedule", "updatestore", "store"}]
    /\ copy \in [Nodes -> 0 .. Last]
    /\ \A n \in Nodes : pc[n] = "updatestore" => copy[n] # 0
    /\ inProgress \in SUBSET Nodes
    /\ unknown \in SUBSET Nodes /\ vol \in SUBSET Nodes
    /\ pv \in Nodes \cup {none} /\ pvSeen \in SUBSET Nodes
    /\ immediate \in BOOLEAN /\ restarts \in 0 .. MaxRestarts

Init ==
    /\ log = <<none>>
    /\ seen = [n \in Nodes |-> 1] /\ cache = [n \in Nodes |-> 1]
    /\ queued = Nodes
    /\ pc = [n \in Nodes |-> "idle"]
    /\ copy = [n \in Nodes |-> 0]
    /\ inProgress = {} /\ unknown = {} /\ vol = {} /\ pv = none /\ pvSeen = {}
    /\ immediate \in ImmediateBinding
    /\ restarts = 0

Goto(n, label) == pc' = [pc EXCEPT ![n] = label]

Forget(n) == copy' = [copy EXCEPT ![n] = 0]

-----------------------------------------------------------------------------
(* The scheduler, other writers of the claim, watches, resync, the driver. *)

Write(node) ==
    /\ Last < MaxVersions
    /\ log' = Append(log, node)
    /\ UNCHANGED <<seen, cache, queued, pc, copy, volVars, pvSeen, runVars>>

\* The scheduler selects a node for a claim that has none.
SelectNode ==
    /\ ~immediate
    /\ Selected = none
    /\ \E n \in Nodes : Write(n)

\* Somebody updates the claim and leaves the annotation alone.  The bound is
\* lower: nodes still have versions to write.
Touch ==
    /\ "touch" \in Env
    /\ Selected # gone /\ Last + 2 < MaxVersions
    /\ Write(Selected)

\* The last "version" stands for the deletion.
DeleteClaim == "delete" \in Env /\ Selected # gone /\ Write(gone)

\* Versions are delivered in the order in which they were written.
Deliver(n) ==
    /\ seen[n] < Last
    /\ seen' = [seen EXCEPT ![n] = @ + 1]
    /\ cache' = [cache EXCEPT ![n] = seen'[n]]
    /\ queued' = queued \cup {n}
    /\ UNCHANGED <<log, pc, copy, volVars, pvSeen, runVars>>

Resync(n) ==
    /\ n \notin queued
    /\ queued' = queued \cup {n}
    /\ UNCHANGED <<claimVars, pc, copy, volVars, pvSeen, runVars>>

\* The PV, and the claim bound to it, arrive in the node's caches.
DeliverPV(n) ==
    /\ pv # none
    /\ pvSeen' = pvSeen \cup {n}
    /\ UNCHANGED <<claimVars, queued, pc, copy, volVars, runVars>>

DriverEnds(n) ==
    /\ n \in unknown /\ pc[n] # "create"
    /\ unknown' = unknown \ {n}
    /\ vol' \in {vol, vol \cup ({n} \cap Fits)}
    /\ UNCHANGED <<claimVars, queued, pc, copy, inProgress, pv, pvSeen,
                   runVars>>

-----------------------------------------------------------------------------
(* checkNode and becomeOwner.                                              *)

CheckNodeSelected(n) ==
    /\ n \in queued /\ pc[n] = "idle"
    /\ queued' = queued \ {n}
    /\ Goto(n, IF n \notin pvSeen /\ Cached(n) \in Nodes THEN "provision"
                                                       ELSE "idle")
    /\ UNCHANGED <<claimVars, copy, volVars, pvSeen, runVars>>

\* checkNode with the cached claim.  Nothing needs to be done for a claim that
\* is seen to be bound or to have a PV; one that other nodes provision is
\* ignored.  A claim that is not to be provisioned is not in progress either.
checkNode(n) ==
    /\ n \in queued /\ pc[n] = "idle"
    /\ queued' = queued \ {n}
    /\ Goto(n, CASE n \in pvSeen -> "idle"
                 [] n \notin pvSeen /\ Object(n) = n -> "provision"
                 [] n \notin pvSeen /\ Cached(n) = none /\ immediate -> "wait"
                 [] OTHER -> "idle")
    /\ inProgress' = IF pc'[n] = "provision" THEN inProgress
                                             ELSE inProgress \ {n}
    /\ UNCHANGED <<claimVars, copy, unknown, vol, pv, pvSeen, runVars>>

\* becomeOwner waits and looks at the cache from time to time.  It stops as
\* soon as another node is selected; a missing claim is an error.
Wait(n) ==
    /\ pc[n] = "wait"
    /\ IF Cached(n) \in {none, n}
       THEN Goto(n, "capacity") /\ copy' = [copy EXCEPT ![n] = cache[n]]
       ELSE Goto(n, "idle") /\ UNCHANGED copy
    /\ queued' = IF Cached(n) = gone THEN queued \cup {n} ELSE queued
    /\ UNCHANGED <<claimVars, volVars, pvSeen, runVars>>

\* A node without room leaves the claim to others; an error of the check does
\* not stop it.
checkCapacity(n) ==
    /\ pc[n] = "capacity"
    /\ \/ /\ n \in Fits \/ "errors" \in Env
          /\ Goto(n, "update") /\ UNCHANGED copy
       \/ /\ n \notin Fits \/ "errors" \in Env
          /\ Goto(n, "idle") /\ Forget(n)
    /\ UNCHANGED <<claimVars, queued, volVars, pvSeen, runVars>>

UpdateWithoutVersion(n) ==
    /\ pc[n] = "update" /\ Last < MaxVersions
    /\ log' = Append(log, n) /\ Goto(n, "idle")
    /\ UNCHANGED <<seen, cache, queued, copy, volVars, pvSeen, runVars>>

\* A conflict starts another round of waiting, and so does an unexpected
\* error: Provision repeats the check that failed in ShouldProvision.
becomeOwner(n) ==
    /\ pc[n] = "update"
    /\ \/ /\ log[copy[n]] = n
          /\ Goto(n, "idle") /\ UNCHANGED log
       \/ /\ log[copy[n]] = none /\ copy[n] = Last /\ Last < MaxVersions
          /\ log' = Append(log, n) /\ Goto(n, "idle")
       \/ /\ log[copy[n]] = none
          /\ copy[n] # Last \/ "errors" \in Env
          /\ Goto(n, "wait") /\ UNCHANGED log
    /\ Forget(n)
    /\ UNCHANGED <<seen, cache, queued, volVars, pvSeen, runVars>>

-----------------------------------------------------------------------------
(* Provision on the node, and what the library makes of its result.        *)

Provision(n) ==
    /\ pc[n] = "provision"
    /\ Goto(n, "create")
    /\ unknown' = unknown \cup {n}
    /\ UNCHANGED <<claimVars, queued, copy, inProgress, vol, pv, pvSeen,
                   runVars>>

CreateVolumeSucceeds(n) ==
    /\ pc[n] = "create" /\ n \in Fits
    /\ Goto(n, "store")
    /\ unknown' = unknown \ {n} /\ vol' = vol \cup {n}
    /\ UNCHANGED <<claimVars, queued, copy, inProgress, pv, pvSeen, runVars>>

\* ResourceExhausted: no volume was created, another node shall try.
CreateVolumeExhausted(n) ==
    /\ pc[n] = "create" /\ n \notin vol
    /\ n \notin Fits \/ "errors" \in Env
    /\ Goto(n, "reschedule")
    /\ unknown' = unknown \ {n}
    /\ UNCHANGED <<claimVars, queued, copy, inProgress, vol, pv, pvSeen,
                   runVars>>

\* A timeout: the claim is retried.
CreateVolumeTimesOut(n) ==
    /\ "errors" \in Env
    /\ pc[n] = "create"
    /\ Goto(n, "idle")
    /\ queued' = queued \cup {n}
    /\ inProgress' = inProgress \cup {n}
    /\ UNCHANGED <<claimVars, copy, unknown, vol, pv, pvSeen, runVars>>

KeepsSelected(n) ==
    /\ pc[n] = "reschedule"
    /\ Goto(n, "idle")
    /\ inProgress' = inProgress \ {n}
    /\ UNCHANGED <<claimVars, queued, copy, unknown, vol, pv, pvSeen, runVars>>

\* rescheduleProvisioning removes the annotation from the current version,
\* whichever node it names.
Reschedule(n) ==
    /\ pc[n] = "reschedule"
    /\ \/ /\ Selected \in Nodes /\ Last < MaxVersions
          /\ log' = Append(log, none)
          /\ copy' = [copy EXCEPT ![n] = Last + 1]
          /\ Goto(n, "updatestore") /\ UNCHANGED inProgress
       \/ /\ Selected = none
          /\ Goto(n, "idle") /\ inProgress' = inProgress \ {n}
          /\ UNCHANGED <<log, copy>>
    /\ UNCHANGED <<seen, cache, queued, unknown, vol, pv, pvSeen, runVars>>

\* The claim is gone, or the API server cannot be reached: it is retried.
RescheduleFails(n) ==
    /\ pc[n] = "reschedule"
    /\ Selected = gone \/ "errors" \in Env
    /\ Goto(n, "idle")
    /\ queued' = queued \cup {n}
    /\ inProgress' = inProgress \ {n}
    /\ UNCHANGED <<claimVars, copy, unknown, vol, pv, pvSeen, runVars>>

\* Then the result is stored in the cache, without a lock: the cache may have
\* a newer version by now.
UpdateStore(n) ==
    /\ pc[n] = "updatestore"
    /\ cache' = [cache EXCEPT ![n] = copy[n]]
    /\ Goto(n, "idle") /\ Forget(n)
    /\ inProgress' = inProgress \ {n}
    /\ UNCHANGED <<log, seen, queued, unknown, vol, pv, pvSeen, runVars>>

\* A PV that exists already is counted as success.
StorePV(n) ==
    /\ pc[n] = "store"
    /\ Goto(n, "idle")
    /\ pv' = IF pv = none THEN n ELSE pv
    /\ inProgress' = inProgress \ {n}
    /\ UNCHANGED <<claimVars, queued, copy, unknown, vol, pvSeen, runVars>>

\* The provisioner of a node crashes and starts again with a new cache.
Restart(n) ==
    /\ restarts < MaxRestarts
    /\ restarts' = restarts + 1
    /\ seen' = [seen EXCEPT ![n] = Last] /\ cache' = [cache EXCEPT ![n] = Last]
    /\ queued' = queued \cup {n}
    /\ Goto(n, "idle") /\ Forget(n)
    /\ inProgress' = inProgress \ {n}
    /\ pvSeen' = IF pv = none THEN pvSeen ELSE pvSeen \cup {n}
    /\ UNCHANGED <<log, unknown, vol, pv, immediate>>

-----------------------------------------------------------------------------
Worker(n) ==
    \/ checkNode(n) \/ Wait(n) \/ checkCapacity(n) \/ becomeOwner(n)
    \/ Provision(n) \/ CreateVolumeSucceeds(n) \/ CreateVolumeExhausted(n)
    \/ CreateVolumeTimesOut(n) \/ Reschedule(n) \/ RescheduleFails(n)
    \/ UpdateStore(n) \/ StorePV(n)

Next ==
    \/ \E n \in Nodes : Worker(n) \/ Deliver(n) \/ Resync(n) \/ DeliverPV(n)
                        \/ DriverEnds(n) \/ Restart(n)
    \/ SelectNode \/ Touch \/ DeleteClaim

Spec == Init /\ [][Next]_vars

\* Workers, watches, the resync of the informers and the scheduler go on.
\* Calls that are repeated again and again succeed at some time, or show that
\* there is no room.
FairSpec ==
    /\ Spec
    /\ \A n \in Nodes :
           /\ WF_vars(Worker(n)) /\ WF_vars(Deliver(n)) /\ WF_vars(Resync(n))
           /\ SF_vars(Reschedule(n))
    /\ \A n \in Fits :
           /\ SF_vars(checkCapacity(n) /\ pc'[n] = "update")
           /\ SF_vars(becomeOwner(n) /\ log' # log)
           /\ SF_vars(CreateVolumeSucceeds(n))
    /\ \A n \in Nodes \ Fits : SF_vars(CreateVolumeExhausted(n))
    /\ WF_vars(SelectNode)

-----------------------------------------------------------------------------
(* Properties.                                                             *)

\* Touch leaves two equal versions behind.
Touched == \E i \in 1 .. Last - 1 : log[i] = log[i + 1]

\* At most one node creates a volume for the claim, although all of them
\* decide with their own, possibly old, copy of it: the claim has one PV, and
\* any other volume is lost.  An update by somebody else spoils it: delivered
\* after rescheduleProvisioning has stored its newer version, it brings the
\* annotation back into the cache, and the node that gave up creates a volume.
OneVolume == ~Touched => Cardinality(vol \cup unknown) <= 1

\* Once a node has been selected no other node takes the claim from it: it
\* stays selected until the node itself gives up by rescheduleProvisioning, or
\* the claim is deleted.  A node that acts on an annotation brought back by
\* somebody's update may reschedule the claim of another.
OwnerKept ==
    [][\A n \in Nodes :
          ~Touched /\ Selected = n /\ log' # log =>
              log'[Len(log')] \in {n, gone} \/ pc[n] = "reschedule"]_vars

\* The cache has been left behind by a store of an older version; a resync
\* repeats what the cache has.
Stale(n) == seen[n] = Last /\ cache[n] # Last

\* With room on some node the claim gets its PV, although nodes without room
\* may look first, lose the race or be selected and give up again, unless it is
\* deleted or the cache of a node stays behind.  Behaviours end when all
\* versions have been used.
EventuallyProvisioned ==
    (\A n \in Nodes : []<>~Stale(n)) =>
        <>(pv # none \/ Selected = gone \/ Last = MaxVersions)
=============================================================================
