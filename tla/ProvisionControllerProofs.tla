-------------------- MODULE ProvisionControllerProofs --------------------
(***************************************************************************)
(* Proofs about ProvisionController, for any set of claims and any bounds. *)
(***************************************************************************)
EXTENDS ProvisionController, TLAPS

USE DEF Unbound, Live, ClaimState, PVState, VolState, PCState

-----------------------------------------------------------------------------
(***************************************************************************)
(* Type correctness.                                                       *)
(***************************************************************************)

\* The outcome of an attempt leaves the worker's variables well-typed.
LEMMA EndSyncType ==
    ASSUME TypeOK, NEW c \in Claims, NEW state, NEW err, EndSync(c, state, err)
    PROVE  /\ pc' \in [Claims -> PCState]
           /\ work' \in [Claims -> ClaimState]
           /\ claimsInProgress' \in [Claims -> ClaimState]
           /\ claimQueue' \in SUBSET Claims
  <1>1. InProgressAfter(c, state, err) \in ClaimState
    BY DEF TypeOK, InProgressAfter
  <1>2. claimsInProgress' \in [Claims -> ClaimState]
    BY <1>1 DEF TypeOK, EndSync
  <1>3. pc' \in [Claims -> PCState] /\ work' \in [Claims -> ClaimState]
    BY DEF TypeOK, EndSync
  <1>4. claimQueue' \in SUBSET Claims
    BY DEF TypeOK, EndSync, QueueAfter
  <1> QED BY <1>2, <1>3, <1>4

\* A write of a live or deleted version keeps the API server well-typed.
LEMMA WriteType ==
    ASSUME TypeOK, NEW c \in Claims, NEW version \in Live \cup {"gone"},
           Write(c, version)
    PROVE  /\ claim' \in [Claims -> ClaimState]
           /\ watch' \in [Claims -> Seq(Live \cup {"gone"})]
  <1>1. Append(watch[c], version) \in Seq(Live \cup {"gone"})
    BY DEF TypeOK
  <1>2. watch' \in [Claims -> Seq(Live \cup {"gone"})]
    BY <1>1 DEF TypeOK, Write
  <1>3. claim' \in [Claims -> ClaimState]
    BY DEF TypeOK, Write
  <1> QED BY <1>2, <1>3

LEMMA TypeEnvironment ==
    ASSUME TypeOK, NEW c \in Claims, Environment(c)
    PROVE  TypeOK'
  <1>1. CASE CreateClaim(c)
    <2>1. PICK version \in {"immediate", "unscheduled"} : Write(c, version)
      BY <1>1 DEF CreateClaim
    <2>2. /\ claim' \in [Claims -> ClaimState]
          /\ watch' \in [Claims -> Seq(Live \cup {"gone"})]
      BY <2>1, WriteType
    <2> QED BY <1>1, <2>2 DEF CreateClaim, TypeOK, memVars, workerVars,
               driverVars, pvVars
  <1>2. CASE DeleteClaim(c)
    BY <1>2, WriteType DEF DeleteClaim, TypeOK, memVars, workerVars,
       driverVars, pvVars
  <1>3. CASE TouchClaim(c)
    <2>1. Write(c, claim[c]) /\ claim[c] \in Live \cup {"gone"}
      BY <1>3 DEF TouchClaim
    <2>2. /\ claim' \in [Claims -> ClaimState]
          /\ watch' \in [Claims -> Seq(Live \cup {"gone"})]
      BY <2>1, WriteType
    <2> QED BY <1>3, <2>2 DEF TouchClaim, TypeOK, memVars, workerVars,
               driverVars, pvVars
  <1>4. CASE SelectNode(c)
    <2>1. /\ claim' \in [Claims -> ClaimState]
          /\ watch' \in [Claims -> Seq(Live \cup {"gone"})]
      BY <1>4, WriteType DEF SelectNode
    <2> QED BY <1>4, <2>1 DEF SelectNode, TypeOK, memVars, workerVars,
               driverVars, pvVars
  <1>5. CASE NodeGone(c)
    BY <1>5 DEF NodeGone, TypeOK, apiVars, memVars, workerVars, driverVars,
       pvVars
  <1>6. CASE ConfigChange(c)
    BY <1>6 DEF ConfigChange, TypeOK, apiVars, memVars, workerVars,
       driverVars, pvVars
  <1>7. CASE Bind(c)
    <2>1. /\ claim' \in [Claims -> ClaimState]
          /\ watch' \in [Claims -> Seq(Live \cup {"gone"})]
      BY <1>7, WriteType DEF Bind
    <2> QED BY <1>7, <2>1 DEF Bind, TypeOK, memVars, workerVars, driverVars
  <1>8. CASE DeliverClaim(c)
    <2>1. /\ Head(watch[c]) \in Live \cup {"gone"}
          /\ Tail(watch[c]) \in Seq(Live \cup {"gone"})
      BY <1>8 DEF DeliverClaim, TypeOK
    <2> QED BY <1>8, <2>1 DEF DeliverClaim, TypeOK, workerVars, driverVars,
               pvVars
  <1>9. CASE ResyncClaim(c)
    BY <1>9 DEF ResyncClaim, TypeOK, apiVars, workerVars, driverVars, pvVars
  <1>10. CASE DeliverVolume(c)
    BY <1>10 DEF DeliverVolume, TypeOK, apiVars, memVars, workerVars,
       driverVars
  <1>11. CASE DriverCreates(c)
    BY <1>11 DEF DriverCreates, TypeOK, apiVars, memVars, workerVars, pvVars
  <1>12. CASE DriverFails(c)
    BY <1>12 DEF DriverFails, TypeOK, apiVars, memVars, workerVars, pvVars
  <1> QED BY <1>1, <1>2, <1>3, <1>4, <1>5, <1>6, <1>7, <1>8, <1>9, <1>10,
             <1>11, <1>12 DEF Environment

LEMMA TypeWorker ==
    ASSUME TypeOK, NEW c \in Claims, Worker(c)
    PROVE  TypeOK'
  <1>1. CASE SyncClaim(c)
    <2>1. ClaimObject(c) \in ClaimState
      BY DEF ClaimObject, TypeOK
    <2>2. /\ pc' \in [Claims -> PCState]
          /\ work' \in [Claims -> ClaimState]
          /\ claimsInProgress' \in [Claims -> ClaimState]
          /\ claimQueue' \in SUBSET Claims
      <3>1. CASE shouldProvision(ClaimObject(c))
        <4>1. /\ claimQueue' = claimQueue \ {c}
              /\ pc' = [pc EXCEPT ![c] = "operation"]
              /\ work' = [work EXCEPT ![c] = ClaimObject(c)]
              /\ claimsInProgress' = claimsInProgress
          BY <1>1, <3>1, Zenon DEF SyncClaim
        <4> QED BY <2>1, <4>1 DEF TypeOK
      <3>2. CASE ~shouldProvision(ClaimObject(c))
        <4>1. /\ claimQueue' = claimQueue \ {c}
              /\ claimsInProgress' = [claimsInProgress EXCEPT ![c] = "none"]
              /\ pc' = pc /\ work' = work
          BY <1>1, <3>2, ZenonT(30) DEF SyncClaim, workerVars
        <4> QED BY <4>1 DEF TypeOK
      <3> QED BY <3>1, <3>2
    <2> QED BY <1>1, <2>2 DEF SyncClaim, TypeOK, apiVars, driverVars, pvVars
  <1>2. CASE ProvisionClaimOperation(c)
    <2>1. /\ pc' \in [Claims -> PCState]
          /\ work' \in [Claims -> ClaimState]
          /\ claimsInProgress' \in [Claims -> ClaimState]
          /\ claimQueue' \in SUBSET Claims
      <3>1. CASE DefaultName /\ volumes[c] # "none"
        BY <1>2, <3>1, EndSyncType DEF ProvisionClaimOperation
      <3>2. CASE ~(DefaultName /\ volumes[c] # "none")
        <4>1. /\ pc' = [pc EXCEPT ![c] = "prepare"]
              /\ work' = work /\ claimQueue' = claimQueue
              /\ claimsInProgress' = claimsInProgress
          BY <1>2, <3>2, ZenonT(30) DEF ProvisionClaimOperation
        <4> QED BY <4>1 DEF TypeOK
      <3> QED BY <3>1, <3>2
    <2> QED BY <1>2, <2>1
            DEF ProvisionClaimOperation, TypeOK, apiVars, driverVars, pvVars
  <1>3. CASE PrepareFails(c)
    BY <1>3, EndSyncType
       DEF PrepareFails, TypeOK, CacheNode, apiVars, memVars, workerVars,
           driverVars, pvVars
  <1>4. CASE PrepareRejects(c)
    <2>1. PICK err \in {"stop", "error"} : EndSync(c, "Finished", err)
      BY <1>4 DEF PrepareRejects
    <2> QED BY <1>4, <2>1, EndSyncType
       DEF PrepareRejects, TypeOK, CacheNode, apiVars, memVars, workerVars,
           driverVars, pvVars
  <1>5. CASE PrepareReschedules(c)
    BY <1>5
       DEF PrepareReschedules, TypeOK, apiVars, memVars, workerVars,
           driverVars, pvVars
  <1>6. CASE CallCreateVolume(c)
    BY <1>6
       DEF CallCreateVolume, TypeOK, CacheNode, apiVars, memVars, workerVars,
           driverVars, pvVars
  <1>7. CASE CreateVolumeFails(c)
    <2>1. PICK code \in TransientCodes \cup FinalCodes :
            LET state == checkError(code, NeedsNode(c)) IN
            /\ ForgetNode(c, state)
            /\ slowSet' = IF isInfeasibleError(code) THEN slowSet \cup {c}
                                                     ELSE slowSet
            /\ IF state = "Reschedule"
               THEN /\ pc' = [pc EXCEPT ![c] = "reschedule"]
                    /\ UNCHANGED <<work, claimQueue, claimsInProgress>>
               ELSE EndSync(c, state, "error")
      BY <1>7 DEF CreateVolumeFails
    <2>2. pvcNodeStore' \in SUBSET Claims /\ slowSet' \in SUBSET Claims
      BY <2>1 DEF TypeOK, ForgetNode
    <2>3. /\ pc' \in [Claims -> PCState]
          /\ work' \in [Claims -> ClaimState]
          /\ claimsInProgress' \in [Claims -> ClaimState]
          /\ claimQueue' \in SUBSET Claims
      BY <2>1, EndSyncType DEF TypeOK
    <2> QED BY <1>7, <2>2, <2>3
       DEF CreateVolumeFails, TypeOK, apiVars, driverVars, pvVars
  <1>8. CASE CreateVolumeSucceeds(c)
    BY <1>8
       DEF CreateVolumeSucceeds, TypeOK, apiVars, memVars, workerVars,
           driverVars, pvVars
  <1>9. CASE CleanupVolume(c)
    BY <1>9, EndSyncType
       DEF CleanupVolume, TypeOK, apiVars, memVars, workerVars, driverVars,
           pvVars
  <1>10. CASE TranslateFails(c)
    BY <1>10, EndSyncType
       DEF TranslateFails, TypeOK, apiVars, memVars, workerVars, driverVars,
           pvVars
  <1>11. CASE Reschedule(c)
    <2>1. Unselected(claim[c]) \in Live
      BY DEF Unselected
    <2>2. CASE claim[c] \in {"scheduled", "bound"}
      <3>1. /\ Write(c, Unselected(claim[c]))
            /\ pc' = [pc EXCEPT ![c] = "updatestore"]
            /\ work' = [work EXCEPT ![c] = Unselected(claim[c])]
            /\ UNCHANGED <<claimQueue, claimsInProgress>>
        BY <1>11, <2>2 DEF Reschedule
      <3>2. /\ claim' \in [Claims -> ClaimState]
            /\ watch' \in [Claims -> Seq(Live \cup {"gone"})]
        BY <2>1, <3>1, WriteType
      <3>3. pc' \in [Claims -> PCState] /\ work' \in [Claims -> ClaimState]
        BY <2>1, <3>1 DEF TypeOK
      <3> QED BY <1>11, <3>1, <3>2, <3>3
              DEF Reschedule, TypeOK, driverVars, pvVars
    <2>3. CASE claim[c] \notin {"scheduled", "bound"}
      BY <1>11, <2>3, EndSyncType
         DEF Reschedule, TypeOK, apiVars, driverVars, pvVars
    <2> QED BY <2>2, <2>3
  <1>12. CASE RescheduleFails(c)
    BY <1>12, EndSyncType
       DEF RescheduleFails, TypeOK, apiVars, memVars, workerVars, driverVars,
           pvVars
  <1>13. CASE StoreVolume(c)
    BY <1>13, EndSyncType
       DEF StoreVolume, TypeOK, doSaveVolume, apiVars, memVars, workerVars,
           driverVars, pvVars
  <1>14. CASE SaveQueuedVolume(c)
    BY <1>14
       DEF SaveQueuedVolume, TypeOK, doSaveVolume, apiVars, memVars,
           workerVars, driverVars, pvVars
  <1>15. CASE SlowRetryDue(c)
    BY <1>15
       DEF SlowRetryDue, TypeOK, apiVars, memVars, workerVars, driverVars,
           pvVars
  <1>16. CASE UpdateStore(c)
    <2>1. claimsIndexer' \in [Claims -> ClaimState]
      BY <1>16 DEF UpdateStore, TypeOK
    <2> QED BY <1>16, <2>1, EndSyncType
            DEF UpdateStore, TypeOK, apiVars, driverVars, pvVars
  <1> QED BY <1>1, <1>2, <1>3, <1>4, <1>5, <1>6, <1>7, <1>8, <1>9, <1>10,
             <1>11, <1>12, <1>13, <1>14, <1>15, <1>16
     DEF Worker

\* A new process has the types.
LEMMA TypeInit == Init => TypeOK
  <1>1. <<>> \in Seq(Live \cup {"gone"})
    OBVIOUS
  <1> QED BY <1>1 DEF Init, TypeOK

\* TypeOK holds in every state the program can reach.
THEOREM TypeCorrect == Spec => []TypeOK
  <1>1. Init => TypeOK
    BY TypeInit
  <1>2. TypeOK /\ [Next]_vars => TypeOK'
    <2> SUFFICES ASSUME TypeOK, [Next]_vars PROVE TypeOK'
      OBVIOUS
    <2>1. CASE \E c \in Claims : Environment(c) \/ Worker(c)
      BY <2>1, TypeEnvironment, TypeWorker
    <2>2. CASE Restart
      <3>1. <<>> \in Seq(Live \cup {"gone"})
        OBVIOUS
      <3> QED BY <2>2, <3>1 DEF Restart, TypeOK, driverVars
    <2>3. CASE UNCHANGED vars
      BY <2>3 DEF vars, TypeOK, apiVars, memVars, workerVars, driverVars,
         pvVars
    <2> QED BY <2>1, <2>2, <2>3 DEF Next
  <1> QED BY <1>1, <1>2, PTL DEF Spec

-----------------------------------------------------------------------------
(***************************************************************************)
(* The inductive invariant behind NoLeak, claim by claim.                  *)
(***************************************************************************)

\* The versions that may follow version v of a claim: only rescheduling takes
\* a claim back, and it leaves no trace of the old version behind.
Follows(v) ==
    CASE v \in {"immediate", "scheduled", "bound"} -> {"bound", "gone"}
      [] v = "gone" -> {}
      [] OTHER -> Live \cup {"gone"}

\* The version in the cache, or the one UpdateStore is about to put there.
Stored(c) == IF pc[c] = "updatestore" THEN work[c] ELSE claimsIndexer[c]

\* The stored version, the pending watch events and the API server's version
\* follow each other.
Ordered(c) ==
    /\ claim[c] \in {Stored(c)} \cup Follows(Stored(c))
    /\ \A i \in 1 .. Len(watch[c]) :
        /\ watch[c][i] \in Follows(Stored(c))
        /\ claim[c] \in {watch[c][i]} \cup Follows(watch[c][i])
        /\ \A j \in 1 .. Len(watch[c]) :
               i < j => watch[c][j] \in Follows(watch[c][i])

\* The object a worker has, and the one in claimsInProgress, asked for a
\* volume and are as new as the cache, unless the claim is bound or gone.
\* While a rescheduled claim waits for UpdateStore its object is a new one.
Current(c) ==
    /\ pc[c] = "idle" <=> work[c] = "none"
    /\ claimsInProgress[c] \in {"none", "immediate", "scheduled"}
    /\ pc[c] = "updatestore" => work[c] \in {"unscheduled", "bound"}
    /\ pc[c] = "reschedule" => NeedsNode(c)
    /\ pc[c] # "updatestore" =>
        /\ work[c] \in {"none", "immediate", "scheduled"}
        /\ work[c] # "none" => claimsIndexer[c] \in {work[c], "bound", "gone"}
        /\ claimsInProgress[c] # "none" =>
               claimsIndexer[c] \in {claimsInProgress[c], "bound", "gone"}
        /\ work[c] # "none" /\ claimsInProgress[c] # "none" =>
               work[c] = claimsInProgress[c]

\* What is visible of a PV outside the API server is there.
HasPV(c) ==
    /\ volumes[c] # "none" => pv[c] # "none"
    /\ claim[c] = "bound" => pv[c] # "none"
    /\ "bound" \in {claimsIndexer[c], work[c]} => pv[c] # "none"
    /\ \A i \in 1 .. Len(watch[c]) : watch[c][i] = "bound" => pv[c] # "none"

\* The driver creates what does not exist, for valid claims.
Driver(c) ==
    /\ c \in creating => vol[c] = "none"
    /\ Allocated(c) => c \in valid

Secured(c) == pc[c] = "store" \/ c \in unsaved \/ pv[c] # "none"

\* Storage without a PV belongs to a claim in progress or to the running call,
\* and the topology it was requested with is remembered.
Tracked(c) ==
    Allocated(c) /\ ~Secured(c) =>
        /\ pc[c] \notin {"reschedule", "updatestore"}
        /\ pc[c] = "create" \/ claimsInProgress[c] # "none"
        /\ SupportsTopology /\ "scheduled" \in {work[c], claimsInProgress[c]}
               => c \in pvcNodeStore

ClaimInv(c) ==
    /\ Ordered(c)
    /\ Current(c)
    /\ HasPV(c)
    /\ Driver(c)
    /\ Secured(c) => vol[c] = "good"
    /\ Tracked(c)

LeakInv == TypeOK /\ \A c \in Claims : ClaimInv(c)

-----------------------------------------------------------------------------
(***************************************************************************)
(* Claims do not interfere: a step for one leaves the others alone.        *)
(***************************************************************************)
Same(d) ==
    /\ claim'[d] = claim[d]
    /\ watch'[d] = watch[d]
    /\ claimsIndexer'[d] = claimsIndexer[d]
    /\ d \in claimQueue' <=> d \in claimQueue
    /\ claimsInProgress'[d] = claimsInProgress[d]
    /\ pc'[d] = pc[d]
    /\ work'[d] = work[d]
    /\ d \in pvcNodeStore' <=> d \in pvcNodeStore
    /\ d \in valid' <=> d \in valid
    /\ d \in creating' <=> d \in creating
    /\ vol'[d] = vol[d]
    /\ pv'[d] = pv[d]
    /\ volumes'[d] = volumes[d]
    /\ d \in unsaved' <=> d \in unsaved

LEMMA EndSyncFrame ==
    ASSUME TypeOK, NEW c \in Claims, NEW state, NEW err, EndSync(c, state, err),
           NEW d \in Claims, d # c
    PROVE  /\ pc'[d] = pc[d]
           /\ work'[d] = work[d]
           /\ claimsInProgress'[d] = claimsInProgress[d]
           /\ d \in claimQueue' <=> d \in claimQueue
  BY DEF TypeOK, EndSync, QueueAfter

LEMMA FrameEnvironment ==
    ASSUME TypeOK, NEW c \in Claims, NEW d \in Claims, d # c, Environment(c)
    PROVE  Same(d)
  <1>1. CASE CreateClaim(c)
    BY <1>1
       DEF CreateClaim, Write, TypeOK, Same, apiVars, memVars, workerVars,
           driverVars, pvVars
  <1>2. CASE DeleteClaim(c)
    BY <1>2
       DEF DeleteClaim, Write, TypeOK, Same, apiVars, memVars, workerVars,
           driverVars, pvVars
  <1>3. CASE TouchClaim(c)
    BY <1>3
       DEF TouchClaim, Write, TypeOK, Same, apiVars, memVars, workerVars,
           driverVars, pvVars
  <1>4. CASE SelectNode(c)
    BY <1>4
       DEF SelectNode, Write, TypeOK, Same, apiVars, memVars, workerVars,
           driverVars, pvVars
  <1>5. CASE NodeGone(c)
    BY <1>5
       DEF NodeGone, TypeOK, Same, apiVars, memVars, workerVars, driverVars,
           pvVars
  <1>6. CASE ConfigChange(c)
    BY <1>6
       DEF ConfigChange, TypeOK, Same, apiVars, memVars, workerVars,
           driverVars, pvVars
  <1>7. CASE Bind(c)
    BY <1>7
       DEF Bind, Write, TypeOK, Same, apiVars, memVars, workerVars,
           driverVars, pvVars
  <1>8. CASE DeliverClaim(c)
    BY <1>8
       DEF DeliverClaim, TypeOK, Same, apiVars, memVars, workerVars,
           driverVars, pvVars
  <1>9. CASE ResyncClaim(c)
    BY <1>9
       DEF ResyncClaim, TypeOK, Same, apiVars, memVars, workerVars,
           driverVars, pvVars
  <1>10. CASE DeliverVolume(c)
    BY <1>10
       DEF DeliverVolume, TypeOK, Same, apiVars, memVars, workerVars,
           driverVars, pvVars
  <1>11. CASE DriverCreates(c)
    BY <1>11
       DEF DriverCreates, TypeOK, Same, apiVars, memVars, workerVars,
           driverVars, pvVars
  <1>12. CASE DriverFails(c)
    BY <1>12
       DEF DriverFails, TypeOK, Same, apiVars, memVars, workerVars,
           driverVars, pvVars
  <1> QED
    BY <1>1, <1>2, <1>3, <1>4, <1>5, <1>6, <1>7, <1>8, <1>9, <1>10, <1>11, <1>12
       DEF Environment

LEMMA FrameWorker ==
    ASSUME TypeOK, NEW c \in Claims, NEW d \in Claims, d # c, Worker(c)
    PROVE  Same(d)
  <1>1. CASE SyncClaim(c)
    BY <1>1
       DEF SyncClaim, TypeOK, Same, apiVars, memVars, workerVars, driverVars,
           pvVars
  <1>2. CASE ProvisionClaimOperation(c)
    BY <1>2, EndSyncFrame
       DEF ProvisionClaimOperation, TypeOK, Same, apiVars, memVars,
           workerVars, driverVars, pvVars
  <1>3. CASE PrepareFails(c)
    BY <1>3, EndSyncFrame
       DEF PrepareFails, CacheNode, TypeOK, Same, apiVars, memVars,
           workerVars, driverVars, pvVars
  <1>4. CASE PrepareRejects(c)
    BY <1>4, EndSyncFrame
       DEF PrepareRejects, CacheNode, TypeOK, Same, apiVars, memVars,
           workerVars, driverVars, pvVars
  <1>5. CASE PrepareReschedules(c)
    BY <1>5
       DEF PrepareReschedules, TypeOK, Same, apiVars, memVars, workerVars,
           driverVars, pvVars
  <1>6. CASE CallCreateVolume(c)
    BY <1>6
       DEF CallCreateVolume, CacheNode, TypeOK, Same, apiVars, memVars,
           workerVars, driverVars, pvVars
  <1>7. CASE CreateVolumeFails(c)
    BY <1>7, EndSyncFrame
       DEF CreateVolumeFails, ForgetNode, TypeOK, Same, apiVars, memVars,
           workerVars, driverVars, pvVars
  <1>8. CASE CreateVolumeSucceeds(c)
    BY <1>8
       DEF CreateVolumeSucceeds, TypeOK, Same, apiVars, memVars, workerVars,
           driverVars, pvVars
  <1>9. CASE CleanupVolume(c)
    BY <1>9, EndSyncFrame
       DEF CleanupVolume, TypeOK, Same, apiVars, memVars, workerVars,
           driverVars, pvVars
  <1>10. CASE TranslateFails(c)
    BY <1>10, EndSyncFrame
       DEF TranslateFails, TypeOK, Same, apiVars, memVars, workerVars,
           driverVars, pvVars
  <1>11. CASE Reschedule(c)
    BY <1>11, EndSyncFrame
       DEF Reschedule, Write, TypeOK, Same, apiVars, memVars,
           workerVars, driverVars, pvVars
  <1>12. CASE RescheduleFails(c)
    BY <1>12, EndSyncFrame
       DEF RescheduleFails, TypeOK, Same, apiVars, memVars, workerVars,
           driverVars, pvVars
  <1>13. CASE StoreVolume(c)
    BY <1>13, EndSyncFrame
       DEF StoreVolume, doSaveVolume, TypeOK, Same, apiVars, memVars,
           workerVars, driverVars, pvVars
  <1>14. CASE SaveQueuedVolume(c)
    BY <1>14
       DEF SaveQueuedVolume, doSaveVolume, TypeOK, Same, apiVars, memVars,
           workerVars, driverVars, pvVars
  <1>15. CASE SlowRetryDue(c)
    BY <1>15
       DEF SlowRetryDue, TypeOK, Same, apiVars, memVars, workerVars,
           driverVars, pvVars
  <1>16. CASE UpdateStore(c)
    BY <1>16, EndSyncFrame
       DEF UpdateStore, TypeOK, Same, apiVars, memVars, workerVars,
           driverVars, pvVars
  <1> QED
    BY <1>1, <1>2, <1>3, <1>4, <1>5, <1>6, <1>7, <1>8, <1>9, <1>10, <1>11,
       <1>12, <1>13, <1>14, <1>15, <1>16
       DEF Worker

\* What holds of a claim goes on holding when nothing about it changes.
LEMMA SameInv ==
    ASSUME NEW d \in Claims, ClaimInv(d), Same(d)
    PROVE  ClaimInv(d)'
  BY DEF ClaimInv, Same, Ordered, Stored, Current, HasPV, Driver, Tracked,
     Secured, Allocated, NeedsNode

-----------------------------------------------------------------------------
(***************************************************************************)
(* Steps of a claim preserve what holds of it.                             *)
(***************************************************************************)

\* The entries of a watch after an event is added or taken off.
LEMMA WatchAppend ==
    ASSUME NEW S, NEW s \in Seq(S), NEW e \in S
    PROVE  /\ Len(Append(s, e)) = Len(s) + 1
           /\ Append(s, e)[Len(s) + 1] = e
           /\ \A i \in 1 .. Len(s) : Append(s, e)[i] = s[i]
           /\ Len(s) \in Nat
  OBVIOUS

LEMMA WatchTail ==
    ASSUME NEW S, NEW s \in Seq(S), s # <<>>
    PROVE  /\ Len(Tail(s)) = Len(s) - 1
           /\ \A i \in 1 .. Len(s) - 1 : Tail(s)[i] = s[i + 1]
           /\ Head(s) = s[1]
           /\ Len(s) \in Nat \ {0}
  OBVIOUS

\* A version that may follow the cached one and all pending ones keeps the
\* order when it is written.
LEMMA OrderedWrite ==
    ASSUME TypeOK, NEW c \in Claims, NEW version \in Live \cup {"gone"},
           Write(c, version), Ordered(c),
           Stored(c)' = Stored(c),
           version \in Follows(Stored(c)),
           \A i \in 1 .. Len(watch[c]) : version \in Follows(watch[c][i])
    PROVE  Ordered(c)'
  <1> DEFINE s == watch[c]
             t == Append(s, version)
  <1>1. s \in Seq(Live \cup {"gone"})
    BY DEF TypeOK
  <1>2. watch'[c] = t /\ claim'[c] = version
    BY DEF Write, TypeOK
  <1>3. /\ Len(t) = Len(s) + 1
        /\ t[Len(s) + 1] = version
        /\ \A i \in 1 .. Len(s) : t[i] = s[i]
        /\ Len(s) \in Nat
    BY <1>1, WatchAppend
  <1> HIDE DEF t
  <1>4. ASSUME NEW i \in 1 .. Len(t)
        PROVE  /\ t[i] \in Follows(Stored(c))
               /\ version \in {t[i]} \cup Follows(t[i])
               /\ \A j \in 1 .. Len(t) : i < j => t[j] \in Follows(t[i])
    <2>1. CASE i \in 1 .. Len(s)
      <3>1. t[i] = s[i]
        BY <1>3, <2>1
      <3>2. s[i] \in Follows(Stored(c)) /\ version \in Follows(s[i])
        BY <2>1 DEF Ordered
      <3>3. ASSUME NEW j \in 1 .. Len(t), i < j
            PROVE  t[j] \in Follows(s[i])
        <4>1. CASE j \in 1 .. Len(s)
          <5>1. s[j] \in Follows(s[i])
            BY <2>1, <3>3, <4>1 DEF Ordered
          <5> QED BY <1>3, <4>1, <5>1
        <4>2. CASE j = Len(s) + 1
          BY <1>3, <3>2, <4>2
        <4> QED BY <1>3, <4>1, <4>2
      <3> HIDE DEF s
      <3> QED BY <3>1, <3>2, <3>3
    <2>2. CASE i = Len(s) + 1
      BY <1>3, <2>2
    <2> QED BY <1>3, <2>1, <2>2
  <1> QED BY <1>2, <1>4 DEF Ordered

\* Events are delivered in order.
LEMMA OrderedDeliver ==
    ASSUME TypeOK, NEW c \in Claims, Ordered(c), DeliverClaim(c)
    PROVE  Ordered(c)'
  <1> DEFINE s == watch[c]
             t == Tail(s)
  <1>1. s \in Seq(Live \cup {"gone"}) /\ s # <<>>
    BY DEF TypeOK, DeliverClaim
  <1>2. watch'[c] = t /\ claim'[c] = claim[c] /\ claimsIndexer'[c] = s[1]
    BY <1>1, WatchTail DEF DeliverClaim, TypeOK
  <1>3. /\ Len(t) = Len(s) - 1
        /\ \A i \in 1 .. Len(s) - 1 : t[i] = s[i + 1]
        /\ Len(s) \in Nat \ {0}
    BY <1>1, WatchTail
  <1> HIDE DEF t
  <1>4. Stored(c)' \in {s[1], Stored(c)}
    BY <1>2 DEF Stored, DeliverClaim, workerVars
  <1>5. claim[c] \in {Stored(c)'} \cup Follows(Stored(c)')
    BY <1>3, <1>4 DEF Ordered
  <1>6. ASSUME NEW i \in 1 .. Len(t)
        PROVE  /\ t[i] \in Follows(Stored(c)')
               /\ claim[c] \in {t[i]} \cup Follows(t[i])
               /\ \A j \in 1 .. Len(t) : i < j => t[j] \in Follows(t[i])
    <2>1. /\ i + 1 \in 1 .. Len(s) /\ 1 \in 1 .. Len(s) /\ 1 < i + 1
          /\ t[i] = s[i + 1]
      BY <1>3
    <2>2. /\ s[i + 1] \in Follows(s[1]) /\ s[i + 1] \in Follows(Stored(c))
          /\ claim[c] \in {s[i + 1]} \cup Follows(s[i + 1])
      BY <2>1 DEF Ordered
    <2>3. ASSUME NEW j \in 1 .. Len(t), i < j
          PROVE  t[j] \in Follows(s[i + 1])
      <3>1. /\ j + 1 \in 1 .. Len(s) /\ i + 1 < j + 1
            /\ t[j] = s[j + 1]
        BY <1>3, <2>3
      <3> QED BY <2>1, <3>1 DEF Ordered
    <2> HIDE DEF s
    <2> QED BY <1>4, <2>1, <2>2, <2>3
  <1> QED BY <1>2, <1>5, <1>6 DEF Ordered

\* A write says nothing new about PVs unless it binds the claim.
LEMMA HasPVWrite ==
    ASSUME TypeOK, NEW c \in Claims, NEW version \in Live \cup {"gone"},
           Write(c, version), HasPV(c),
           claimsIndexer'[c] = claimsIndexer[c],
           work'[c] \in {work[c], version},
           volumes'[c] = volumes[c],
           pv[c] # "none" => pv'[c] # "none",
           version = "bound" => pv'[c] # "none"
    PROVE  HasPV(c)'
  <1> DEFINE s == watch[c]
             t == Append(s, version)
  <1>1. s \in Seq(Live \cup {"gone"})
    BY DEF TypeOK
  <1>2. watch'[c] = t /\ claim'[c] = version
    BY DEF Write, TypeOK
  <1>3. /\ Len(t) = Len(s) + 1
        /\ t[Len(s) + 1] = version
        /\ \A i \in 1 .. Len(s) : t[i] = s[i]
        /\ Len(s) \in Nat
    BY <1>1, WatchAppend
  <1> HIDE DEF t
  <1>4. ASSUME NEW i \in 1 .. Len(t), t[i] = "bound"
        PROVE  pv'[c] # "none"
    <2>1. CASE i \in 1 .. Len(s)
      BY <1>3, <1>4, <2>1 DEF HasPV
    <2>2. CASE i = Len(s) + 1
      BY <1>3, <1>4, <2>2
    <2> QED BY <1>3, <2>1, <2>2
  <1> QED BY <1>2, <1>4 DEF HasPV

\* No unrelated updates, no configuration changes and no crashes.
StableEnv == Env \cap {"touch", "config", "crash"} = {}

\* The parts of ClaimInv that are about the worker and the driver carry over
\* when a write leaves those, and the cache, alone.
LEMMA WriteInv ==
    ASSUME TypeOK, NEW c \in Claims, ClaimInv(c),
           NEW version \in Live \cup {"gone"}, Write(c, version),
           version \in Follows(Stored(c)),
           \A i \in 1 .. Len(watch[c]) : version \in Follows(watch[c][i]),
           UNCHANGED <<claimsIndexer, memVars, workerVars, pvcNodeStore, valid,
                       driverVars, volumes, unsaved>>,
           pv'[c] = "none" <=> pv[c] = "none",
           version = "bound" => pv'[c] # "none"
    PROVE  ClaimInv(c)'
  <1>1. Ordered(c)'
    BY OrderedWrite DEF ClaimInv, Stored, workerVars
  <1>2. HasPV(c)'
    BY HasPVWrite DEF ClaimInv, workerVars
  <1>3. Current(c)' /\ Driver(c)' /\ (Secured(c) => vol[c] = "good")'
    BY DEF ClaimInv, Current, Driver, Secured, Allocated, NeedsNode, memVars,
       workerVars, driverVars
  <1>4. Tracked(c)'
    BY DEF ClaimInv, Tracked, Secured, Allocated, memVars, workerVars,
       driverVars
  <1> QED BY <1>1, <1>2, <1>3, <1>4 DEF ClaimInv

LEMMA InvEnvironment ==
    ASSUME StableEnv, TypeOK, NEW c \in Claims, ClaimInv(c), Environment(c)
    PROVE  ClaimInv(c)'
  <1>1. CASE CreateClaim(c)
    <2>1. PICK version \in {"immediate", "unscheduled"} : Write(c, version)
      BY <1>1 DEF CreateClaim
    <2>2. Stored(c) = "none"
      BY <1>1 DEF CreateClaim, ClaimInv, Ordered, Stored, Follows, TypeOK
    <2>3. \A i \in 1 .. Len(watch[c]) : FALSE
      BY <1>1 DEF CreateClaim, ClaimInv, Ordered, Follows, TypeOK
    <2> QED BY <1>1, <2>1, <2>2, <2>3, WriteInv
            DEF CreateClaim, Follows, memVars, workerVars, driverVars, pvVars
  <1>2. CASE DeleteClaim(c)
    <2>1. "gone" \in Follows(Stored(c))
      BY <1>2 DEF DeleteClaim, ClaimInv, Ordered, Stored, Follows, TypeOK
    <2>2. \A i \in 1 .. Len(watch[c]) : "gone" \in Follows(watch[c][i])
      BY <1>2 DEF DeleteClaim, ClaimInv, Ordered, Follows, TypeOK
    <2> QED BY <1>2, <2>1, <2>2, WriteInv
            DEF DeleteClaim, memVars, workerVars, driverVars, pvVars
  <1>3. CASE TouchClaim(c)
    BY <1>3 DEF TouchClaim, StableEnv
  <1>4. CASE SelectNode(c)
    <2>1. "scheduled" \in Follows(Stored(c))
      BY <1>4 DEF SelectNode, ClaimInv, Ordered, Stored, Follows, TypeOK
    <2>2. \A i \in 1 .. Len(watch[c]) : "scheduled" \in Follows(watch[c][i])
      BY <1>4 DEF SelectNode, ClaimInv, Ordered, Follows, TypeOK
    <2> QED BY <1>4, <2>1, <2>2, WriteInv
            DEF SelectNode, memVars, workerVars, driverVars, pvVars
  <1>5. CASE NodeGone(c)
    BY <1>5, SameInv DEF NodeGone, Same, apiVars, memVars, workerVars,
       driverVars, pvVars
  <1>6. CASE ConfigChange(c)
    BY <1>6 DEF ConfigChange, StableEnv
  <1>7. CASE Bind(c)
    <2>1. "bound" \in Follows(Stored(c))
      BY <1>7 DEF Bind, ClaimInv, Ordered, Stored, Follows, TypeOK
    <2>2. \A i \in 1 .. Len(watch[c]) : "bound" \in Follows(watch[c][i])
      BY <1>7 DEF Bind, ClaimInv, Ordered, Follows, TypeOK
    <2>3. pv[c] # "none" /\ pv'[c] # "none"
      BY <1>7 DEF Bind, TypeOK
    <2> QED BY <1>7, <2>1, <2>2, <2>3, WriteInv
            DEF Bind, memVars, workerVars, driverVars
  <1>8. CASE DeliverClaim(c)
    <2> DEFINE s == watch[c]
    <2>1. s \in Seq(Live \cup {"gone"}) /\ s # <<>>
      BY <1>8 DEF TypeOK, DeliverClaim
    <2>2. /\ watch'[c] = Tail(s)
          /\ claimsIndexer'[c] = s[1]
      BY <1>8, <2>1, WatchTail DEF DeliverClaim, TypeOK
    <2>3. /\ Len(Tail(s)) = Len(s) - 1
          /\ \A i \in 1 .. Len(s) - 1 : Tail(s)[i] = s[i + 1]
          /\ Len(s) \in Nat \ {0}
      BY <2>1, WatchTail
    <2>4. pc[c] # "updatestore" => s[1] \in Follows(claimsIndexer[c])
      BY <2>3 DEF ClaimInv, Ordered, Stored
    <2>5. Ordered(c)'
      BY <1>8, OrderedDeliver DEF ClaimInv
    <2>6. HasPV(c)'
      BY <1>8, <2>2, <2>3 DEF DeliverClaim, ClaimInv, HasPV, workerVars,
         pvVars
    <2>7. Current(c)'
      BY <1>8, <2>2, <2>4 DEF DeliverClaim, ClaimInv, Current, Follows,
         NeedsNode, workerVars
    <2>8. Driver(c)' /\ (Secured(c) => vol[c] = "good")' /\ Tracked(c)'
      BY <1>8 DEF DeliverClaim, ClaimInv, Driver, Tracked, Secured, Allocated,
         workerVars, driverVars, pvVars
    <2> QED BY <2>5, <2>6, <2>7, <2>8 DEF ClaimInv
  <1>9. CASE ResyncClaim(c)
    BY <1>9 DEF ResyncClaim, ClaimInv, Ordered, Stored, Current, HasPV, Driver,
       Tracked, Secured, Allocated, NeedsNode, apiVars, workerVars,
       driverVars, pvVars
  <1>10. CASE DeliverVolume(c)
    BY <1>10 DEF DeliverVolume, ClaimInv, Ordered, Stored, Current, HasPV,
       Driver, Tracked, Secured, Allocated, NeedsNode, apiVars, memVars, workerVars,
       driverVars, TypeOK
  <1>11. CASE DriverCreates(c)
    BY <1>11 DEF DriverCreates, ClaimInv, Ordered, Stored, Current, HasPV,
       Driver, Tracked, Secured, Allocated, NeedsNode, apiVars, memVars, workerVars,
       pvVars, TypeOK
  <1>12. CASE DriverFails(c)
    BY <1>12 DEF DriverFails, ClaimInv, Ordered, Stored, Current, HasPV,
       Driver, Tracked, Secured, Allocated, NeedsNode, apiVars, memVars, workerVars,
       pvVars, TypeOK
  <1> QED BY <1>1, <1>2, <1>3, <1>4, <1>5, <1>6, <1>7, <1>8, <1>9, <1>10,
             <1>11, <1>12 DEF Environment

\* What EndSync does to the claim's own entries.
LEMMA EndSyncEffect ==
    ASSUME TypeOK, NEW c \in Claims, NEW state, NEW err, EndSync(c, state, err)
    PROVE  /\ pc'[c] = "idle"
           /\ work'[c] = "none"
           /\ claimsInProgress'[c] = InProgressAfter(c, state, err)
  BY DEF TypeOK, EndSync

\* Rescheduling writes its version to the API server, and no older one is on
\* its way.
LEMMA OrderedReschedule ==
    ASSUME TypeOK, NEW c \in Claims, Ordered(c), Current(c), Reschedule(c)
    PROVE  /\ Ordered(c)'
           /\ claim[c] \in {"scheduled", "bound"}
           /\ Write(c, Unselected(claim[c]))
           /\ pc'[c] = "updatestore"
           /\ work'[c] = Unselected(claim[c])
           /\ claimsInProgress' = claimsInProgress
  <1> DEFINE v == Unselected(claim[c])
             s == watch[c]
             t == Append(s, v)
  <1>1. /\ Stored(c) = claimsIndexer[c]
        /\ claimsIndexer[c] \in {"scheduled", "bound", "gone"}
    BY DEF Reschedule, Current, NeedsNode, Stored
  <1>2. claim[c] \in {"scheduled", "bound"}
    BY <1>1 DEF Reschedule, Ordered, Follows
  <1>3. \A i \in 1 .. Len(s) : s[i] = v
    BY <1>1, <1>2 DEF Ordered, Follows, Unselected
  <1>4. v \in Live /\ v \in Follows(v)
    BY <1>2 DEF Unselected, Follows
  <1>5. /\ Write(c, v) /\ claimsInProgress' = claimsInProgress
        /\ pc'[c] = "updatestore" /\ work'[c] = v
    BY <1>2 DEF Reschedule, TypeOK
  <1>6. claim'[c] = v /\ Stored(c)' = v /\ watch'[c] = t
    BY <1>5 DEF Write, Stored, TypeOK
  <1>7. /\ Len(t) = Len(s) + 1
        /\ t[Len(s) + 1] = v
        /\ \A i \in 1 .. Len(s) : t[i] = s[i]
        /\ Len(s) \in Nat
    BY <1>4, WatchAppend DEF TypeOK
  <1> HIDE DEF t, v
  <1>8. ASSUME NEW i \in 1 .. Len(t) PROVE t[i] = v
    <2> HIDE DEF s
    <2>1. CASE i \in 1 .. Len(s)
      BY <1>3, <1>7, <2>1
    <2>2. CASE i = Len(s) + 1
      BY <1>7, <2>2
    <2>3. Len(s) \in Nat /\ Len(t) = Len(s) + 1
      BY <1>7
    <2>4. i \in 1 .. Len(s) \/ i = Len(s) + 1
      BY <2>3
    <2> QED BY <2>1, <2>2, <2>4
  <1>9. Ordered(c)'
    BY <1>4, <1>6, <1>8 DEF Ordered
  <1> QED BY <1>2, <1>5, <1>9 DEF v

LEMMA InvWorker ==
    ASSUME StableEnv, TypeOK, NEW c \in Claims, ClaimInv(c), Worker(c)
    PROVE  ClaimInv(c)'
  <1> USE DEF ClaimInv
  <1>1. CASE SyncClaim(c)
    <2>1. CASE shouldProvision(ClaimObject(c))
      <3>1. /\ pc'[c] = "operation"
            /\ work'[c] = ClaimObject(c)
            /\ claimsInProgress'[c] = claimsInProgress[c]
            /\ pc[c] = "idle"
        BY <1>1, <2>1 DEF SyncClaim, TypeOK
      <3> QED BY <1>1, <2>1, <3>1
              DEF SyncClaim, ClaimObject, shouldProvision, Ordered, Stored,
                  Current, HasPV, Driver, Tracked, Secured, Allocated, NeedsNode,
                  apiVars, driverVars, pvVars
    <2>2. CASE ~shouldProvision(ClaimObject(c))
      <3>1. /\ pc'[c] = pc[c] /\ pc[c] = "idle"
            /\ work'[c] = work[c]
            /\ claimsInProgress'[c] = "none"
        BY <1>1, <2>2 DEF SyncClaim, TypeOK, workerVars
      <3>2. Secured(c) \/ ~Allocated(c)
        BY <2>2, <3>1 DEF ClaimObject, shouldProvision, Current, HasPV,
           Tracked, Secured
      <3> QED BY <1>1, <3>1, <3>2
              DEF SyncClaim, Ordered, Stored, Current, HasPV, Driver, Tracked,
                  Secured, Allocated, NeedsNode, apiVars, driverVars, pvVars
    <2> QED BY <2>1, <2>2
  <1>2. CASE ProvisionClaimOperation(c)
    BY <1>2, EndSyncEffect
       DEF ProvisionClaimOperation, InProgressAfter, Ordered, Stored, Current,
           HasPV, Driver, Tracked, Secured, Allocated, NeedsNode, apiVars, memVars,
           workerVars, driverVars, pvVars, TypeOK
  <1>3. CASE PrepareFails(c)
    BY <1>3, EndSyncEffect
       DEF PrepareFails, InProgressAfter, CacheNode, Ordered, Stored, Current,
           HasPV, Driver, Tracked, Secured, Allocated, NeedsNode, apiVars, memVars,
           workerVars, driverVars, pvVars, TypeOK
  <1>4. CASE PrepareRejects(c)
    BY <1>4, EndSyncEffect
       DEF PrepareRejects, InProgressAfter, Ordered, Stored, Current, HasPV,
           Driver, Tracked, Secured, Allocated, NeedsNode, apiVars, memVars,
           workerVars, driverVars, pvVars, TypeOK
  <1>5. CASE PrepareReschedules(c)
    BY <1>5
       DEF PrepareReschedules, NodeKnown, Ordered, Stored, Current, HasPV,
           Driver, Tracked, Secured, Allocated, NeedsNode, apiVars, memVars,
           workerVars, driverVars, pvVars, TypeOK
  <1>6. CASE CallCreateVolume(c)
    BY <1>6
       DEF CallCreateVolume, CacheNode, Ordered, Stored, Current, HasPV,
           Driver, Tracked, Secured, Allocated, NeedsNode, apiVars, memVars,
           workerVars, driverVars, pvVars, TypeOK
  <1>7. CASE CreateVolumeFails(c)
    <2>1. PICK code \in TransientCodes \cup FinalCodes :
            LET state == checkError(code, NeedsNode(c)) IN
            /\ code \in FinalCodes => ~Allocated(c)
            /\ ForgetNode(c, state)
            /\ IF state = "Reschedule"
               THEN /\ pc' = [pc EXCEPT ![c] = "reschedule"]
                    /\ UNCHANGED <<work, claimQueue, claimsInProgress>>
               ELSE EndSync(c, state, "error")
      BY <1>7 DEF CreateVolumeFails
    <2> DEFINE state == checkError(code, NeedsNode(c))
    <2>2. pc[c] = "create"
      BY <1>7 DEF CreateVolumeFails
    <2>3. CASE state = "Reschedule"
      <3>1. NeedsNode(c) /\ code \in FinalCodes
        BY <2>3 DEF checkError, FinalCodes, TransientCodes
      <3>2. /\ pc'[c] = "reschedule"
            /\ work' = work /\ claimsInProgress' = claimsInProgress
        BY <2>1, <2>3 DEF TypeOK
      <3> QED BY <1>7, <2>1, <2>2, <3>1, <3>2
              DEF CreateVolumeFails, Ordered, Stored, Current, HasPV, Driver,
                  Tracked, Secured, Allocated, NeedsNode, apiVars, driverVars, pvVars
    <2>4. CASE state = "Background"
      <3>1. /\ pc'[c] = "idle" /\ work'[c] = "none"
            /\ claimsInProgress'[c] = work[c]
            /\ pvcNodeStore' = pvcNodeStore
        BY <2>1, <2>4, EndSyncEffect DEF InProgressAfter, ForgetNode
      <3> QED BY <1>7, <2>2, <3>1
              DEF CreateVolumeFails, Ordered, Stored, Current, HasPV, Driver,
                  Tracked, Secured, Allocated, NeedsNode, apiVars, driverVars, pvVars
    <2>5. CASE state = "Finished"
      <3>1. code \in FinalCodes
        BY <2>5 DEF checkError, FinalCodes, TransientCodes
      <3>2. /\ pc'[c] = "idle" /\ work'[c] = "none"
            /\ claimsInProgress'[c] = "none"
        BY <2>1, <2>5, EndSyncEffect DEF InProgressAfter
      <3> QED BY <1>7, <2>1, <2>2, <3>1, <3>2
              DEF CreateVolumeFails, Ordered, Stored, Current, HasPV, Driver,
                  Tracked, Secured, Allocated, NeedsNode, apiVars, driverVars, pvVars
    <2>6. state \in {"Reschedule", "Background", "Finished"}
      BY DEF checkError
    <2> QED BY <2>3, <2>4, <2>5, <2>6
  <1>8. CASE CreateVolumeSucceeds(c)
    BY <1>8
       DEF CreateVolumeSucceeds, Accepts, Ordered, Stored, Current, HasPV,
           Driver, Tracked, Secured, Allocated, NeedsNode, apiVars, memVars,
           workerVars, driverVars, pvVars, TypeOK
  <1>9. CASE CleanupVolume(c)
    BY <1>9, EndSyncEffect
       DEF CleanupVolume, InProgressAfter, Accepts, Ordered, Stored, Current,
           HasPV, Driver, Tracked, Secured, Allocated, NeedsNode, apiVars, memVars,
           workerVars, driverVars, pvVars, TypeOK
  <1>10. CASE TranslateFails(c)
    BY <1>10, EndSyncEffect
       DEF TranslateFails, InProgressAfter, Ordered, Stored, Current, HasPV,
           Driver, Tracked, Secured, Allocated, NeedsNode, apiVars, memVars,
           workerVars, driverVars, pvVars, TypeOK
  <1>11. CASE Reschedule(c)
    <2> DEFINE v == Unselected(claim[c])
    <2>1. /\ Ordered(c)'
          /\ claim[c] \in {"scheduled", "bound"}
          /\ Write(c, v)
          /\ pc'[c] = "updatestore" /\ work'[c] = v
          /\ claimsInProgress' = claimsInProgress
      BY <1>11, OrderedReschedule
    <2>2. v \in {"unscheduled", "bound"} /\ (v = "bound" => claim[c] = "bound")
      BY <2>1 DEF Unselected
    <2> HIDE DEF v
    <2>3. HasPV(c)'
      <3>1. v = "bound" => pv[c] # "none"
        BY <2>2 DEF HasPV
      <3>2. pv' = pv /\ volumes' = volumes /\ claimsIndexer' = claimsIndexer
        BY <1>11 DEF Reschedule, pvVars
      <3> QED BY <2>1, <2>2, <3>1, <3>2, HasPVWrite
    <2>4. Current(c)'
      BY <2>1, <2>2 DEF Current
    <2> QED BY <1>11, <2>1, <2>3, <2>4
            DEF Reschedule, Driver, Tracked, Secured, Allocated, driverVars,
                pvVars
  <1>12. CASE RescheduleFails(c)
    BY <1>12, EndSyncEffect
       DEF RescheduleFails, InProgressAfter, Ordered, Stored, Current, HasPV,
           Driver, Tracked, Secured, Allocated, NeedsNode, apiVars, memVars,
           workerVars, driverVars, pvVars, TypeOK
  <1>13. CASE StoreVolume(c)
    BY <1>13, EndSyncEffect
       DEF StoreVolume, InProgressAfter, doSaveVolume, Ordered, Stored, Current,
           HasPV, Driver, Tracked, Secured, Allocated, NeedsNode, apiVars, memVars,
           workerVars, driverVars, pvVars, TypeOK
  <1>14. CASE SaveQueuedVolume(c)
    BY <1>14
       DEF SaveQueuedVolume, doSaveVolume, Ordered, Stored, Current, HasPV,
           Driver, Tracked, Secured, Allocated, NeedsNode, apiVars, memVars,
           workerVars, driverVars, pvVars, TypeOK
  <1>15. CASE SlowRetryDue(c)
    BY <1>15
       DEF SlowRetryDue, Ordered, Stored, Current, HasPV,
           Driver, Tracked, Secured, Allocated, NeedsNode, apiVars, memVars,
           workerVars, driverVars, pvVars, TypeOK
  <1>16. CASE UpdateStore(c)
    <2>1. /\ pc[c] = "updatestore" /\ pc'[c] = "idle" /\ work'[c] = "none"
          /\ claimsInProgress'[c] = "none" /\ claimsIndexer'[c] = work[c]
      BY <1>16, EndSyncEffect DEF UpdateStore, InProgressAfter, TypeOK
    <2>2. Stored(c)' = Stored(c)
      BY <2>1 DEF Stored
    <2>3. Ordered(c)'
      BY <1>16, <2>2 DEF UpdateStore, Ordered, apiVars
    <2> QED BY <1>16, <2>1, <2>3
            DEF UpdateStore, Current, HasPV, Driver, Tracked, Secured,
                Allocated, apiVars, driverVars, pvVars
  <1> QED BY <1>1, <1>2, <1>3, <1>4, <1>5, <1>6, <1>7, <1>8, <1>9, <1>10,
             <1>11, <1>12, <1>13, <1>14, <1>15, <1>16
          DEF Worker

-----------------------------------------------------------------------------
(***************************************************************************)
(* The theorems.                                                           *)
(***************************************************************************)
LEMMA LeakInvInit == Init => LeakInv
  <1> SUFFICES ASSUME Init PROVE LeakInv
    OBVIOUS
  <1>1. TypeOK
    <2>1. <<>> \in Seq(Live \cup {"gone"})
      OBVIOUS
    <2> QED BY <2>1 DEF Init, TypeOK
  <1>2. ASSUME NEW c \in Claims PROVE ClaimInv(c)
    <2>1. Len(watch[c]) = 0
      BY DEF Init
    <2> QED BY <2>1 DEF Init, ClaimInv, Ordered, Stored, Current, HasPV,
               Driver, Tracked, Secured, Allocated, Follows
  <1> QED BY <1>1, <1>2 DEF LeakInv

LEMMA LeakInvStep ==
    ASSUME StableEnv, LeakInv, [Next]_vars
    PROVE  LeakInv'
  <1> USE DEF LeakInv
  <1>1. ASSUME NEW c \in Claims, Environment(c) \/ Worker(c)
        PROVE  LeakInv'
    <2>1. TypeOK'
      BY <1>1, TypeEnvironment, TypeWorker
    <2>2. ASSUME NEW d \in Claims PROVE ClaimInv(d)'
      <3>1. CASE d = c
        BY <1>1, <3>1, InvEnvironment, InvWorker
      <3>2. CASE d # c
        BY <1>1, <3>2, FrameEnvironment, FrameWorker, SameInv
      <3> QED BY <3>1, <3>2
    <2> QED BY <2>1, <2>2
  <1>2. CASE Restart
    BY <1>2 DEF Restart, StableEnv
  <1>3. CASE UNCHANGED vars
    <2>1. TypeOK'
      BY <1>3 DEF vars, TypeOK, apiVars, memVars, workerVars, driverVars,
         pvVars
    <2>2. \A d \in Claims : Same(d)
      BY <1>3 DEF vars, Same, apiVars, memVars, workerVars, driverVars, pvVars
    <2> QED BY <2>1, <2>2, SameInv
  <1> QED BY <1>1, <1>2, <1>3 DEF Next

\* Storage that exists or may come to exist is accounted for, for any number
\* of claims, in an environment without unrelated claim updates,
\* configuration changes and crashes.
THEOREM NothingLeaks == ASSUME StableEnv PROVE Spec => []NoLeak
  <1>1. LeakInv => NoLeak
    BY DEF LeakInv, ClaimInv, Tracked, Secured, NoLeak
  <1> QED BY <1>1, LeakInvInit, LeakInvStep, PTL DEF Spec

-----------------------------------------------------------------------------
(***************************************************************************)
(* Two invariants that hold in every environment, crashes included.        *)
(***************************************************************************)
Queued(c) == claimsInProgress[c] # "none" => c \in claimQueue \/ pc[c] # "idle"

\* Only an error leaves a claim in claimsInProgress, and it requeues it.
LEMMA EndSyncQueued ==
    ASSUME TypeOK, NEW c \in Claims, NEW state, NEW err, EndSync(c, state, err)
    PROVE  Queued(c)'
  <1>1. CASE err = "error"
    BY <1>1 DEF EndSync, QueueAfter, Queued
  <1>2. CASE err # "error"
    <2>1. InProgressAfter(c, state, err) = "none"
      BY <1>2 DEF InProgressAfter
    <2>2. claimsInProgress'[c] = InProgressAfter(c, state, err)
      BY EndSyncEffect
    <2> QED BY <2>1, <2>2 DEF Queued
  <1> QED BY <1>1, <1>2

LEMMA QueuedStep ==
    ASSUME TypeOK, NEW c \in Claims, Queued(c), Environment(c) \/ Worker(c)
    PROVE  Queued(c)'
  <1>1. CASE CreateClaim(c)
    BY <1>1 DEF CreateClaim, Queued, memVars, workerVars, TypeOK
  <1>2. CASE DeleteClaim(c)
    BY <1>2 DEF DeleteClaim, Queued, memVars, workerVars, TypeOK
  <1>3. CASE TouchClaim(c)
    BY <1>3 DEF TouchClaim, Queued, memVars, workerVars, TypeOK
  <1>4. CASE SelectNode(c)
    BY <1>4 DEF SelectNode, Queued, memVars, workerVars, TypeOK
  <1>5. CASE NodeGone(c)
    BY <1>5 DEF NodeGone, Queued, memVars, workerVars, TypeOK
  <1>6. CASE ConfigChange(c)
    BY <1>6 DEF ConfigChange, Queued, memVars, workerVars, TypeOK
  <1>7. CASE Bind(c)
    BY <1>7 DEF Bind, Queued, memVars, workerVars, TypeOK
  <1>8. CASE DeliverClaim(c)
    BY <1>8 DEF DeliverClaim, Queued, memVars, workerVars, TypeOK
  <1>9. CASE ResyncClaim(c)
    BY <1>9 DEF ResyncClaim, Queued, memVars, workerVars, TypeOK
  <1>10. CASE DeliverVolume(c)
    BY <1>10 DEF DeliverVolume, Queued, memVars, workerVars, TypeOK
  <1>11. CASE DriverCreates(c)
    BY <1>11 DEF DriverCreates, Queued, memVars, workerVars, TypeOK
  <1>12. CASE DriverFails(c)
    BY <1>12 DEF DriverFails, Queued, memVars, workerVars, TypeOK
  <1>13. CASE SyncClaim(c)
    BY <1>13 DEF SyncClaim, Queued, memVars, workerVars, TypeOK
  <1>14. CASE ProvisionClaimOperation(c)
    BY <1>14, EndSyncQueued
       DEF ProvisionClaimOperation, Queued, memVars, workerVars, TypeOK
  <1>15. CASE PrepareFails(c)
    BY <1>15, EndSyncQueued
       DEF PrepareFails, Queued, memVars, workerVars, TypeOK
  <1>16. CASE PrepareRejects(c)
    BY <1>16, EndSyncQueued
       DEF PrepareRejects, Queued, memVars, workerVars, TypeOK
  <1>17. CASE PrepareReschedules(c)
    BY <1>17 DEF PrepareReschedules, Queued, memVars, workerVars, TypeOK
  <1>18. CASE CallCreateVolume(c)
    BY <1>18 DEF CallCreateVolume, Queued, memVars, workerVars, TypeOK
  <1>19. CASE CreateVolumeFails(c)
    BY <1>19, EndSyncQueued
       DEF CreateVolumeFails, Queued, memVars, workerVars, TypeOK
  <1>20. CASE CreateVolumeSucceeds(c)
    BY <1>20 DEF CreateVolumeSucceeds, Queued, memVars, workerVars, TypeOK
  <1>21. CASE CleanupVolume(c)
    BY <1>21, EndSyncQueued
       DEF CleanupVolume, Queued, memVars, workerVars, TypeOK
  <1>22. CASE TranslateFails(c)
    BY <1>22, EndSyncQueued
       DEF TranslateFails, Queued, memVars, workerVars, TypeOK
  <1>23. CASE Reschedule(c)
    BY <1>23, EndSyncQueued
       DEF Reschedule, Queued, memVars, workerVars, TypeOK
  <1>24. CASE RescheduleFails(c)
    BY <1>24, EndSyncQueued
       DEF RescheduleFails, Queued, memVars, workerVars, TypeOK
  <1>25. CASE StoreVolume(c)
    BY <1>25, EndSyncQueued
       DEF StoreVolume, Queued, memVars, workerVars, TypeOK
  <1>26. CASE SaveQueuedVolume(c)
    BY <1>26 DEF SaveQueuedVolume, Queued, memVars, workerVars, TypeOK
  <1>27. CASE SlowRetryDue(c)
    BY <1>27 DEF SlowRetryDue, Queued, memVars, workerVars, TypeOK
  <1>28. CASE UpdateStore(c)
    BY <1>28, EndSyncQueued DEF UpdateStore
  <1> QED
    BY <1>1, <1>2, <1>3, <1>4, <1>5, <1>6, <1>7, <1>8, <1>9, <1>10, <1>11,
       <1>12, <1>13, <1>14, <1>15, <1>16, <1>17, <1>18, <1>19, <1>20, <1>21,
       <1>22, <1>23, <1>24, <1>25, <1>26, <1>27, <1>28
       DEF Environment, Worker

\* A claim in claimsInProgress cannot be forgotten.
THEOREM InProgressNotForgotten == Spec => []InProgressIsQueued
  <1> DEFINE Inv == TypeOK /\ \A c \in Claims : Queued(c)
  <1>1. Init => Inv
    <2>1. <<>> \in Seq(Live \cup {"gone"})
      OBVIOUS
    <2> QED BY <2>1 DEF Init, TypeOK, Queued
  <1>2. Inv /\ [Next]_vars => Inv'
    <2> SUFFICES ASSUME Inv, [Next]_vars PROVE Inv'
      OBVIOUS
    <2>1. ASSUME NEW c \in Claims, Environment(c) \/ Worker(c) PROVE Inv'
      <3>1. TypeOK'
        BY <2>1, TypeEnvironment, TypeWorker
      <3>2. ASSUME NEW d \in Claims, d # c PROVE Queued(d)'
        BY <2>1, <3>2, FrameEnvironment, FrameWorker DEF Queued, Same
      <3> QED BY <2>1, <3>1, <3>2, QueuedStep
    <2>2. CASE Restart
      <3>1. <<>> \in Seq(Live \cup {"gone"})
        OBVIOUS
      <3> QED BY <2>2, <3>1 DEF Restart, TypeOK, Queued, driverVars
    <2>3. CASE UNCHANGED vars
      BY <2>3 DEF vars, TypeOK, Queued, apiVars, memVars, workerVars,
         driverVars, pvVars
    <2> QED BY <2>1, <2>2, <2>3 DEF Next
  <1>3. Inv => InProgressIsQueued
    BY DEF Queued, InProgressIsQueued
  <1> QED BY <1>1, <1>2, <1>3, PTL DEF Spec

Backed(c) ==
    /\ c \in creating => vol[c] = "none"
    /\ Secured(c) => vol[c] = "good"

LEMMA BackedStep ==
    ASSUME TypeOK, NEW c \in Claims, Backed(c), Environment(c) \/ Worker(c)
    PROVE  Backed(c)'
  <1>1. CASE CreateClaim(c)
    BY <1>1
       DEF CreateClaim, Backed, Secured, workerVars, driverVars, pvVars,
           TypeOK
  <1>2. CASE DeleteClaim(c)
    BY <1>2
       DEF DeleteClaim, Backed, Secured, workerVars, driverVars, pvVars,
           TypeOK
  <1>3. CASE TouchClaim(c)
    BY <1>3
       DEF TouchClaim, Backed, Secured, workerVars, driverVars, pvVars,
           TypeOK
  <1>4. CASE SelectNode(c)
    BY <1>4
       DEF SelectNode, Backed, Secured, workerVars, driverVars, pvVars,
           TypeOK
  <1>5. CASE NodeGone(c)
    BY <1>5
       DEF NodeGone, Backed, Secured, workerVars, driverVars, pvVars, TypeOK
  <1>6. CASE ConfigChange(c)
    BY <1>6
       DEF ConfigChange, Backed, Secured, workerVars, driverVars, pvVars,
           TypeOK
  <1>7. CASE Bind(c)
    BY <1>7 DEF Bind, Backed, Secured, workerVars, driverVars, pvVars, TypeOK
  <1>8. CASE DeliverClaim(c)
    BY <1>8
       DEF DeliverClaim, Backed, Secured, workerVars, driverVars, pvVars,
           TypeOK
  <1>9. CASE ResyncClaim(c)
    BY <1>9
       DEF ResyncClaim, Backed, Secured, workerVars, driverVars, pvVars,
           TypeOK
  <1>10. CASE DeliverVolume(c)
    BY <1>10
       DEF DeliverVolume, Backed, Secured, workerVars, driverVars, pvVars,
           TypeOK
  <1>11. CASE DriverCreates(c)
    BY <1>11
       DEF DriverCreates, Backed, Secured, workerVars, driverVars, pvVars,
           TypeOK
  <1>12. CASE DriverFails(c)
    BY <1>12
       DEF DriverFails, Backed, Secured, workerVars, driverVars, pvVars,
           TypeOK
  <1>13. CASE SyncClaim(c)
    BY <1>13
       DEF SyncClaim, Backed, Secured, workerVars, driverVars, pvVars, TypeOK
  <1>14. CASE ProvisionClaimOperation(c)
    BY <1>14, EndSyncEffect
       DEF ProvisionClaimOperation, Backed, Secured, workerVars, driverVars,
           pvVars, TypeOK
  <1>15. CASE PrepareFails(c)
    BY <1>15, EndSyncEffect
       DEF PrepareFails, Backed, Secured, workerVars, driverVars, pvVars,
           TypeOK
  <1>16. CASE PrepareRejects(c)
    BY <1>16, EndSyncEffect
       DEF PrepareRejects, Backed, Secured, workerVars, driverVars, pvVars,
           TypeOK
  <1>17. CASE PrepareReschedules(c)
    BY <1>17
       DEF PrepareReschedules, Backed, Secured, workerVars, driverVars,
           pvVars, TypeOK
  <1>18. CASE CallCreateVolume(c)
    BY <1>18
       DEF CallCreateVolume, Backed, Secured, workerVars, driverVars, pvVars,
           TypeOK
  <1>19. CASE CreateVolumeFails(c)
    BY <1>19, EndSyncEffect
       DEF CreateVolumeFails, Backed, Secured, workerVars, driverVars, pvVars,
           TypeOK
  <1>20. CASE CreateVolumeSucceeds(c)
    BY <1>20
       DEF CreateVolumeSucceeds, Accepts, Backed, Secured, workerVars,
           driverVars, pvVars, TypeOK
  <1>21. CASE CleanupVolume(c)
    BY <1>21, EndSyncEffect
       DEF CleanupVolume, Accepts, Backed, Secured, workerVars, driverVars,
           pvVars, TypeOK
  <1>22. CASE TranslateFails(c)
    BY <1>22, EndSyncEffect
       DEF TranslateFails, Backed, Secured, workerVars, driverVars, pvVars,
           TypeOK
  <1>23. CASE Reschedule(c)
    BY <1>23, EndSyncEffect
       DEF Reschedule, Backed, Secured, workerVars, driverVars, pvVars,
           TypeOK
  <1>24. CASE RescheduleFails(c)
    BY <1>24, EndSyncEffect
       DEF RescheduleFails, Backed, Secured, workerVars, driverVars, pvVars,
           TypeOK
  <1>25. CASE StoreVolume(c)
    BY <1>25, EndSyncEffect
       DEF StoreVolume, doSaveVolume, Backed, Secured, workerVars, driverVars,
           pvVars, TypeOK
  <1>26. CASE SaveQueuedVolume(c)
    BY <1>26
       DEF SaveQueuedVolume, doSaveVolume, Backed, Secured, workerVars,
           driverVars, pvVars, TypeOK
  <1>27. CASE SlowRetryDue(c)
    BY <1>27
       DEF SlowRetryDue, Backed, Secured, workerVars, driverVars, pvVars,
           TypeOK
  <1>28. CASE UpdateStore(c)
    BY <1>28, EndSyncEffect
       DEF UpdateStore, Backed, Secured, driverVars, pvVars
  <1> QED
    BY <1>1, <1>2, <1>3, <1>4, <1>5, <1>6, <1>7, <1>8, <1>9, <1>10, <1>11,
       <1>12, <1>13, <1>14, <1>15, <1>16, <1>17, <1>18, <1>19, <1>20, <1>21,
       <1>22, <1>23, <1>24, <1>25, <1>26, <1>27, <1>28
       DEF Environment, Worker

\* Every PV has a volume that satisfies the claim.
THEOREM PVsAreBacked == Spec => []PVBacked
  <1> DEFINE Inv == TypeOK /\ \A c \in Claims : Backed(c)
  <1>1. Init => Inv
    <2>1. <<>> \in Seq(Live \cup {"gone"})
      OBVIOUS
    <2> QED BY <2>1 DEF Init, TypeOK, Backed, Secured
  <1>2. Inv /\ [Next]_vars => Inv'
    <2> SUFFICES ASSUME Inv, [Next]_vars PROVE Inv'
      OBVIOUS
    <2>1. ASSUME NEW c \in Claims, Environment(c) \/ Worker(c) PROVE Inv'
      <3>1. TypeOK'
        BY <2>1, TypeEnvironment, TypeWorker
      <3>2. ASSUME NEW d \in Claims, d # c PROVE Backed(d)'
        BY <2>1, <3>2, FrameEnvironment, FrameWorker
           DEF Backed, Secured, Same
      <3> QED BY <2>1, <3>1, <3>2, BackedStep
    <2>2. CASE Restart
      <3>1. <<>> \in Seq(Live \cup {"gone"})
        OBVIOUS
      <3> QED BY <2>2, <3>1 DEF Restart, TypeOK, Backed, Secured, driverVars
    <2>3. CASE UNCHANGED vars
      BY <2>3 DEF vars, TypeOK, Backed, Secured, apiVars, memVars, workerVars,
         driverVars, pvVars
    <2> QED BY <2>1, <2>2, <2>3 DEF Next
  <1>3. Inv => PVBacked
    BY DEF Backed, Secured, PVBacked
  <1> QED BY <1>1, <1>2, <1>3, PTL DEF Spec

-----------------------------------------------------------------------------
(***************************************************************************)
(* What a step may never do, in a stable environment.                      *)
(***************************************************************************)

\* Only Reschedule takes the selected node back.
LEMMA OnlyRescheduleUnselects ==
    ASSUME TypeOK, NEW c \in Claims, Environment(c) \/ Worker(c),
           claim[c] = "scheduled", claim'[c] = "unscheduled"
    PROVE  Reschedule(c)
  <1>1. CASE Environment(c)
    BY <1>1 DEF Environment, CreateClaim, DeleteClaim, TouchClaim, SelectNode,
       NodeGone, ConfigChange, Bind, DeliverClaim, ResyncClaim, DeliverVolume,
       DriverCreates, DriverFails, Write, apiVars, TypeOK
  <1>2. CASE Worker(c)
    BY <1>2 DEF Worker, SyncClaim, ProvisionClaimOperation, PrepareFails,
       PrepareRejects, PrepareReschedules, CallCreateVolume,
       CreateVolumeFails, CreateVolumeSucceeds, CleanupVolume, TranslateFails,
       RescheduleFails, UpdateStore, StoreVolume, SaveQueuedVolume,
       SlowRetryDue, apiVars
  <1> QED BY <1>1, <1>2

\* A claim is rescheduled only while the driver does nothing for it.
THEOREM RescheduleWhenIdle == ASSUME StableEnv
                              PROVE  Spec => RescheduleOnlyWhenIdle
  <1> DEFINE Step(c) ==
          claim[c] = "scheduled" /\ claim'[c] = "unscheduled" => c \notin creating
  <1>1. LeakInv /\ [Next]_vars => [\A c \in Claims : Step(c)]_vars
    <2> SUFFICES ASSUME LeakInv, Next, NEW c \in Claims,
                        claim[c] = "scheduled", claim'[c] = "unscheduled"
                 PROVE  c \notin creating
      OBVIOUS
    <2>1. PICK d \in Claims : Environment(d) \/ Worker(d)
      BY DEF Next, Restart, StableEnv
    <2>2. d = c
      BY <2>1, FrameEnvironment, FrameWorker DEF Same, LeakInv
    <2>3. Reschedule(c)
      BY <2>1, <2>2, OnlyRescheduleUnselects DEF LeakInv
    <2> QED BY <2>3 DEF Reschedule, LeakInv, ClaimInv, Tracked, Driver,
               Allocated
  <1> QED BY <1>1, LeakInvInit, LeakInvStep, PTL
          DEF Spec, RescheduleOnlyWhenIdle

\* CreateVolume is never called for a node that has been given up.
THEOREM OldClaimsUnused == ASSUME StableEnv
                           PROVE  Spec => NoOperationOnOldClaim
  <1> DEFINE Step(c) == pc[c] = "prepare" /\ pc'[c] = "create"
                            /\ work[c] = "scheduled" => claim[c] # "unscheduled"
  <1>1. LeakInv => \A c \in Claims : Step(c)
    BY DEF LeakInv, ClaimInv, Current, Ordered, Stored, Follows
  <1> QED BY <1>1, LeakInvInit, LeakInvStep, PTL
          DEF Spec, NoOperationOnOldClaim

\* Taking a claim out of claimsInProgress neither starts nor ends anything in
\* the driver, and the worker is not in CreateVolume afterwards.
LEMMA ForgettingStep ==
    ASSUME TypeOK, NEW c \in Claims, Environment(c) \/ Worker(c),
           claimsInProgress[c] # "none", claimsInProgress'[c] = "none"
    PROVE  pc'[c] # "create" /\ creating' = creating
  <1>1. CASE Environment(c)
    BY <1>1 DEF Environment, CreateClaim, DeleteClaim, TouchClaim, SelectNode,
       NodeGone, ConfigChange, Bind, DeliverClaim, ResyncClaim, DeliverVolume,
       DriverCreates, DriverFails, memVars
  <1>2. CASE SyncClaim(c)
    BY <1>2 DEF SyncClaim, TypeOK, driverVars, workerVars
  <1>3. CASE PrepareReschedules(c) \/ CallCreateVolume(c)
             \/ CreateVolumeSucceeds(c) \/ SaveQueuedVolume(c)
             \/ SlowRetryDue(c)
    BY <1>3 DEF PrepareReschedules, CallCreateVolume, CreateVolumeSucceeds,
       SaveQueuedVolume, SlowRetryDue, memVars
  <1>4. CASE ProvisionClaimOperation(c)
    BY <1>4, EndSyncEffect DEF ProvisionClaimOperation, driverVars
  <1>5. CASE CreateVolumeFails(c)
    BY <1>5, EndSyncEffect DEF CreateVolumeFails, driverVars
  <1>6. CASE PrepareFails(c) \/ PrepareRejects(c) \/ CleanupVolume(c)
             \/ TranslateFails(c) \/ Reschedule(c) \/ RescheduleFails(c)
             \/ UpdateStore(c) \/ StoreVolume(c)
    BY <1>6, EndSyncEffect DEF PrepareFails, PrepareRejects, CleanupVolume,
       TranslateFails, Reschedule, RescheduleFails, UpdateStore, StoreVolume,
       driverVars
  <1> QED BY <1>1, <1>2, <1>3, <1>4, <1>5, <1>6 DEF Worker

\* A claim leaves claimsInProgress only when the driver has finished.
THEOREM FinishedMeansFinal == ASSUME StableEnv PROVE Spec => FinishedIsFinal
  <1> DEFINE Step(c) == claimsInProgress[c] # "none"
                            /\ claimsInProgress'[c] = "none"
                            => c \notin creating
  <1>1. LeakInv /\ LeakInv' /\ [Next]_vars => [\A c \in Claims : Step(c)]_vars
    <2> SUFFICES ASSUME LeakInv, LeakInv', Next, NEW c \in Claims,
                        claimsInProgress[c] # "none",
                        claimsInProgress'[c] = "none"
                 PROVE  c \notin creating
      OBVIOUS
    <2>1. PICK d \in Claims : Environment(d) \/ Worker(d)
      BY DEF Next, Restart, StableEnv
    <2>2. d = c
      BY <2>1, FrameEnvironment, FrameWorker DEF Same, LeakInv
    <2>3. pc'[c] # "create" /\ creating' = creating
      BY <2>1, <2>2, ForgettingStep DEF LeakInv
    <2> QED BY <2>3 DEF LeakInv, ClaimInv, Tracked, Driver, Allocated
  <1> QED BY <1>1, LeakInvInit, LeakInvStep, PTL DEF Spec, FinishedIsFinal
=============================================================================
